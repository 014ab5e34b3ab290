# A TLA+ development of the Hylium node

Hylium is a full node and wallet in C++ (`src/src`) with a small web backend in
TypeScript (`src/backend`) and a web site (`src/website`).  This directory models
the part of the node on which everything else rests, the chain state: which
chain is active, which outputs are unspent, and what of that survives a crash.
Around it, it models the threads that check scripts, the queue that tells the
rest of the node what happened, an index that lives on what it is told, and the
book-keeping of transaction requests; and the one stateful endpoint of the web
backend.

## 1. The system

| Part | State | Operations | Talks to |
|---|---|---|---|
| coins caches (`coins.cpp`) | map of entries with DIRTY/FRESH, best block, memory usage | fetch, add, spend, uncache, flush, sync | the cache or database below |
| coins database (`txdb.cpp`) | coins, best block or two head blocks | `BatchWrite` in several batches | LevelDB |
| block storage (`node/blockstorage.cpp`) | blk and rev files, block index, file cursors | write, flush, prune, load | file system, block tree database |
| chain state (`validation.cpp`) | block index, failure flags, candidates, tip, best header | headers and blocks in, `ActivateBestChain`, `InvalidateBlock`, `PreciousBlock`, `ResetBlockFailureFlags`, `FlushStateToDisk`, `ReplayBlocks` | all of the above, validation callbacks |
| validation rules | none | `CheckBlock`, `ConnectBlock`, deployments | chain state, script check threads |
| scheduler, callbacks (`scheduler.cpp`, `validationinterface.cpp`) | task queue, callback queue | schedule, service, flush | wallet, indexes, net processing |
| indexes (`index/base.cpp`) | best block, `m_synced` | sync thread, `BlockConnected`, commit, rewind | callbacks, chain state |
| mempool (`txmempool.cpp`) | transaction graph | add, remove, reorganise, trim | chain state |
| transaction download (`txrequest.cpp`, `node/txorphanage.cpp`) | announcements, orphans | announce, request, expire, receive | net processing |
| net processing, net (`net_processing.cpp`, `headerssync.cpp`, `net.cpp`) | peers, blocks in flight, header syncs | one handler per message | everything |
| addresses, bans (`addrman.cpp`, `banman.cpp`) | tables | add, good, select, ban | net |
| wallet (`wallet/`) | keys, transactions | spend, scan, callbacks | chain interface |
| web backend (`src/backend`) | statistics cache, database | HTTP handlers | the node's RPC |

What is hard in it: write-back caches stacked on each other, whose flags say what
may be forgotten; a flush that is a sequence of separate durable writes, any of
which may be the last; a replay that must be repeatable; long operations that let
go of `cs_main` half way while the block index changes under them; two condition
variables between masters and workers; callbacks that arrive later than, or in
another order than, the events they tell of; and states kept up to date one
announcement at a time that must equal a definition over all of them.
`PROJECT.json` lists these hazards at the lines where they bite.

How much is covered: the modules stand for about 4000 lines of seventeen files,
mainly `validation.cpp`, `node/blockstorage.cpp`, `txrequest.cpp`, `coins.cpp` and
the two index files.  The node has some 180 000 lines without tests, user
interface and vendored code, so most of it is not modelled; section 5 says what.
Of the files that end in `.ts`, only some 1700 lines are TypeScript, in
`src/backend` and `src/website`; the `.ts` files of `src/src/qt/locale`, more than
a quarter of a million lines, are translation catalogues of Qt, and there is
nothing in them to model.

## 2. Modules

| Module | Models | Extended or instantiated by |
|---|---|---|
| `UtxoStack` | abstract: three stacked maps of coins | `CoinsCache` (refinement) |
| `CoinsCache` | `CCoinsViewCache`, `CoinsTip()` and a view over it | `MCCoinsCache`, `CoinsCacheProofs` |
| `ChainStorage` | block and undo files, block index, coins database, flush, crash, replay | `MCChainStorage`, `MCPruning`, `ChainStorageProofs` |
| `ChainState` | block index, failure flags, candidates, `ActivateBestChain`, `InvalidateBlock`, reconsider, precious | `ChainGaps`, `MCChainState` |
| `ChainGaps` | `ChainState` with a history of what others do in the gaps of `InvalidateBlock` | `MCChainGaps`, `ChainStateProofs` |
| `CheckQueue` | `CCheckQueue` and `CCheckQueueControl` | `MCCheckQueue`, `CheckQueueProofs` |
| `CallbackQueue` | abstract: callbacks run one at a time, in order | `TaskRunner` (refinement) |
| `TaskRunner` | `CScheduler`, `SerialTaskRunner`, those who wait for callbacks, shutdown | `MCTaskRunner`, `TaskRunnerProofs` |
| `IndexSync` | `BaseIndex` with `CoinStatsIndex` | `MCIndexSync`, `IndexSyncProofs` |
| `TxTracker` | abstract: who is asked for a transaction, computed anew at every call | `TxRequest` (refinement) |
| `TxRequest` | `TxRequestTracker::Impl` | `MCTxRequest`, `TxRequestProofs` |
| `StatsCache` | the statistics endpoint | `MCStatsCache`, `StatsCacheProofs` |

The modules are layers of one node, each with the layer below in the form that
layer promises.  `ChainState` decides which block is connected; `ChainStorage`
allows every connect and disconnect that `ChainState` could ask for and treats
`CoinsTip()` as a map; `CoinsCache` shows that a stack of caches is such a map.
The verdict that `ChainState` has of a block rests on `CheckQueue`, whose
`Complete` answers for the scripts of that block alone.  What `ChainState` does is
told to the rest of the node through the queue of `TaskRunner`; `IndexSync` uses
that queue as `CallbackQueue` promises it, one callback at a time and in order.

### CoinsCache

`cacheCoins[l][o]` is the entry of outpoint `o` in cache `l` ("tip" or "view") or
`Absent`, `coins` the database, `cachedCoinsUsage`, `hashBlock` and `open` (the
view is in scope) the rest.  One action per method; the pure step of a method on
one entry is an operator (`Fetch`, `Added`, `SpentEntry`, `Merge`, `Synced`,
`Write`) and its exceptions are predicates (`AddThrows`, `MergeThrows`, and `Flagged` of an entry
that `Sync` leaves).  Only the
top of the stack is written, as under `cs_main`.  Callers obey the contracts that
validation keeps: `EmplaceCoinInternalDANGER` only into an absent entry of
`CoinsTip()`, and `AddCoins` without the overwrite check, for a transaction other
than a coinbase, only where the view shows no coin.  An exception ends the
program; `thrown` records it.

### ChainStorage

The block tree is a constant; a block is its net effect on the outpoints (`Ins`,
`Outs`).  `blk` and `rev` are what the files hold, `blkSync` and `revSync` what is
known to be on the disk, `idx` and `idxDB` the index in memory and on disk (whose
batches are written with sync), `db` and `durable` the coins database as written
and as surely on disk.  `phase` follows `FlushStateToDisk`: block files, index,
unlinking, batches of coins.
`Crash` keeps what was written, `PowerLoss` what was synced; `Restart` loads the
index and, if there are heads, enters `ReplayBlocks`, whose loops are
`RollbackBlock` and `RollforwardBlock` and which ends in the same batch writes.
`SyncCoinsDB` is the external assumption on LevelDB: unsynced batches reach the
disk in order, at any time.  A read that fails ends the program (`"failed"`).
A flush syncs the block file and the undo file being written; undo data of a
block in an older file is written late, and that file is synced only with the
undo data of its highest block (`WriteBlockUndo`).

Left out: assumeutxo's second cursor, prune locks, automatic pruning's choice of
files (any set of prunable files is tried), reindexing, failing writes, and the
return of `DISCONNECT_UNCLEAN` (`validation.cpp:2965`), which is for a view that
does not have the coins of the block: `ViewExact` says that it always has.

### ChainState

A block is a member of a constant tree with chain work and an address order;
`verdict` is what validation will say of its contents.  `proc` is the place of the
thread that holds `m_chainstate_mutex`, with `cs_main` (`Held`) or without it, and
`want` says that another waits for it.  `ActivateBestChain`, `NextRound`,
`DropCandidate`, `FindMostWorkChain`, `AlreadyBest`, `ActivateBestChainStep`,
`ConnectTip` and `ConnectTipFails` are the steps of one call; `InvalidateBlock`,
`InvalidateTip` and `FinishInvalidate` those of the other.
`ProcessNewBlockHeaders`, `ProcessNewBlock`, `ReconsiderBlock` and `PreciousBlock`
take `cs_main` whenever it is free, also in the gaps of `InvalidateBlock`.
`Collected` is what `InvalidateBlock` gathers before its first gap
(`highpow_outofchain_headers`), and `invalidated` is history: the blocks it was
called with.  Choices the code leaves to a hash table or to the order of a queue
(`RecalculateBestHeader`, `QueueOrders`) are nondeterministic.  `ChainGaps` adds
`touched`, the blocks that others announced, marked or reset in a gap: those the
collection cannot know of.

Left out: pruned blocks, assumeutxo, the shutdown interrupt, the anti-DoS checks
of work and height on unrequested blocks, mutated blocks (they leave at most
their header), the split of a long branch into batches of 32 blocks, the
saturation of the reverse counter at the least `int32_t`, and the return of
`InvalidateBlock` at `validation.cpp:3699`, for a block to mark that is on the active
chain again: `m_chainstate_mutex` is held, so nobody connects blocks meanwhile.

### CheckQueue

A step is a critical section of `m_mutex`, or what a thread does between two of
them; `pc[t]` says where each master and worker is.  `Loop` is split at its lock:
`Enter`, `Resume` (after a wait) and `Finish` (after a batch) each end in
`Continue`, which leaves with the result, waits, stops or takes a batch, and `Run`
is the unlocked part.  A wait can end spuriously.  `Add` and `Notify` are two steps,
since the notification comes after the unlock, as are `RequestStop` and
`NotifyStop` of the destructor.  The order of the queue does not matter to its
users, so queue and batches are sets.  `added`, `ran` and `returned` are history:
the checks of the present control, those that were run, and the answer.

### TaskRunner

The service threads run `ServiceQueue` with its two waits, the one without tasks and
the one until the time of the first task; a task is the periodic one or a
`ProcessQueue`.  `Insert`, `MaybeScheduleProcessQueue`, `Schedule`, `Notify`,
`ProcessQueue`, `Callback` and `Ran` are the critical sections of the runner, taken
by whichever thread calls it.  Producers are threads in `ActivateBestChain`, which
hold `m_chainstate_mutex` while `LimitValidationInterfaceQueue` waits and `cs_main`
while they insert, or callers of `SyncWithValidationInterfaceQueue`.  `Stop`, `Join`
and `Flush` are the order of `Shutdown`; `Stop` sets the flag and notifies in one step
(`scheduler.h:81`), since no thread begins to wait once the flag is set.  A callback needs `cs_main`, as subscribers
take it.  Left out: `MockForward` and `StopWhenDrained`, which only tests call.

### IndexSync

The node is its tip, its block index and what of both is on disk; it connects and
disconnects blocks and flushes, in the middle of a step of `ActivateBestChain` too.
In that case the index is told of the flush before the blocks connected earlier in
the same step, since those are signalled at its end (`EarlyPlaces`).  `at` is where
the thread that works on the index is: the sync thread (`SyncNext`, `SyncCheck`,
`Interrupt`) until `m_synced`, the callbacks (`BlockConnected`,
`ChainStateFlushed`) after that; both go through `Rewind`, block by block, and add
the block (`SyncBlock`, `ProcessBlock`).  The content is that of `CoinStatsIndex`:
entries by height and by hash, and the running MuHash, which is the set of blocks
taken in; the other statistics go wherever it goes.  A commit touches nothing that
another thread reads before the next step of its own thread, and is part of the
step that makes it.  `Restart` is a crash or an end and the next start; `Rebuild` is
what the user does when the index is refused.  `undo` is the set of blocks whose data
and undo data the block index locates, `diskUndo` that of the index on disk: `Rewind`,
`ProcessBlock` and `SyncBlock` end in a fatal error if `CanRead` is false of the block
(`"unread"`) or the index's own data does not fit (`"failed"`), and no callback is
handled after that.  A block that was accepted but not connected before a start may
be missing after the next one, although the code may have it: more failures are
tried than the code has.

Left out: pruning, failing writes, the content of the other two indexes, and the loss
of late undo data with the power, which is the subject of `ChainStorage`.

### TxRequest

`m_index[t][p]` is the announcement of hash `t` by peer `p` with its state, time
and preference.  One action per method; the two loops of `SetTimePoint` are actions
between `GetRequestable` and `Return`, with no other call in between: `Promote` and
`Expire` until `EndPast`, then `Demote`; `loop` says which one runs.  `now` is any time
at every call, so the clock may go back.
`TxTracker` has three states instead of five and computes the best candidate when
asked.  `offered` is what `GetRequestable` last returned to each peer, kept over calls for
other peers, until a call settles the matter: the hash is requested or forgotten, or
the peer answers or leaves.  Left out: the counters of `m_peerinfo`, which are functions of the
announcements, and `m_sequence`, which only orders what is returned.

### StatsCache

`pending[r]` is the refresh that request `r` awaits at `Promise.all`, `reply[r]`
the last answer it got.  A value is the time at which the node gave it; `Null` is
the `null` of a failed call, which the page shows as 0.

## 3. Runs

State counts are distinct states.

| Run | Checks | States |
|---|---|---|
| `coins_cache` | `NoLogicError`, `Coherent`, `UsageExact`, `StackSpec` | 70 116 |
| `chain_storage` | `Consistent`, `ViewExact`, `HeadsIndexed`, `UndoSynced`, `FailsOnlyLate`, `Recovers` | 212 335 |
| `pruning` | `IndexBacked` | 172 287 |
| `chain_state` | `TypeOK`, `LinkedExact`, `CandidatesSettled`, `FailureCaused`, `OnlyGuilty`, `TipBest`, `ForwardProgress`, `Converges` | 338 684 |
| `chain_reconsider` | `FailureClosed`, `TipValid`, `TipMostWork`, `BestHeaderKept` | 843 424 |
| `check_queue` | `CountsExact`, `CompleteExact`, `Completes`, `Stops` | 245 704 |
| `task_runner` | `NotForgotten`, `Serial`, `SyncReturns`, `Drains` | 70 450 |
| `index_sync` | `FailsOnlyAhead`, `Retrievable`, `CaughtUp`, `CatchesUp` | 641 485 |
| `tx_request` | `SanityCheck`, `OffersHold`, `KeepsPromise`, `Settles` | 103 040 |
| `stats_cache` | `BoundedAge` | 466 126 |

Each module has a `TypeOK`.  For `CoinsCache`, `CheckQueue`, `TaskRunner`,
`IndexSync`, `TxRequest` and `ChainState` it is part of what is proved (section 4).

What they show:

* `coins_cache`: the flags never lose a coin or a spend, no `logic_error` is
  reached, the memory count is exact, and the caches implement `UtxoStack`.
* `chain_storage`: every crash leaves a coins database that is exact or can be
  repaired; the index on disk names only synced undo data of the undo file being
  written; and with two files nothing stops a start-up or a reorganisation but late
  undo data that a power loss took, of the very block to be rolled back.  A crashed
  node comes up again, unless it meets that.
* `pruning`: the index on disk names no block whose file was not synced, or was
  unlinked.
* `chain_state`: with arrivals in the gaps of `InvalidateBlock`, preciousblock calls on
  two competing blocks, and nothing reconsidered, the index, flags, candidates and
  tip are as `CheckBlockIndex` demands between two operations; a block is marked only
  if it or an ancestor fails validation or was invalidated; and a better block is
  activated, overtaken or found invalid.
* `chain_reconsider`: with a block and its parent reconsidered at any time, also in the
  gaps, marks stay closed under descent and off the active chain, the tip has the
  most work of what can be activated, and the best header is right whenever
  `cs_main` is free, in the gaps too, but for the blocks others touched there.
* `check_queue`: `Complete` answers for the checks of its own control, no earlier
  result leaks into it, the counters are exact, no wake-up is lost, and the
  destructor ends.
* `task_runner`: with two service threads the callbacks still run one at a time
  and in order, none is forgotten, the wait under `m_chainstate_mutex` ends, and
  after the shutdown none is left.
* `index_sync`: no order of connects, early flushes, callbacks of an abandoned
  branch, interruption and crash brings a fatal error over the index's own data or
  loses an entry; a block that cannot be read is met only by a rewind after a
  restart, on the chain that the index had committed ahead of the block index;
  nothing is missed where the sync thread hands over to the callbacks; the index
  arrives, unless it was refused, interrupted or met such a block.
* `tx_request`: the incremental states are those of `TxTracker`; at most one
  request per hash is in flight; what `GetRequestable` returned can be requested later
  without ending a request to another peer; the loops of `SetTimePoint` end although
  time may go back.
* `stats_cache`: no value is served older than the lifetime plus one refresh.

Bounds, and why they suffice:

* Coins caches: two outpoints, three coins (two of different size and one
  unspendable), two block hashes.  Entries of different outpoints meet only in
  the memory count and in flushes, which take all entries; the flag discipline
  needs one outpoint at all three levels, the count two.
* `chain_storage`: two branches of two blocks; an outpoint created on both at
  different heights, one created on both and spent on one, one created and spent
  inside a block; two crashes, so that a replay is itself interrupted.  Every set
  of outpoints is tried as a partial batch.  `FileCap = 3` and `MaxFile = 1` put the
  genesis block and two others in the first file and the last in the second, so that
  undo data of the first is written before and after the second is begun.
* `pruning`: a chain of four blocks in files of two, one crash.
* Chain state: blocks `A1` and `C1` on the genesis block, `A2` and `B2` on `A1`,
  `B3` on `B2`; `A2`, `B2` and `C1` have equal work and `B3` more.  Four verdict
  functions: all good, `B2` or `B3` fails to connect, `C1` fails on arrival.
  invalidateblock gets `A1`, so that up to three blocks are disconnected with
  gaps in between.  preciousblock gets `A2` and `C1` in `chain_state`; `MaxPrecious`
  bounds the calls between two resets of its counter to one.  `chain_reconsider` has
  two verdict functions, all good, or `B2` and `C1` bad; reconsiderblock gets `A1` and
  `A2`, at any time, and nothing is made precious, which `chain_state` has.
* Check queue: two masters, so that one control follows another; two workers, so
  that one finishes while the other waits or holds a batch; four checks of which
  two fail; batches of at most two.  A master adds any checks in any portions.
* Task runner: two service threads (the program starts one, `init.cpp:1430`, but
  `SerialTaskRunner` is written for any number) and two producers.  `Limit = 0`
  stands for the 10 of `LimitValidationInterfaceQueue`: the queue is long as soon as
  a callback waits.  `MaxCallbacks` bounds what is inserted before a thread begins
  anew; with one, a second producer still inserts while a callback runs.
* Index: a fork at the genesis block with branches of one and two blocks, so that
  heights are overwritten and a rewind has one or two steps; a callback
  may wait (`MaxQueue`), and two more join it when `ConnectTip` flushes: enough for a
  connected block and a flush in either order and for a backlog of an abandoned
  branch; one restart.  The proof has none of these
  bounds.
* Requests: three peers announce one hash, one of them as preferred or not, and one
  of them a second hash; two times, so that every time is past, present or future
  at some call.  The proof has none of these bounds.
* Statistics: two requests of two calls (the code makes three, all alike), a
  lifetime of two ticks, a latency of one and a clock of five, long enough for a
  refresh that overlaps the next expiry.

Deadlock checking is off in four configurations: after a lost undo record, or with
pruning after a replay that meets a pruned block, the program ends for good; the
check queue and the task runner end when they are shut down.

Fairness.  `FairSpec` of `ChainStorage` has weak fairness of `Restart`, the two
loops of `ReplayBlocks` and the final batch together: sequential code that waits for
no one.  The bound on crashes is what lets a start-up end at all.  `FairSpec` of
`ChainState` has weak fairness of the steps of `ActivateBestChain`, its taking of
the mutex included, and of the loop of `InvalidateBlock`.  Because a mutex need
not be fair, `Converges` only speaks of behaviours in which `InvalidateBlock`
eventually no longer runs.  Nothing is assumed of peers or operators.
`FairSpec` of `CheckQueue` and of `TaskRunner` has weak fairness of each thread's
own steps, and of what a caller has begun: notifying, closing a control, going on
with a shutdown.  `TaskRunner` adds strong fairness of the end of a timed wait whose
time has come, which spurious wake-ups interrupt but cannot prevent for ever.  Nobody is
bound to add checks, insert callbacks, or shut down.  `FairSpec` of `IndexSync` has
weak fairness of the work on the index: the sync thread, then the scheduler thread
that delivers the callbacks.  `FairSpec` of `TxRequest` says that the loop of
`SetTimePoint` is run.

### Where code and comments part

Two runs check what a comment of the source says, and TLC finds a behaviour of the
code that does not comply.  `PROJECT.json` quotes the lines.

| Run | Statement | What happens |
|---|---|---|
| `index_refused` | the index stores a locator, not a hash, because block index entries may not be on disk yet | `Init` looks up only the first hash of the locator and refuses the index if a crash lost that block |
| `stats_stale` | cached data is returned, even if stale, when a refresh fails | each call catches its own failure, so the refresh succeeds and caches zeros |

More disagreements need only another value or invariant in a configuration above;
they have no configuration of their own.

* `ChainStorage.cfg` with the invariant `phase # "failed"`: undo data written late to an
  older file is synced only with that file's highest block (`blockstorage.cpp:984`),
  so a power loss can take undo data that the index names, against
  `validation.cpp:2794`, "First make sure all block and undo data is flushed to
  disk."  `FailsOnlyLate` says that this is the only way to fail.
* `Pruning.cfg` with the invariant `ReplayReadable`: a pruning flush interrupted
  between two batches of coins needs unlinked blocks to replay
  (`validation.cpp:2812`), against `validation.cpp:2778`, "so we don't need to
  redownload or reindex after a crash".
* `ChainReconsider.cfg` with `BestHeaderKept` and `touched` taken as empty, whether or
  not anything is reconsidered: a header that came in a gap of `InvalidateBlock` is not
  considered (`validation.cpp:3661`), and the best header stays wrong after it has
  returned, against `validation.cpp:5340`.
* The same configuration with the invariant `LinkedExact`: a block whose parent was
  marked failed when it came, and was reconsidered later, is in no queue
  (`validation.cpp:3866`), against `validation.cpp:5412`.
* With the invariant `FailureCaused`, and so with `CandidatesSettled`: reconsidering a
  block clears its failed ancestor and leaves the ancestor's descendants on other
  branches marked (`validation.cpp:3768`, against `validation.cpp:5324`).
* With the invariant `Free => CandidatesExact`, also when nothing is reconsidered: a
  block that came in a gap of `InvalidateBlock` is missing from the candidates until
  the rescan at the end (`validation.cpp:3656`), although the comment at
  `validation.cpp:3583` asks for a consistent index in between.
* `ChainState.cfg` with `MaxPrecious = 2` violates `CandidatesSettled`:
  when `PreciousBlock` resets its counter (`validation.cpp:3545`), a tip that had a
  lower number sorts no better than an equal block that was already removed from
  the candidates (against `validation.cpp:5383`).
* `TxRequest.cfg` with `OffersHold` strengthened to say that what was offered is still
  CANDIDATE_BEST: a second `GetRequestable`, at another time, lets a better candidate
  in or makes the first one wait again, against `txrequest.cpp:630`, which counts it
  among the calls that may come in between.

One observation has no comment against it: with two service threads a periodic
task that reschedules itself could be run early, because a thread that waited for
the time of an earlier task takes whatever is first when it wakes
(`scheduler.cpp:43`).  The program starts one service thread.

So the arguments of the passing runs are chosen: `chain_state` reconsiders nothing,
and `chain_reconsider` checks what holds although anything is reconsidered at any
time.  What they show holds inside these limits and, by the above, not beyond them.

## 4. Proofs

TLAPS checks these for every value of the constants that satisfies the modules'
assumptions; no bound of the runs is used.

* `CoinsCacheProofs`.  The inductive invariant joins types, `Coherent` and
  `NoLogicError`: each entry is coherent with what the level below presents
  (`EntryOK`), at both levels.  The levels have to go together, since a flush
  writes the entries of the view into `CoinsTip()` and relies on their flags.
  Lemmas about one entry over one coin of its base are lifted to all outpoints.
  From it follow that nothing throws (`CacheNeverThrows`), that the flags mean
  what they should (`CacheCoherent`), and that every step is a step of `UtxoStack`
  or leaves it unchanged (`CacheRefinesStack`).  `CacheUsageExact` is about a sum:
  `cachedCoinsUsage` is kept by differences and must equal the sum over the entries.
  That `SumFunction` adds up, one element at a time, is proved by
  induction on the set (`PickInduction`, `SumsOfLemma`); `SumExcept` and `SumPlus`
  then say what one changed entry, and a flush that changes all of them, do to it.
* `ChainStorageProofs`, the coins: `StorageConsistent` and `StorageViewExact`.  The
  invariant adds to `Consistent` where the working view stands in each phase: exact
  when the node runs, and during a replay at block `b` "mixed", every outpoint with
  the coin after `b` or the coin after the new tip.  Undoing or redoing a block sets
  the outpoints it touches whatever they were, and the others are the same before
  and after it, so a mixed view stays mixed, and is exact when the replay arrives.
  `Chain` and `Utxo` are defined by recursion along the tree, and what the proof needs
  of them is proved by induction on the height (`Tree`, `Unspent`): of two ancestors of
  a block one is on the chain of the other, and the coins after a block are those
  after its parent with the block connected.  Assumed are a tree with heights, and that a block spends only what exists and
  creates only what does not, which validation has established.
* `ChainStorageProofs`, the files: `StorageIndexBacked` and `StorageHeadsIndexed`
  hold for every file size and with pruning.  `DiskInv` follows the order of a flush,
  files before index before coins: which files are synced in each phase, that a file
  to be pruned is no longer named by the index that is written, and that a tip is in
  the index on disk before the coins may name it.
  `StorageUndoSynced` follows the undo file being written in the same way (`UndoInv`):
  its records in memory are in the file, and only older files may have lost some.
  `StorageFailsOnlyLate` holds with power losses and any number of files, without
  pruning (`KeepInv`: what the running node needs to read is in the files, the undo
  data of older files excepted).  `CrashNeverFails`: if only the process is lost and
  never the power, nothing is excepted (`AllUndo`), and no start and no
  reorganisation fails.
* `ChainStateProofs`, the flags and the tip, for any sets of RPC arguments and
  whatever happens in the gaps.  `ActiveChainNeverFailed` and `FailuresAreCaused`
  (`OnlyGuilty`): `pindexMostWork` survives the release of `cs_main`, so the invariant says that its
  whole chain has data and no failed block at all times; the block-arrival step keeps
  this because it marks only a block without data and its descendants.
  `ChainStateTypes` adds that the index is closed under parents.  `FailuresClosed`:
  only descendants of the block `InvalidateBlock` marked last may still be unmarked
  (`Closed`).  `TipMovesForward`: no candidate, nor `pindexMostWork`, sorts before the
  tip, or before the tip `cs_main` was taken with while it is held (`Ranked`).
  `TipHasMostWork`: no usable block heavier than the tip is missing from the
  candidates (`Complete`), and `pindexMostWork`, once found, is heaviest (`Most`); in a
  walk of `InvalidateBlock` this rests on its collection (`Collection`).
  `BestHeaderIsBest`, of `GapSpec`: while `InvalidateBlock` runs, its collection holds
  every block off the chain that has not failed, has more work than the parent of
  the block to invalidate and was not touched by others (`Searched`), so the best
  header chosen from it is the best of the untouched ones (`HeaderInv`).
  `HeldLoopsProgress` is what `Converges` owes to the code: under `cs_main` every step
  of the loops adds a failure mark, or removes a candidate, or comes closer to
  `pindexMostWork` by choosing it, leaving the other branch or connecting a block; so
  on a finite index they end.  It needs that the branch being connected has not
  failed.  The tree enters as `Parent` with growing work; `Chain` is defined by
  recursion, and its facts are proved by induction (`BlockInduction`, `ChainTree`).
  How one operation keeps an invariant is a named step inside the lemma for that
  invariant (`<1>ConnectStep` in `StateStep`); only what several parts use is a lemma
  of its own, which also keeps the context of each obligation, and so the time
  `tlapm` needs (about 15 minutes for this module), down.
* `ChainStateProofs`, what `CheckBlockIndex` demands in full.  Here what an RPC can
  undo enters as a condition on its calls, without which TLC finds a counterexample;
  arrivals, failures and invalidations are free.

  | Theorem | States | Of the behaviours in which |
  |---|---|---|
  | `TipIsBest` | `TipBest` | `TipKept`: no preciousblock call lets a block draw level with the tip by renumbering the tip |
  | `FailuresHaveCause` | `FailureCaused` | `CarefulReset`: reconsiderblock is called while `InvalidateBlock` does not run, on a block none of whose ancestors has failed |
  | `CandidatesAreExact` | `CandidatesSettled` | `CarefulReset` and `TipKept` |
  | `LinkedAreExact` | `LinkedExact` | `CarefulReset`, and `NothingLost`: at the call no block with data is neither linked nor queued |

  `CarefulReset` and `NothingLost` hold of every behaviour when nothing is reconsidered,
  as in `chain_state`; `TipKept` does when one block is made precious or one call is
  made between two resets (`OnePrecious`, `AlwaysKept`), and `TipIsBestPrecious` is
  `TipIsBest` for that case.
  preciousblock can renumber the tip itself behind a block that it preceded before and
  that is no candidate any more.  `LinkedAreExact` is the one with
  the longest way: a block that arrives in a gap on a failed parent is not queued, and
  it takes three facts to see that its missing ancestors will be refused: the
  collection holds, with a block, its ancestors (`Gathered`); below a failed ancestor
  of an unfailed block everything has failed or has data (`Shadow`); a block not
  queued waits for failed blocks only (`Waiting`).
* `StatsCacheProofs`: `StatsBoundedAge`.  The invariant bounds the age of the cache and of the
  pending answers at once: an answer is no older than the refresh that asked for
  it, and cached data is at most one refresh older than its time stamp.  The one
  assumption on the environment is that a call takes at most `MaxLatency`; the
  backend itself sets no time-out.
* `CheckQueueProofs`: `CompleteAnswers`, `QueueCounts` and `QueueWakes`.  `CompleteExact` speaks of
  the moment a master has left; the invariant says what is known before.  `Owned`:
  a master that is not idle holds the control mutex.  `Batched`: what stands in the
  queue and the batches was added under this control.  `Results`: of the checks that
  are no longer pending, either one has failed and `m_result` is one of those, or
  all were run and none failed; a batch that is not run has a result already; and
  what a thread's `local_result` says of its batch.  The counters are in it because
  the master leaves on `nTodo = 0`, which must mean that nothing is pending;
  cardinalities of the sets come from the library of finite sets.  `QueueWakes`
  states the safety behind `Completes` and `Stops`, for any number of threads, as
  `NoLostWakeup`.  Its first part is not inductive: the invariant says instead that a
  waiting master saw the queue empty and `nTodo` above zero, which stays so until the
  worker that brings `nTodo` to zero has woken it.
* `TaskRunnerProofs`: `CallbacksNotForgotten` and `RunnerIsSerial`, for any number
  of threads.  The invariant adds to `NotForgotten` that at most one thread is
  inside `RAIICallbacksRunning`, that it alone has a current callback, and where
  each kind of thread can be.  `RunnerIsSerial` is the safety part of `Serial`:
  every step is an insertion, a beginning or an end of `CallbackQueue`, or none.
* `IndexSyncProofs`: `IndexFailsOnlyAhead`, `IndexRetrievable` and `IndexCaughtUp`, for every block tree,
  any length of the queue and any number of restarts.  `Exact`: every entry is right
  for the block it names.  `Kept`: every block of the chain the index is at and of
  the chain last committed is found, and one that is only on the committed chain
  has its entry by hash, since its height may be overwritten next.  `Placed`: what
  the position of the thread says of the last block and the best block.  `Started`:
  as long as there is no best block, the genesis block is the first callback, so that
  no flush is handled without one.  `Coming`, for `IndexCaughtUp`: from the block the
  index is at, or is about to add, either the tip is no further, or a callback in
  the queue brings a block that follows it, and the same from that block.  `Readable`, for
  `IndexFailsOnlyAhead`: the chain of the tip, the blocks in the queue and the target of a
  rewind can be read, and of the chain the index is at, what cannot be is on the chain
  committed before a restart.  Chains are defined as least closed sets, so that
  their facts need no induction.
* `TxRequestProofs`: `TrackerSane`, `OffersCanBeTaken`, `TrackerKeepsPromise` and `RoundsProgress`.  The
  invariant is `SanityCheck` with the types, row by row, what is
  known in each of the two loops (`Looped`), and `OffersHold`.  Lemmas say what each helper does to a row: promotion,
  reselection, completion, forgetting.  For the refinement, each helper on a row
  is one step of `TxTracker` on that row without the split of the candidates.
  `RoundsProgress` is the safety behind `Settles`: the set of announcements left to
  promote or expire shrinks in every round of the first loop, and in the second the
  set left to demote shrinks while the first stays empty.

Only model-checked: the liveness properties `Recovers`, `Converges`, `Completes`,
`Stops`, `SyncReturns`, `Drains`, `CatchesUp`, `Settles` and the fairness in `Serial`,
since liveness under fairness and `ENABLED` are out of the prover's reach.  For
`Converges`, `Completes`, `Stops` and `Settles` the theorems on progress and on
wake-ups above say, for every value of the constants, why the code gets on; that a
step is always possible is left to the deadlock checks and the fair runs.  Every
invariant and every action property of a passing run is stated by a theorem, some
under the hypotheses above.

The library's induction theorems cannot be used here, since they take an operator as
a parameter.  Where a recursive definition is involved, induction is done by a least
counterexample (`LeastNat`) or over a set that is closed under the step
(`BlockInduction`, `PickInduction`), and the equation of a recursive function is
derived from an explicit solution (`UpEquation`, `LeftByEquation`, `SumsExist`).

## 5. Not modelled

Worth modelling next, in this order:

1. `TxOrphanage`, whose trimming compares ratios of sums over peers, and so needs
   instances larger than the ones above to say anything.
2. Blocks in flight, which are spread over the message handlers of
   `net_processing.cpp`, and the header sync of `headerssync.cpp`, whose guarantee is
   statistical.
3. Deployment states (`versionbits.cpp`) as a recursive function of periods, with
   the cache against the definition.
4. The mempool at reorganisations, composed with `ChainState`.
5. The second chainstate of assumeutxo.
6. Power losses under the coin statistics index: late undo data composed with
   `IndexSync`.

The other handlers of the web backend (accounts, newsletter, contact, downloads, the
RPC proxy) keep no state between requests: each is one or two calls to a database,
and look-up then create, the only interleaving, is decided by a unique index of
that database.  The web site is presentation.

Vendored libraries, cryptography and encodings, user interfaces, request parsing
and numeric heuristics are listed in `PROJECT.json` as `not_modelled`, with reasons.

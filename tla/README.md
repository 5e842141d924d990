# Xaya X: a TLA+ verification project

Xaya X connects a blockchain that was not made for games (Ethereum-like chains, or Xaya Core) with
the game state processors (GSPs) of the Xaya platform.  It keeps a local picture of the chain, pushes block
and pending-move notifications over ZMQ, and answers the RPC calls that a GSP would otherwise send
to Xaya Core.  This directory models its core: what it stores, how it follows the base chain, what it tells GSPs,
how it asks the node of the base chain, how it caches blocks, and how its threads start and stop.

## 1. Inventory

| Part | State | Operations | Talks to |
|---|---|---|---|
| `Chainstate` (`src/src/chainstate.cpp`) | the SQLite table `blocks`: hash, parent, height, branch number | `SetTip`, `ImportTip`, `Prune`, `GetForkBranch`, `SanityCheck`, `UpdateBatch` | called by `Sync` and the controller under `mutChain` |
| `Sync` (`src/src/sync.cpp`) | `numBlocks`, `nextStartHeight`, its thread | `UpdateStep`, `ImportNewTip`, `Start`, `NewBaseChainTip` | `BaseChain`, `Chainstate`, callback `TipUpdatedFrom` |
| `Controller` (`src/src/controller.cpp`) | `shouldStop`, `RunData` with all other parts, RPC server | `Run`, `Stop`, `TipUpdatedFrom`, `PushZmqBlocks`, the RPC methods | everything |
| `PendingManager` (`src/src/pending.cpp`) | `chainstateTip`, `notificationTip`, `pendingsQueue` | `TipChanged`, `PendingMoves`, `ChainstateTipChanged` | callbacks of `BaseChain`, `ZmqPub` |
| `ZmqPub` (`src/src/zmqpub.cpp`) | `games` with their depth, `nextSeq` | `TrackGame`, `UntrackGame`, `SendBlockAttach`, `SendBlockDetach`, `SendPendingMoves` | the ZMQ socket |
| `BlockCacheChain` (`src/src/blockcache.cpp`, `src/src/cache/mysql.cpp`) | `lastTipHeight`; the MySQL table | `GetTipHeight`, `GetBlockRange` | the underlying `BaseChain`, the storage |
| `EthChain`, `PendingMempool`, `WebSocketSubscriber` (`src/eth/`) | contracts and signatures, the local mempool, the connection and its subscriptions | `GetBlockRange`, `GetMainchainHeight`, `Start`, `EnablePending`, `GetContent`, notifications | an Ethereum node, by requests and a websocket |
| `CoreChain` (`src/xayacore/`) | one ZMQ listener per address of the node, with its topics | `GetBlockRange`, `GetMainchainHeight`, `Start`, `EnablePending`, notifications | Xaya Core, by requests and ZMQ |
| `Database` (`src/src/database.cpp`) | the cache of prepared statements with a flag "in use", SQLite's savepoints | `Prepare`, `Execute`, the end of a `Statement` | called by `Chainstate` |
| Main programs (`src/eth/main.cpp`, `src/xayacore/main.cpp`) | flags | start the base chain, enable pending moves, run the controller | `EthChain`, `CoreChain`, `Controller` |
| Block data, JSON and RPC helpers | | conversions | |

Threads: the main thread, which ends up in `Controller::Run`; the updater of `Sync`; the threads of the RPC server; and
those of the base chain that call `TipChanged` and `PendingMoves`: one for each ZMQ listener of `CoreChain`, or the one of the websocket of
`EthChain`.  Locks are taken in the order `Controller::mut`,
`BaseChain::mut`, `Sync::mut`, `mutChain`, and then those of `PendingManager` and `ZmqPub`.

What is hard here:

* the base chain moves between any two calls, so that an answer is outdated when it is used;
* the branch numbers of `Chainstate` must survive any sequence of reorgs, prunings and imports;
* an update step makes two separate commits, and may fail or crash in between or afterwards;
* a GSP must never be left on a block from which X cannot lead it on;
* push notifications and updates of the chainstate arrive in different orders, get lost, and come while the program still starts;
* a prepared statement can be in use only once, and the database by one thread only;
* sends may throw half-way; the destructor of `RunData` races with callbacks and calls.

`PROJECT.json` lists these hazards with the lines where they bite and the properties that cover them.

## 2. Modules

| Module | Models |
|---|---|
| `Blocks` | the tree of blocks: `Block`, `Height`, `Parent`, and the ancestors `Anc` |
| `BranchTable` | the table `blocks` as a function from blocks to branch numbers, the functions of `chainstate.cpp` on it, what their callers promise, and the invariant of a table |
| `Chainstate` | the database with nested batches and crashes, its properties and inductive invariant |
| `TreeStore` | abstract: a set of blocks with a main chain, transactions on it; `Chainstate` implements it |
| `Sync` | the update thread with the base chain and `TipUpdatedFrom`; it uses `Chainstate` as that module allows |
| `SendUpdates` | `Sync` composed with `game_sendupdates`, `getblockhash`, `getblockheader`, `getblockchaininfo` and a GSP |
| `PendingManager` | the handlers of the manager |
| `CoreListener` | `PendingManager` composed with the ZMQ publishers of a Xaya Core node, the listeners of `CoreChain`, the start of the program, and `Sync` |
| `ZmqPub` | the publisher with GSPs that track games |
| `BaseChain` | abstract: what the interface promises about `GetBlockRange` and `GetMainchainHeight` while the node moves |
| `EthChain`, `CoreChain` | how the connectors put an answer together from several requests |
| `Connectors` | a caller of either connector; both implement `BaseChain` |
| `EthPending` | the start of the program, the websocket, `NewPendingTx` and `PendingMempool`, with an Ethereum node |
| `BlockCache` | processes with `BlockCacheChain` and a shared storage |
| `Database` | which statements and savepoints each method uses, in which order; threads that go through them |
| `Lifecycle` | the threads, mutexes, callbacks and object lifetimes of a `Controller`; its threads use the `Database` |
| `BlocksTheorems` | lemmas about the ancestors of blocks and about tables, on which those of the next two lines and `CoreListenerTheorems` rest |
| `ChainstateTheorems`, `SendUpdatesTheorems` | proofs about what is stored, how `Sync` makes it follow the base chain, and what GSPs are told of it |
| `ConnectorsTheorems`, `BlockCacheTheorems` | proofs about the answers of the base chain, the connectors' and the cache's |
| `CoreListenerTheorems`, `EthPendingTheorems` | proofs about pending moves |
| `ControllerTheorems` | proofs about the controller's parts: the messages of `ZmqPub`, and the threads of `Lifecycle` with the `Database` |
| `MC...` | instances for TLC |

Definitions named "Mutant" in a comment are deliberately wrong variants of the definition that
follows.  No specification uses them; they show that a property can fail (section 4).  The inductive invariant of a component that is
proved about stands at the end of its module.

### Correspondence with the code

**BranchTable, Chainstate.**  A table is a function `t`; `t[b]` is the `branch` column of the row of block `b`, or
`NotStored`.  Branch 0 is the main chain.  `MarkAsTip`, `SetTip`, `ImportTip`, `Prune`, `GetForkBranch` and `SanityCheck`
are the functions of the same names.  `GetForkBranch` loops in the code: the model defines its result as the least
set closed under the loop's step, which needs no recursion.  `saves` holds, per open
`UpdateBatch`, the table to which its savepoint would roll back; each operation is atomic because it runs in a
savepoint of its own or is a single statement.  A crash falls back to the outermost savepoint.  `SetTip` and
`ImportTip` are guarded by what their callers promise: no reorg below the lowest stored main-chain
block, imports only on top of the current tip.  `Sync` is checked to keep that promise (`UsesChainstateRightly`).

**Sync.**  `UpdateStep` is split at every call to the base chain and every commit: `BeginStep`
(`GetTipHeight`), `AttachFirst` and `LookFurtherDown` (`GetBlockRange` and the first `SetTip`), `BeginBatch`,
`AttachNext`, `CommitBatch`, `TipUpdatedFrom`, `FinishStep`, `ImportNewTip`.  `AttachShort` is `AttachFirst` with the shorter range that
`EthChain` may return after a reorg (see `BaseChain`); it counts as a fault, so that it does not happen for ever.  The CHECKs lead to the `pc` value
"abort".  `BaseMove` lets the base chain switch to any tip that keeps its final blocks.  It is enabled only where the next
step reads the base chain; a move elsewhere could not be told from one right before the next read.
`CallFails` is an exception from the base chain or from the callback, `Crash` a restart of the process.

**SendUpdates.**  The RPC thread and the updater exclude each other by `mutChain`, so a request runs while `pc`
is "idle"; the base chain moves between its calls.  `RpcFromHeight`, `RpcToHeight`, `RpcDetach`, `RpcAttach` are the stretches of
`PushZmqBlocks` from one call to the base chain to the next, `RpcReply` computes "toblock".  The GSP may follow any prefix of the
notifications that start at its block (`GspFollows`, with the attaches that `PushZmqBlocks` sends, `SentAttaches`); it may miss them; a failed request leaves it anywhere on the way.  The read-only methods change nothing
and are operators: `getblockchaininfo`, `getblockhash`, which asks the base chain for what is pruned, and `getblockheader`.
`OneMainChain` compares what they answer.

**BaseChain, EthChain, CoreChain.**  `call` is the call being answered and `during` the tips that the node has had since it was made.
An answer must be justified by those: a range is a piece of one of these main chains, with all moves.  It may stop at the height of another one:
`EthChain` cuts the range at the tip height it reads first, and if the node then switches to a longer chain, fewer blocks are returned than
that chain has.  Each request to the node is one action (each call of a batch, too), and the node may move between any two.  `TryBlockRange` is
the start of an attempt; a block that does not fit leads back to it.  The two ways to get logs are `AddMovesOneByOne` and `AddMovesFromHeightRange`;
the CHECKs lead to "abort".  The node may also answer a single call of a batch with an error, whatever the reason.  For a block, a CHECK then ends the process
(`EthBlockFails`, "nodeError"); for the logs of a block, everything is tried again (`EthLogsFail`).  Both count as faults.  The connectors share the variables of `BaseChain`, so that the refinement mapping is the identity.

**EthPending.**  The main program goes through `StartChain`, `MakeExtractor`, `EnablePending`, `AddWatchedContracts` and `Run` (`mainPc`) while the
connection is being opened (`OpenConnection`) and may be lost (`LoseConnection`; nothing opens it again).  To subscribe on a connection that is not open yet
is refused by the library, and the code does not look at the error; on one that is lost it may throw, and the program ends (`Exited`).  While the watched contracts
are inserted on the main thread, the websocket's thread may look for them: a data race, in which a transaction may be found or not.
`messages` are those of the node on the websocket; its thread handles one after the other, and asks the node about
the transaction when it does (`HandlePendingTx`), updates the pool (`AddToMempool`) and calls back (`PendingMoves`).  `GetContent` runs on several threads:
it takes the lock to see what to ask for, asks without it (`NodeAnswers`, one call of the batch at a time) and takes it again in `ReturnContent`.  `Sorted` are all the orders that `std::sort`
may produce: transactions of one sender with the same nonce, of which one replaces the other for a higher fee, are equivalent for it.  The node of the model may even have both pending.  `left` and
`due` are history variables for the properties.

**PendingManager, CoreListener.**  Each handler is one action, because it holds the mutex throughout.  A `ZmqListener` is a record of its address, its topics and
the messages that were published for it; `listeners` is in the order in which they were made.  `Publish` gives a message to every listener that
has subscribed to the topic at its address, or loses it, as ZMQ does when a subscriber is slow or its subscription has not
arrived.  A message that a thread has taken off its socket and is working on is still the first one of
its listener.  A send that throws in `PendingMoves` ends the process, since nothing on the listener's thread catches it; in `ChainstateTipChanged`, on the thread of `Sync`, it leaves
the queue filled (`threw`).  `Notifiers` are the ways in which a node may be configured: both topics at one address, at two, or only one of them.  `Sync` may report any
block that the node ever had.

**ZmqPub.**  A topic is a kind of message and a game.  A message that fails for some games goes to an arbitrary subset of them,
since `games` is an unordered map.  `SeqNumbers` stands for 2^32.  `Select` is the loop of `SendBlock` and `SendPendingMoves` over the moves, which appends to
the array of each game; it is a recursive function and takes a set, so that it can be reasoned about.

**BlockCache.**  `GetBlockRange` is `GetUncached`, `GetCached`, or `AskBase` and then `StoreFetched`, between which the base chain may move and other threads and processes may store.
`BaseAnswers` are the ranges that `BaseChain` allows, the short ones included.  Storing may fail for any of the blocks,
and a query may fail, which the code treats like an incomplete answer.  `LearnTipHeight` is the method `GetTipHeight`.

**Lifecycle.**  `runPc` walks through `Run`, the constructor and the destructor of `RunData` in the order of their statements and
of the members' destruction.  The RPC methods are distinguished by the mutex they take.
What a thread does with the chain's mutex held is a sequence of steps from the module `Database`.  The mutexes inside `PendingManager` and `ZmqPub` are left out: a thread takes
them after all others and in this order (`pending.cpp:46`, `pending.cpp:72`), so that they add no cycle to those that threads wait for.

**Database.**  A method of `Chainstate`, `Sync` or `RunData` is a set of sequences of steps (`Body`), one for each way through it:
`take` and `put` are `Prepare` and the end of a `Statement`, `query` is both with no other call in between, `call` goes into another method, `maybe` does so under some condition, `loop` goes
through a method several times, `savepoint` and `commit` belong to an `UpdateBatch`, and `base`, `publish` and `callback` leave the database and may throw.  `todo[t]` is what thread `t` still has to
do, `used` the statements that are in use, and `batches` the methods whose batch is open.  A statement is named for what it does, and two methods use the same one exactly where the text of the SQL is the same, since the
cache is a map by that text.  `stmt = db->Prepare (...)` prepares the new statement before it releases the old one (`Assign`).  A statement that stays in scope while a
loop runs, or until after a commit, does so here (`MarkAsTip`, `SanityCheck`, `Prune`).  An exception runs the destructors of what is in scope, up to the next handler: `OthersThrow` closes what
the skipped steps would close.  `MaxLoop` bounds how often a loop over blocks or branches is run through.

## 3. Assumptions about the environment

* The base chain never replaces a block once `MaxReorgDepth` blocks were built on it (`FinalBlock`).  This is what the flag
  `--max_reorg_depth` means; the code aborts otherwise ("Reorg beyond pruning depth").
* `GetBlockRange` answers as the module `BaseChain` says; `Sync`, `SendUpdates` and `BlockCache` rely on it, and the run
  `connectors` shows it of both connectors.
* `--ethchain_fast_logs_depth` is not less than the depth of reorgs (`FastLogsAssumption`), as its help text says; the mutant
  `BuriedBelowTip` shows what happens otherwise.
* A node answers the calls of one batch in their order, each from its state at that time; for a block off its main chain it may or
  may not have data.  It announces transactions only after it has confirmed the subscription.
* `minDepth` of the cache is not less than the reorg depth; `eth/main.cpp` passes `--max_reorg_depth` for it.
* ZMQ keeps the order of messages within one socket, and between two sockets none.  A Xaya Core node announces a tip before the transactions that enter its mempool
  with it.  The comment in `pending.hpp` that "push notifications about TipChanged and pending moves are in order" is not an assumption of the
  model: the order follows from the code where the node publishes both topics at one address, and there it is used
  (`corechain.hpp`: "reuse a single existing socket to ensure in-order handling").  Hence `NoConfirmedMoveSent` is stated
  for that case, with no message lost; `QueueKeptOnlyByThrow` is not restricted.
* Nobody untracks a game more often than it was tracked by a GSP that has ended: `CleansUp` is for those that died.  `trackedgames` would let any caller do so
  (`controller.cpp:258`), and a GSP that runs would then miss its notifications.
* `websocketpp` refuses to send on a connection that is not open, with an error code.

## 4. Runs

Every passing run names for each property a mutant: a plausible bug in one mapped definition with which TLC
finds the property violated in the same configuration.

| Run | Instance | Shows |
|---|---|---|
| `chainstate` | genesis, two chains of two blocks, and a fork of one of them; one level of batches | `SanityChecked`, `UniqueConstraint`, `MainHasNoGaps`, `ForkBranchIsPath`, `NoBlockLost`, and `ImplementsTreeStore` |
| `sync_forked` | six blocks and a branch of two above the first; reorg depth 2; one fault | `NeverAborts`, `NotificationsLeadToTip`, `UsesChainstateRightly`, `CatchesUp`, with pruning and quick sync |
| `sync_split` | the branch leaves at the genesis; reorg depth 5; no fault | `NeverAborts` and `CatchesUp` when the search for the fork point takes several steps |
| `sendupdates` | five blocks and a fork; reorg depth 2; one fault; requests for the tip, a low and a high block | `MessagesFit`, `GspNeverStuck`, `OneMainChain`, `RpcChecksHold`, `GspCatchesUp` |
| `sendupdates_early` | a GSP that is there before the first block is imported | violation, finding 1 |
| `connectors` | four blocks and a fork of two; reorg depth and fast-logs depth 2; ranges around the fork, heights on and off the main chain; one fault | `ImplementsBaseChain`, `CoreRangeIsAtomic`, `NeverAborts`, `CallsReturn` |
| `ethpending` | two transactions with moves of one sender, one without; two threads; four events at the node, two messages under way | `PendingTracked`, `PendingKept`, `ContentComplete`, `GoneRemoved` |
| `pending` | genesis and two blocks on it, two transactions, four configurations of the node; two messages under way, two moves queued | `NoConfirmedMoveSent`, `QueueKeptOnlyByThrow`, `QueueDrained` |
| `zmqpub` | two games, three GSPs, a block with valid, invalid and admin moves, two sequence numbers | `TrackedWhileRunning`, `SequenceUnbroken`, `PendingMatchesBlock` |
| `lifecycle` | one stop call and one chain request; loops run through at most once | `NothingUsedAfterDestruction`, `StatementsUsedOnce`, `DatabaseGuarded`, `PublishedIsCommitted`, `StopWorks`, `CallsAnswered` |
| `lifecycle_info` | one stop call and a call of getzmqnotifications | violation, finding 2 |
| `blockcache` | two processes (symmetric), six blocks and a branch of two, depth 2; ranges of up to two blocks, two requests under way | `StoredIsFinal`, `Transparent` |

Why the bounds are enough to be interesting: the trees contain forks of forks and blocks that get
pruned and quick-synced over (a chain longer than the reorg depth); `BlockRange` is small enough to be reached and larger than
the three blocks that an update step asks for at least; two sequence numbers make the number wrap around; two messages under way
let a tip and a move overtake each other on two sockets, or a move wait behind a tip on one.  One round of a loop over blocks shows how its statements meet those
around it; the proofs are for any number of rounds.  One fault is enough to hit every point of a step.  In the instances of
`Chainstate` and `Sync`, a VIEW identifies states that differ only in the numbers of the branches, which no property or guard
tells apart.

Fairness: `Sync` steps for ever, because the thread sleeps or waits with a timeout and then steps again, also without
any notification; `Sync!Fairness` says this without ENABLED, which TLC evaluates slowly.  A GSP goes on asking.  In `CoreListener`, the main program goes on, the thread of each listener
handles what is there, and `Sync`, which also polls, gets to the node's tip if that no longer moves.  In `Connectors`, the calling thread goes on; `CallsReturn`
is stated for a node that stops moving, and unless an error of the node has ended the process.  In `EthPending`, the main program goes on, the thread of the websocket handles what has arrived and requests are answered; that anyone
calls `GetContent` is a premise of `GoneRemoved`.  In `Lifecycle`, every thread goes on when it can, and a
mutex that is free again and again is obtained (strong fairness).  No fairness is assumed of the base chain, of crashes
or of callers.  `CatchesUp` and `GspCatchesUp` are stated for a base chain that stops moving.

### Findings

1. `sendupdates_early`: the RPC server is started before `Sync`, and `game_sendupdates` before the first import fails the CHECK at
   `controller.cpp:647`.  `RequestsAnswered` has a second way to fail, for which the base chain has to get shorter between two calls of one request:
   `PushZmqBlocks` then takes `toDetach.back ()` of an empty vector (`controller.cpp:746`, `rpcPc` = "undefined" in `SendUpdates`).
2. `lifecycle_info`: `Run` holds `Controller::mut` while it waits for RPC calls to end, and getzmqnotifications (or a second stop) waits for that mutex.

Not violations of what is documented, but worth knowing:

* If sending a queued pending move throws, the queue stays filled although the tips agree, and the
  CHECK at `pending.cpp:45` fails at the next move.  `QueueKeptOnlyByThrow` shows that this is the only way to fail it.
* Moves are queued until a first `hashblock` notification.  If the node publishes `rawtx` but not `hashblock`, none ever comes, and the queue grows for ever
  (`pending.cpp:53`); `QueueDrained` therefore starts from a known notification tip.  After a lost `hashblock`, moves wait until the next block.
* With two addresses for the two topics, a GSP may be sent a pending move that its chain has already confirmed.
* If `EnablePending` is called before the websocket is open, the subscription is lost without a word (`websocket.cpp:163`), and pending moves are
  reported as tracked.
* The watched contracts are inserted without a lock while the thread of the websocket may already read them (`eth/main.cpp:140`).
* A websocket that is lost is not opened again; `Sync` goes on by polling, pending moves stop.

## 5. Proofs

TLAPS checks the following theorems for every value of the constants: every finite tree of blocks, every number of faults,
messages, transactions, processes, threads, RPC calls, rounds of loops and games.

| Module | Theorem | States |
|---|---|---|
| `ChainstateTheorems` | `Invariance`, and from it `TypeCorrect`, `NeverInsane`, `NeverDuplicate`, `NeverGap`, `ForkBranchAlwaysPath`, `NeverLost` | `TypeOK`, `SanityChecked`, `UniqueConstraint`, `MainHasNoGaps`, `ForkBranchIsPath`, `NoBlockLost` |
| | `Refinement` | `ImplementsTreeStore`, the initial state and every step |
| `SendUpdatesTheorems` | `Invariance`, `ChecksHold`, `WayToTip`, `PromisesKept` | `NeverAborts`, `NotificationsLeadToTip`, `UsesChainstateRightly` |
| | `SystemInvariance`, `RequestsFit`, `GspLedOn`, `OneChainTold` | `MessagesFit`, `GspNeverStuck`, `OneMainChain` |
| | `RequestsPassChecks` | `RpcChecksHold`, if no request comes before the first import (`~ EarlyRequests`; finding 1 is about the other case) |
| `ConnectorsTheorems` | `Invariance`, `ConnectorsCheck`, `CoreAtomic` | `NeverAborts`, `CoreRangeIsAtomic` |
| | `Implementation` | `ImplementsBaseChain`, the initial state and every step |
| `BlockCacheTheorems` | `Invariance`, `StoredStaysFinal`, `CacheTransparent` | `StoredIsFinal`, `Transparent` |
| `CoreListenerTheorems` | `Invariance`, `SentUnconfirmed`, `QueueKept` | `NoConfirmedMoveSent`, `QueueKeptOnlyByThrow` |
| `EthPendingTheorems` | `Invariance`, `ExtractorTracked`, `ForwardedKept`, `ContentReturned` | `PendingTracked`, `PendingKept`, `ContentComplete` |
| `ControllerTheorems` | `Invariance`, `NumbersUnbroken`, `RunningTracked`, `PendingConfirmed` | `SequenceUnbroken`, `TrackedWhileRunning`, `PendingMatchesBlock` |
| | `LifecycleInvariant`, `MembersOutliveTheirUsers`, `NoStatementPreparedTwice`, `DatabaseLeftClean`, `CommittedBeforePublished` | `NothingUsedAfterDestruction`, `StatementsUsedOnce`, `DatabaseGuarded`, `PublishedIsCommitted` |

The assumptions are those named in the modules, which TLC evaluates in the runs: `BlocksAssumption` (heights and parents are consistent, finitely
many blocks), `MaxBatchesAssumption`, `SyncAssumption` (a block range of at least one; bounds are numbers), `SendUpdatesAssumption`, `BaseChainAssumption` (shapes of calls),
`FastLogsAssumption` (section 3), `BlockCacheAssumption` (the
depth of the cache is not below that of reorgs), `ListenerAssumption` and `PendingAssumption` (shapes of constants), `EthPendingAssumption` (finitely many
transactions, senders ordered as texts), `ZmqPubAssumption` (shapes; at least one sequence number),
`DatabaseAssumption` (`MaxLoop` is a number) and `LifecycleAssumption` (a call is not one of the other threads).

*Chainstate.*  `SanityCheck` is not inductive: it says nothing of the main chain, and that a branch ends at a block of another branch does not
say that the reorg which reactivates it gives a chain.  `TableInv` says, of each table that is current or
may become so again by a rollback: heights are unique per branch; a block that has a lower one
on its branch has its parent there (`BranchesLinked`); and the blocks *accounted for*, the stored ones and
the ancestors of the whole main chain, are closed under parents.  The last part is what pruning preserves: it moves blocks
from the first kind to the second, and the promise of the callers keeps them there.  From it, a walk from any stored block ends at a
stored main-chain block or at a pruned one below it, which gives `ForkBranchIsPath` and, in `SetTip`, a main chain
without gaps.  The refinement maps the numbers away: the abstract root and tip are the lowest and the highest main-chain block.  Its
steps use that `SetTip` keeps the lowest block (the reorg is allowed, so it does not go below) and that the main chain is then the abstract path from root to tip.

*Sync.*  Three things are needed of the base chain and the table together.  The lowest main-chain block is final (`Rooted`), so every answer of
the base chain connects to it and a search for the fork point that gets there ends.  A block that may be imported is final, and so is the tip below it
(`ImportInv`), so that the import stays on top.  And `AttachesInv`: the attaches are consecutive, lead to the last block received and reach down to the chain of the
old tip, which makes the CHECKs of `PushZmqBlocks` hold.  A first form of it said that the attaches end above the lowest main-chain block.  It is
not inductive: an import leaves the blocks below it stored off the main chain, the lowest main-chain block may have one of them as its
parent, and the attaches then go on below it.  The CHECKs hold there, too.

*SendUpdates.*  The GSP may be on a block that was pruned, imported over, or stored only in a batch that a crash reverts.  `SystemInv` says that its block is accounted for
in what is *durable* (the outermost savepoint, if there is a batch), and that what is accounted for there is also accounted for in the current table: pruning, imports,
batches and their end keep both.  Everything that is stored descends from the genesis, which is never off the main chain (`Grounded`); therefore the walk of
`PushZmqBlocks` down from any block ends before it runs out of parents.  This carries over to what the request has collected, whatever the base chain does between two calls.

*Connectors.*  The refinement mapping is the identity, so what has to be shown is that every answer is justified by a main chain that the node has had during the call.  For
`EthChain`, the blocks received so far are a piece of the chain of the tip at which the *last* one was got: `TryBlockRange` compares parents, so the earlier ones are its ancestors (`EthBlocksOf`).
The length comes from another tip, the one whose height was read first; this is why the interface cannot promise the whole range.  On the fast way to the logs,
`EthBuriedInv` says that the blocks are final, however old: the range ends more than `FastLogsDepth` below a height that the chain has once had.  Then the logs that the node
has for these heights belong to these blocks, and the CHECK holds.  `CoreChain` walks down one chain from the end of the range (`CoreWalkOf`).

*BlockCache.*  The tip height a process knows was once the base chain's, hence at most
`baseHighest`; the base chain is never shorter than that by more than the reorg depth.  So a range that looks deep enough is
answered in full and with final blocks (`DeepAnswer`), which are still final when they are stored later.

*CoreListener.*  That no confirmed move is sent depends on messages that are still under way.  `InOrder` says of the one socket: after all its messages
the reader knows the node's tip, and each `rawtx` in it is unconfirmed at the tip that a reader knows when it gets there.  The queue holds only moves that are not
confirmed at the notification tip.

*EthPending.*  A transaction that never left the node's mempool is pending there, and this is said of all the places where one may be: the pool, the handler,
what a call of `GetContent` has asked for and each answer it has received, however old (`PoolPending`).  The history variable `left` is what makes it stable.  The order is proved of every
sequence that `std::sort` may produce, also with equal nonces, which the instance of the run does not have.

*ZmqPub.*  The next number of a topic is the number of its messages modulo 2^32; the depth of a game is at least the number of GSPs that run for it.  For `PendingMatchesBlock`, `SentForGame` says
that each message holds what its game has in some block, or in some transaction of it.  The rest is about `Select`: it exists (the recursion of the function is well-founded), an appended move is selected or not,
and selecting twice is selecting once by both criteria (`SelectTwice`), so that the filters by game and by transaction commute.  These are inductions on the length of a sequence, done by the
least counterexample, since the induction theorems of the library cannot be used.  That the base chain has the same moves for a transaction when it is pending and
in a block is a premise of the property (`SameMoves`).

*Lifecycle and Database.*  `StagesInOrder` ties the members that exist, the callbacks that are set and the threads that may run to the statement at which `Run`, the constructor or the destructor is, and
`OwnersInside` each mutex to the places where it is held.  A member can then be gone only after its users: the RPC server is stopped before, the base chain's callback is cleared under
`BaseChain::mut`, and that of `Sync` under `Sync::mut`.  The updater lives longer than `ZmqPub` and `PendingManager`; that it does not publish then needs `SyncQuiet`: once the callbacks are cleared, no step
that it still has to take leads to a publication, although it may be in the middle of an update step.

What is open in the database cannot be read off a thread's position, because methods call each other; it can be read off what the thread is still to do.  `OpenAfter` are the objects that the
remaining steps close before they open them again, and `InUse` says that exactly those are open.  `WellFormed` says that each remaining step *fits* what is open after it: it does not prepare what is open, does not leave for the base chain or a subscriber
with anything open, and calls only methods whose statements (`Uses`) are closed.  For `Uses` and `Holds`, which are the contracts of the methods (`CheckBranch` expects
"branch, height" open and leaves it open), there is one lemma per method: each way through it leads from what it holds to what it holds, and uses nothing else (`Contract`).  Replacing a call by the body of the method then keeps
`InUse`, and so does a round of a loop, for any number of rounds.  An exception closes just what `OpenAfter` says, so that the owner of `mutChain` leaves nothing open on any way out.  `PublishedIsCommitted` follows, because a
publication is one of the steps that fit only with nothing open.

Only model-checked are the liveness properties: `CatchesUp`, `GspCatchesUp`, `CallsReturn`, `GoneRemoved`, `QueueDrained`, `StopWorks` and `CallsAnswered`.  Reasoning about fairness and ENABLED is out of the prover's
reach.  For the same reason the theorems about refinements are about the initial states and the steps; the abstract specifications have no fairness.  Every safety property of a passing run is proved.

## 6. Not modelled

* The end of the base chains: the destructors of `CoreChain` and `WebSocketSubscriber` run after `Controller::Run` has returned, and wait for libraries.
* What the database wrapper converts (`Bind`, `Get`); what a statement does to the table is in `BranchTable`.
* What getnetworkinfo, verifymessage and getrawmempool answer: they pass on what the base chain says.
* How the moves of a transaction are found by `eth_call` with overlay contracts, and how they are decoded; a node that answers a single call of
  a batch with an error (a CHECK in `PendingMempool`).
* Serialisation, JSON and RPC helpers, the flags of the main programs: pure conversions.
* Test code and test contracts.

Block contents are payload except in `ZmqPub`, `EthChain`, `CoreChain` and `PendingManager`.

## 7. Plan

Done: all components of section 2 are modelled and checked; all their safety properties and refinements are proved, for every value of the constants.

Next: the destructors of the base chains and of the websocket, with the threads of the libraries they wait for, as one more part of `Lifecycle`; and the two hazards of `src/eth` that no
property covers, if the code gets a defined behaviour there.

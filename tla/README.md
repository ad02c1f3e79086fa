# A formal model of FairCoin's node

FairCoin is a proof-of-stake cryptocurrency node in the Bitcoin/Dash/PIVX line:
a block tree with a best-chain rule, and on top of it a network of masternodes
that lock transactions (SwiftTX), are paid from the block reward and vote on a
budget. The TLA+ modules here model the parts of that node whose correctness
depends on the order in which things happen. TLC checks them on small instances
and TLAPS proves the main safety properties for instances of any size.

Source paths below are relative to `src/src/` unless they say otherwise.

## 1. The system

| part | state it keeps | operations | what must hold |
|---|---|---|---|
| **SwiftTX** (`swifttx.cpp`) | six maps: requests, refused requests, votes seen, votes not yet placed, locks, reserved inputs | `ix` and `txlvote` handlers, `CreateNewLock`, conflict test, cleaning | one vote per masternode; a reservation does not change hands; every lock ends |
| **Block tree and active chain** (`main.cpp`, `chain.h`) | `mapBlockIndex`, status flags, sequence numbers, `setBlockIndexCandidates`, `mapBlocksUnlinked`, `chainActive` | accept header or block, `ActivateBestChain`, `InvalidateBlock`, `ReconsiderBlock`, replay | the active chain is valid and has the most work among the known valid ones; the candidate set is right; activation ends |
| **Script check queue** (`checkqueue.h`) | queue, `nIdle`, `nTotal`, `nTodo`, `fAllOk`, one batch per thread | `Add`, `Wait`, `Thread`, `IsIdle` | `Wait` returns, and returns the verdict on exactly this block's checks |
| **Masternode sync** (`masternode-sync.cpp`) | stage, attempts, time stamps, item counts, a mark per peer | `Process`, `Reset`, `IsBlockchainSynced`, the `Added...` functions | a stage is passed without its data only while payments are not enforced; the sync ends; a failure is retried |
| **Coins caches** (`coins.cpp`, `txdb.cpp`) | data base, `pcoinsTip` and the view of one block, each entry DIRTY and FRESH or not | fetch, modify, `BatchWrite`, `Flush` | the layers read as one map |
| **Chain state on disk** (`main.cpp`, `txdb.cpp`, `init.cpp`) | block file, block index, file information, coins, the flag "shutdown" | store, connect, disconnect, `FlushStateToDisk`, `LoadBlockIndexDB` with its repair | after a crash at any point the coins rest on blocks that are there |
| **Memory pool** (`txmempool.cpp`, `main.cpp`) | `mapTx`, `mapNextTx`, orphan transactions and their index | accept, orphans, remove, connect and disconnect a block | what `CTxMemPool::check` asserts; nothing leaves without a reason |
| **Sporks** (`spork.cpp`) | `mapSporks`, `mapSporksActive` | receive, sign, execute | the newest signed value counts |
| **Masternode payments** (`masternode-payments.cpp`) | votes on payees, their counts by height and script, who voted last | receive and make votes, clean, save and load, judge and fill a block | a count is the number of votes; a block is refused only on enough of them |
| **Budgets** (`masternode-budget.cpp`) | finalized budgets, immature ones, votes, orphan votes | receive, `NewBlock`, `Clear`, reload, judge and fill a superblock | a node accepts the superblock it makes |
| **Block creation** (`miner.cpp`, `wallet.cpp`) | the block being made | `CreateNewBlock`, `ProcessBlockFound` | the chain grows |
| **Masternode list** (`masternodeman.cpp`, `masternode.cpp`) | the entry, the broadcasts and pings seen, who was asked | broadcast, ping, `dseg`, check and remove, reload | the list never goes back; who runs is listed, who stopped is not |
| Validation (`main.cpp`, `script/`, `kernel.cpp`) | none of its own | `CheckBlock`, `ConnectBlock`, `VerifyScript` | soundness of the rules |
| Obfuscation pool (`obfuscation.cpp`) | one mixing session | queue, entries, signatures, time-outs | a session ends and nobody loses funds |
| Network, wallet, RPC, GUI | sockets, keys, commands | | |

Parts in bold have a module.

How they interact. One thread handles all peer messages. It calls the SwiftTX,
spork, masternode, payment and budget handlers, which take `cs_main` only now and
then. `ThreadCheckObfuscationPool` drives the sync once a second and cleans
SwiftTX, payments and the masternode list once a minute. Any thread can end up in
`ActivateBestChain`, which gives `cs_main` up between its steps, and `ConnectBlock`
hands script checks to the worker threads. SwiftTX reaches into the chain in two
ways: `CheckBlock` rejects a block that spends a reserved input, and completing a
refused lock disconnects and replays the last blocks.

What is hard here is therefore: state read in one critical section and used in the
next (activation, `ix`), votes that precede what they vote on, tables cleaned by a
thread that does not coordinate with the handlers, timers that start before the
thing they time, retries that find half of the old state, condition variables, and
the two operations (invalidate and replay) that undo choices other structures were
pruned for; several writes to disk that a crash can separate; tables that are saved
and reloaded in part; votes, sporks, broadcasts and pings that arrive late, twice and in
any order; and a miner and a judge of blocks that read the same tables at different
moments. `PROJECT.json` lists these hazards one by one with their source lines.

## 2. Modules

| module | models | proofs |
|---|---|---|
| `SwiftTX` | one node's SwiftTX tables with the pool and the chain they act on | `SwiftTXProofs` |
| `ChainState` | the block tree, the candidates, activation and its undoing | `ChainStateProofs` |
| `ScriptVerdict` | what `CCheckQueueControl` promises to `ConnectBlock` (abstract) | |
| `CheckQueue` | the queue, its threads and condition variables; implements `ScriptVerdict` | `CheckQueueProofs` |
| `MasternodeSync` | the stages of `CMasternodeSync`, its timers and racing writers | `MasternodeProofs` |
| `CoinsMap` | one map of coins with a best block, changed a block at a time (abstract) | |
| `CoinsCache` | data base, `pcoinsTip` and a block's view; implements `CoinsMap` | `CoinsCacheProofs` |
| `BlockStore` | what is on disk, the order in which it is written, crashes and repair | `BlockStoreProofs` |
| `Mempool` | the pool, the orphans, and what blocks do to both | `MempoolProofs` |
| `Sporks`, `Payments`, `Budget` | the three tables that decide about a block's payments | |
| `BlockReward` | their composition with a miner and the checks of a block | `BlockRewardProofs` |
| `MasternodeList` | the entry of a masternode and the messages about it | `MasternodeProofs` |

`MC*` modules give the constants their values for TLC. Definitions keep the names
of the functions and members they model. A definition introduced by a comment
"Mutant:" is a plausible wrong version of the definition that follows it: with it
in place TLC finds the property that guards that code violated.

### SwiftTX

`std::map` is a function with a varying domain; a transaction is its hash and what
is stored for it is its set of inputs, so the default-constructed `CTransaction`
that `operator[]` may insert is the empty set. `ix` is three actions (`ReceiveIX`,
`AcceptIX`, `FinishAccepted` or `FinishRejected`) because `cs_main` is held only
around `AcceptToMemoryPool`; a `txlvote` is one action. The clock, block connection,
ordinary transactions, the wallet's own lock requests and the cleaning thread step
between them. Expiry is kept as time left. Masternode ranks, signature checks, the
age of the inputs and reasons of the memory pool's own are inputs chosen freely.
SPORK_2 and SPORK_3 are taken as active: with SPORK_2 off the messages are ignored,
with SPORK_3 off `CheckBlock` does not look at the reservations. `ReprocessBlocks`
appears here by its effect on which transactions are in blocks; how the chain gets
there is `ChainState`.

### ChainState

An action is one critical section of `cs_main`. `AcceptBlock` includes
`ReceivedBlockTransactions` with the linking of everything that waited;
`ActivateBestChain` is one round of its loop (`FindMostWorkChain` with its lazy
marking, then one `ActivateBestChainStep`), and `activating` says that a thread is
inside. Whether `ConnectBlock` accepts a block is an input: blocks in `Invalid` are
always refused, blocks in `Contested` may be refused or not each time, as happens
when transaction locks, masternode votes or budgets decide. `ReprocessBlocks` is the
replay started by SPORK_12 and by SwiftTX; its first half, reconsidering the blocks
that were rejected lately, is the action `ReconsiderBlock`.

### CheckQueue and ScriptVerdict

A step is one critical section of the mutex, ending where `cond.wait` releases it,
or the execution of one batch. Both condition variables, spurious wake-ups and
interruption at shutdown are modelled. An interrupted worker is gone and stays on
the counters; an interrupted master unwinds into the destructor of
`CCheckQueueControl`, which waits again. `Wait` may follow `Add` at any time, as
`ConnectBlock` has many early returns. The queue is a set since the order of checks
is irrelevant ("As the order of booleans doesn't matter", `checkqueue.h:43`).
`ScriptVerdict` has no threads: checks are added, and the answer is whether all pass.

### MasternodeSync

A call of `Process` is split where another thread's write can fall in between:
`Begin`, `Gate` (the block chain check, which may itself reset the sync), `Stall`,
`Ask` (the loop over the peers) and `Write` (the stores of `GetNextAsset` or of a
failure). Items, `mnsync reset`, handlers that call `IsBlockchainSynced`, a sleep of
the machine and reconnecting peers come at any point. Time is counted in periods of
`Process` (5 seconds) as the age of each time stamp. The stage's requests differ only
in their names, so the three of them share `AskData` and `AskBudget`. Whether payments are
enforced (SPORK_8) is read again at every decision and changes at any time with spork
messages (`Spork8Changes`); the history variable `waived` has the stages that were left
without data while it was off.

### CoinsCache and CoinsMap

A transaction's coins are the set of its unspent outputs; a cache is its entries, which
of them are DIRTY and FRESH, their coins and `hashBlock`. `ConnectBlock`, `DisconnectBlock`
and the memory pool appear as what they do to a view: reads that pull an entry through
`pcoinsTip`, `ModifyCoins` with any result, a flush of the view or its destruction, a
flush of `pcoinsTip`, and crashes. `CoinsMap` has one map on disk, a current one and a
scratch copy; reading and flushing do not change what it shows.

### BlockStore

Memory and disk are separate variables, and every write to disk is an action, so that a
crash falls between any two: the file information, each entry of `setDirtyBlockIndex`, the
coins, the flag of a clean shutdown, and the entry `ConnectBlock` writes ahead of the
others. A start is `LoadBlockIndexDB` with its test for inconsistency and the repair,
including the ways in which the repair fails (a read past the end of `vSortedByHeight`,
`ConnectBlock`'s assertion, an abort). Entries of equal height are sorted by address, so
their order is free. An index with a hole (an entry written before its parent's) is
recorded as `lost` and not followed further. Whether a block is refused is left open, as
payments and budgets decide it at that moment: by `AcceptBlock`, which stores nothing
(`RejectBlock`); by `ConnectBlock` after it wrote the block's entry (`RefuseBlock`); and once
more when the repair connects it. A refused block is marked, and a repair that does not
reach the last entry for that reason flushes everything and aborts.

### Mempool

Blocks are sequences of transactions, coins follow from the chain, and the checks that
are outside this module (scripts, fees, locks) are a verdict chosen at every call, so that
`AcceptToMemoryPool` can refuse a transaction for any reason at any place. The loops over
orphans and over the transactions of a disconnected block are steps of their own. What
`remove` takes out with a transaction is the least set that holds it and the children of its
members (`Descent`), and `removeForBlock` and `removeCoinbaseSpends` are set expressions
rather than loops: under the invariants the order of those loops does not matter, and TLC
finds the same states as with the loops.

### Sporks, Payments, Budget and BlockReward

The first three declare the tables with the operations on them; `BlockReward` extends them
and composes the node: it makes a block from the tables of one moment
(`CreateNewBlock`), judges it with those of a later one (`ProcessBlockFound`), receives
blocks of others, votes on payees and on budgets, sporks, broadcasts that bring a key to
the list, cleans the payment table, votes itself after each block, and restarts with what
is saved. `ProcessBlock` of the payments and `NewBlock` of the budgets follow the block, as
in `ProcessNewBlock`. `AddWinningMasternode` stores a vote under its locks and calls `AddPayee`
after them, so a vote is counted in a step of its own: `counting` has the vote that the
message handler or the miner has stored and not yet counted, and what follows in that thread
(`nLastBlockHeight`, the budgets) waits for it, while the cleaner and the other thread go on. The
history variable `raced` has the heights that were cleaned in between. A sync fails or
finishes; the budgets are looked after in both cases. A restart clears the tables
of budgets and votes seen (`ClearSeen`). The code's distances between
heights are shortened; amounts keep the integer divisions of the code. The masternode
that is due and the ranks are inputs.

### MasternodeList

Entries of different masternodes do not touch each other in this code, so there is one.
It makes broadcasts, and pings between two ticks while it runs. A broadcast is signed
with the configured key (`keyOf`), so that pings of one broadcast count for another; a new key
takes a stop. A broadcast may be signed before the collateral had its confirmations
(`early`), for which every node refuses it however often it comes. Pings and the broadcasts that
carry them stay in `sent` until peers have forgotten them, so they can be lost, repeated,
delayed and reordered. The collateral becomes bad and good again with the chain. Times are ages that grow with `Tick`. `Checked` may keep the entry as it is, which is what
happens when `cs_main` is taken, and `CheckInputsAndAdd` has the outcome "not now" that
forgets the broadcast.

## 3. What TLC checks

| run | shows | bounds and why they are enough |
|---|---|---|
| `swifttx` | empty stored requests only for refused ones, reservations are stable | two transactions sharing an input, one of them with a second input; two masternodes, both needed: conflicts, half-complete and complete locks, cleaning between the parts of an `ix` and repeated votes all occur |
| `swifttx_live` | no double vote, also with votes for wrong heights; every lock leaves the table | one transaction, three masternodes of which two suffice, two lock heights and a third that matches none |
| `chain` | links, candidates, best chain and failure marks are right; activation ends | tree `g-a1-a2-a3`, `g-b1-b2` with `a2` always refused: a reorganisation that fails half-way and returns, out-of-order data, invalidation between two rounds |
| `chain_undo` | no failed block is active after invalidate, reconsider and replay in any order | same tree, `b2` refused, `a2` refused or not, two blocks replayed |
| `checkqueue` | verdict, counters, idleness between blocks, `Wait` returns | master and two workers, four checks of which one fails, batches up to two: fewer and more checks than threads, batches that hold the failing check or not, several blocks one after another |
| `mnsync` | stages are passed without data only while SPORK_8 is off; the sync ends once it stays off; failures are retried | two peers, the first too old; one item; quiet time, stall time and retry delay shortened to 1, 2 and 3 periods in their order in the code; one sleep, reset, reconnection or change of SPORK_8 (bound `MaxEvents`), from both settings of it |
| `coins` | `BatchWrite`'s assertion, the meaning of DIRTY and FRESH, and that the layers are one map | two transactions of two outputs, two block hashes: partly and fully spent coins, restored ones, entries with and without a counterpart in each layer; behaviours of any length |
| `store` | the coins on disk always rest on stored blocks; a chain that is behind its index is repaired, or its refused block marked | chain `g-a1-a2-a3` with `b1` beside it, four places in the file (bound `FileSize`), one header ahead of its block, `a2` refused or not each time: refusals before and during the repair, reorganisations, blocks written over after a crash, several crashes and repairs in one behaviour |
| `mempool` | what `CTxMemPool::check` asserts, no confirmed transaction in the pool, the two orphan maps agree, removals have a cause | eight transactions (conflict, chain of two, spend of a young coinbase, coinstake), blocks in all useful combinations, three blocks above the first (bound `MaxHeight`), two peers, two orphans of three |
| `reward` | counts are votes, the newest spork counts, a node accepts what it makes, a refusal rests on votes, the chain grows | two masternodes whose votes suffice together, one payee or none, one budget that matures and pays inside the bound, three spork messages, two blocks to make (bound `MaxHeight`), one restart or failed sync (bound `MaxRestarts`); votes grow old enough to be cleaned while they wait to be counted |
| `reward_halving` | **violation**: see below | the same, with the halving at the second block |
| `mnlist` | the list never goes back to an older broadcast, nor to an older ping while its entry is alive; who runs and signed in time is listed again and again; who stopped leaves | two broadcasts with one key or two, signed too early or not, one stop, one-step periods in the code's order: ping interval 1, window 2, expiry 3, removal 4, forgetting 5 |

Where nothing else is said there is no bound on the length of behaviours. Runs that do
not check for deadlock say so in their configuration: with every message delivered and
every bound reached a node may have nothing left to do.

To check a property means little if nothing could break it. Every property has a mutant
in `PROJECT.json`, a wrong version of one definition with which TLC finds it violated.

### The disagreement the runs show

`reward_halving`: `GetBlockValue` is commented "halving every ~2 years (2-min blocks)"
(`main.cpp:1688`). `ConnectBlock` limits what a block mints to the value of its own height
(`main.cpp:2618`), but the staker (`wallet.cpp:2453`) and both `FillBlockPayee` functions
(`masternode-payments.cpp:301`, `masternode-budget.cpp:479`) take the value at the height of
the tip. At 525600 a staked block mints twice what is allowed and is refused by
everybody, its creator included, unless it burns the difference in fees (what it mints is
counted net of them; in the model they are zero); `HalvingHappens` is violated under the fairness that the
miner goes on making blocks. `CreatedBlockAccepted` leaves that height out, and nodes
with fewer than ten masternodes (see the budgets below).

### Fairness

- `SwiftTX!FairSpec`: time passes, and the thread that cleans every minute runs on.
- `ChainState!FairSpec`: a thread inside `ActivateBestChain` retries `TRY_LOCK` every
  50 ms until it gets `cs_main`.
- `CheckQueue!FairSpec`: every thread that can take a step takes it (the scheduler, and
  a mutex that is held briefly). Nothing is assumed of spurious wake-ups, of
  `ConnectBlock` between `Add` and `Wait`, or of interruptions.
- `MasternodeSync!SyncFairSpec`: `Process` is called again and again; its `TRY_LOCK(cs_main)`,
  tried for ever, succeeds infinitely often (strong fairness of `Gate(TRUE)`); the block
  download catches up. Nothing is assumed of peers: none ever has to answer.
- `BlockReward!FairSpec`: `BitcoinMiner` loops for ever: weak fairness of the one thread that
  makes a block, offers it and counts the vote that follows; and weak fairness of the sync,
  which fails only finitely often (`MaxRestarts`). With SPORK_8 off that is what `SyncEnds` shows; with it
  on it assumes that some peer at some time answers with a list and with winners.
  Nothing is assumed of votes or sporks, nor of the cleaner and the message handler.
- `MasternodeList!FairSpec`: time passes; a running masternode pings (`ManageStatus` is
  called every minute); `CheckAndRemove` runs every minute. Messages that are sent again
  and again sometimes arrive: strong fairness of a fresh ping's arrival, and of an answer
  to `dseg` that finds `cs_main` free. Without the latter a node could ask for ever.

## 4. What the code does not keep

Disagreements between a comment and the code, met while modelling. They have no run of
their own; the models contain the behaviour, and the properties are stated so that
they say what remains true.

- **A reservation without consensus.** "only reject blocks when it's based on complete
  consensus" (`main.cpp:3558`), but a refused request reserves its free inputs without a
  single vote (`swifttx.cpp:99`).
- **A reservation without end.** "keep transaction locks in memory for an hour"
  (`swifttx.h:61`), but cleaning finds inputs only through a stored request, which a refused
  request lacks (`swifttx.cpp:430`). An expired lock's inputs are also released when they
  are reserved for another transaction whose lock has time left (`swifttx.cpp:434`).
  `ReservationsAreStable` states what holds: a reservation never changes hands, and ends
  only with some expired lock that spends the input.
- **Conflicting locks.** "if two conflicting locks are approved by the network, they will
  cancel out" (`swifttx.h:50`), but a lock completed through the empty transaction that
  `operator[]` stored is compared over no inputs (`swifttx.cpp:348`).
- **Reconsidering.** `ActivateBestChain` should end in "either failure or an activated
  best chain" (`main.cpp:3157`), but ancestors that `ReconsiderBlock` clears do not become
  candidates again (`main.cpp:3275`). It also leaves BLOCK_FAILED_CHILD on branches beside
  the reconsidered one, which the comment at `main.cpp:4606` excludes.
- **Replay.** "take the chain with the most work" (`swifttx.cpp:389`), but candidates pruned
  for the old tip are not restored when a replay lowers it (`main.cpp:2938`). A replay of 15
  disconnects 16 blocks.
- **Sync.** "try to sync from all available nodes, one step at a time"
  (`obfuscation.cpp:2294`), but the list stage's timer runs while the block chain syncs, so
  that the stage can end before anybody is asked (`masternode-sync.cpp:270`). A `Reset` that
  falls into `GetNextAsset` is overwritten; the history variable `overrun` marks this case.
  "only fail open ... when masternode payment enforcement is inactive" is decided at the
  moment a stage ends (`masternode-sync.cpp:271`): a node that finished without data while SPORK_8 was off stays finished when
  it comes on, and then enforces payments without a list.
  With the periods in the code the branches for an exhausted stage (330-342, 361-373,
  409-415) are never taken: the stall test fires first.
- **Repair.** "fix Assertion `hashPrevBlock == view.GetBestBlock()' failed"
  (`main.cpp:4179`), but the loop starts at the height of the file information. When that
  ran ahead of the coins, because the crash came between the two, or when there is
  a side branch, the assertion fails again, on every start (`main.cpp:4181`).
  `BehindIsRepaired` states the case that is repaired: the very next start runs, or it aborts
  because a block was refused, marks that block, and the start after it has nothing to
  repair. The entry of a refused block is on disk before the verdict (`main.cpp:2610`), so
  a crash right after a refusal leads there. In the first start after a crash the file
  information can be older than the index, and new blocks are written over old ones.

Further observations:

- `CheckBlockIndex` called by one thread while another is between two rounds of
  `ActivateBestChain` can see a candidate set its assertions do not allow
  (`main.cpp:3941`); hence the properties say "when no thread is activating".
  `BestChainActive` and `CandidatesSettle` need a consistent `ConnectBlock`.
- Budgets: below ten masternodes `GetVoteCount() > nHighestCount - N/10` is never true, so
  with sporks 9 and 13 on a node refuses the superblock it made (`masternode-budget.cpp:624`).
  The map of orphan votes has one place per item (`masternode-budget.cpp:1309`). `NewBlock`
  adopts immature items without marking them seen and without looking for their orphan
  votes; `Clear` leaves the immature list.
- Payments: `CanVote` records a vote before its signature is checked and remembers only
  the last height; a rank of -1 passes `IsValid`; `mnget` is answered once per connection
  (`masternode-payments.cpp:355`). `AddPayee` runs after the locks are released
  (`masternode-payments.cpp:507`): when the cleaner passes in between, a count comes back
  whose vote is gone, and since cleaning goes by the votes it stays, also over restarts.
  `TallyIsVotes` says that this concerns only heights too old to judge a block by. `CheckBlock` says "Store the block for later
  consideration", but only the hash of a refused block is kept.
- Sporks: of two messages signed at one time the first stays. The defaults of sporks 8,
  10 and 14 are commented "OFF" and lie in the past, so they are on (`spork.h:48`).
  `UpdateSpork` does not execute the spork at its signer.
- Masternode list: an expired entry ignores pings, so the masternode comes back only after
  the entry was removed. A late broadcast that replaces an expired entry brings its own ping, which
  may be older than the one the entry had. A broadcast signed before the block of the
  collateral's last confirmation is refused by every node and stays seen
  (`masternode.cpp:605`); the masternode that made it pings and is listed by nobody until it
  makes another. A broadcast within five minutes of the last one is dropped but
  counts as seen, and one refused for its inputs counts as seen until it is forgotten. The
  iterator at `masternodeman.cpp:320` is used after the entry before it was erased.
- `CleanTransactionLocksList` runs without `cs_main` (`obfuscation.cpp:2308`). The cache of
  block hashes behind the ranks is never cleared (`masternode.cpp:27`).

## 5. What is proved

All theorems hold for any values of the constants that satisfy the module's named
assumptions: any number of transactions, masternodes, blocks, threads, checks, peers,
votes, budgets, sporks or messages.

- **SwiftTX** (`SwiftTXAssumption`). `NoDoubleVote` rests on `VoteInv`: besides the types,
  every vote in a lock is still in the table of votes seen (`VotesAreRemembered`).
  Without it the step that adds a vote could repeat one; cleaning preserves it because
  the votes it forgets leave with their lock. `EmptyRequests` rests on `RequestInv`: a
  lock has a height only if its request is stored, refused or being handled
  (`HeightComesFromRequest`), so a lock that completes without a stored request was
  refused. `ReservationsStable` needs only the types: every step but cleaning adds
  reservations for inputs that were free, and cleaning removes those of the locks it
  removes, which have expired.
- **ChainState** (`TreeAssumption`: a finite tree with `Path` its ancestor relation and
  work that grows along it). `LinksCorrect` rests on `LinkInv`, the statement itself with
  the types: the block whose data arrives links exactly itself and those that waited
  with nothing else missing. `ActiveChainSafe` (`ActiveChainNotFailed`) needs that
  `ActivateBestChainStep` goes only along a usable path, stops below a refused block, and
  that `InvalidateBlock` cuts the chain below the block it marks.
  `FailedMarksJustified`, `CandidatesCorrect` and `BestChainChosen` have hypotheses, because
  the code does not keep these properties otherwise (section 4): no operation
  `reconsiderblock`, and for the last two no block whose verdict changes. They rest on
  `TreeInv`, which also holds between two rounds of an activation. `AncestorInv` says that a
  mark has a block found invalid below it; `CandidateInv` that there is a candidate that
  connects from which all viable blocks upwards are candidates (`Floor`), so that pruning
  against the tip, which happens in the middle, takes none that is still needed, and that a
  round which ends the activation leaves no better block. The best candidate exists by
  an argument from a least counterexample, with the well-founded order on the naturals.
- **CheckQueue** (`QueueAssumption`). `TypeCorrect` (no counter wraps), `TodoCounts`,
  `ControlAssertion` (the assertion in the constructor never fails) and
  `QueueImplementsVerdict` (refinement of `ScriptVerdict`) rest on `QueueInv`: `nTodo`
  counts outstanding checks, `nIdle` and `nTotal` count sleeping threads and threads in
  the loop plus interrupted ones, a batch belongs to a thread that works or is about to
  account for it, and a failing check is outstanding or has left `fAllOk` false. The
  critical section is proved in two parts, the accounting at the top of the loop and
  the choice to return, sleep or take a batch.
- **MasternodeSync** (`SyncAssumption`). `SyncTypeCorrect` and `StagesNeedData` (`SyncedHasData`) rest on
  `SyncInv`: the stage about to be written is backed too, by data or by SPORK_8 having been
  off when the stage before it was left, unless a reset came in between, which `overrun`
  records. SPORK_8 may change anywhere, also between that decision and the write.
- **CoinsCache**. `AssertionHolds`, `FlagsCorrect` and `ViewsImplementMap` (refinement of
  `CoinsMap`) rest on `CacheInv`: an entry of the view that is not FRESH was pulled through
  `pcoinsTip` and is still there, so that what the flags say of the parent stays true
  until the view is flushed into it.
- **BlockStore** (`StoreAssumption`: a finite tree with its ancestor relation).
  `CoinsPathSafe` rests on `StoreInv`: the paths of both tips, in memory and on disk, are
  complete in memory; what is not dirty is on disk as it is in memory; and the coins are
  written only when nothing is dirty. A crash replaces the memory by the disk, for
  which `CoinsPathStored` itself is what is needed; a repair ends on a block whose path
  was loaded with data. `RepairSucceeds` (`BehindIsRepaired`) is about the place of an entry in
  `vSortedByHeight`: on an index without side branches there is one entry of each height,
  so the place of an entry is its height, and the loop of the repair finds the child of every
  block it has connected. If none is refused it reaches the last block; if one is, that
  block is marked, and the file information is that of the last entry, whose height is the
  number of entries less one, so the next start finds no inconsistency. The proof showed that the model had
  to look for the entry at a place among the known blocks only, and that the property,
  once an invariant about the end of the repair, holds of every single start.
- **Mempool** (`MempoolAssumption`: outputs belong to one transaction; a transaction that is
  not generated has an input, as `CheckTransaction` demands; the first block spends nothing).
  All four properties rest on `MempoolInv`. Its part about the chain (`ChainInv`): a
  transaction is confirmed at one height only, after what it spends. That makes maturity
  something that only a disconnected block takes away, and it is why a transaction of the chain
  whose outputs are all spent, so that `HaveCoins` does not know it, is not accepted again.
  Its part about the pool: `mapNextTx` is exact, no generated transaction is in the pool, and
  in the middle of `DisconnectTip` an input that is not there is an output of a transaction
  still to be taken back (`Waits`), none of which is in the pool. Its part about the
  orphans: the maps agree, and what the handler of "tx" has still to try are orphans.
  `RemovalsJustified` (`LeavesForCause`) adds that a descent has an origin and that a part of the
  pool knows no more descendants than the whole.
- **BlockReward** (`RewardAssumption`, `HalvingAssumption` and the assumptions of its
  tables). `NewestSporkCounts` is inductive with the types (`RewardInv`). So is the statement
  about the counts: at every height but the raced ones, what is counted and what two threads
  have yet to count is the number of votes (`Counted`). It needs that a vote is new when it is
  stored and that cleaning removes the votes of a height with their count.
  `RacedHeightsOld` shows that a raced height is old and stays so, as the chain does not
  become lower; the two give `TallyCorrect`. The height above the tip is never
  old, hence never raced, and so `RefusalJustified` follows from the count: distinct stored
  votes for one height and payee come from distinct masternodes.
  `AcceptsOwnBlocks` takes the cases of `FillBlockPayee` against those of
  `IsBlockPayeeValid` and `IsBlockValueValid`; it needs that a finite set of vote counts has
  a greatest one (`GreatestExists`) and that a superblock is where the budget's cycle says
  (`CyclePlace`). `HalvingAssumption` says that powers of two are positive, which the
  provers do not know.
- **MasternodeList** (`ListAssumption`). `BroadcastsMoveForward` and `LaterPingStays` rest on
  `ListInv`: an entry that is expired or to be removed has a last ping that is as old as that
  says (`SilentIsOld`). The entry's broadcast changes only in `UseBroadcast`, behind the comparison of
  signature times. Its ping changes in three places: a ping alone and an update of an enabled entry
  take only a younger one; `CheckInputsAndAdd` takes any, but only in place of an entry that
  is not enabled, which by the invariant is silent or spent. Nothing is needed of keys or of
  what else is on the network.

Only model-checked: the liveness properties (`LocksExpire`, `ActivationEnds`,
`WaitReturns`, `SyncEnds`, `FailureIsRetried`, `ChainGrows`, `ListedAgain`, `GoneIsRemoved`),
since fairness and ENABLED are outside the reach of the proof system, and that
`HalvingHappens` fails. Every invariant, action property and refinement that a run checks is
also a theorem. The induction schemes of the library take an operator as a parameter, which
these provers cannot instantiate; where an induction was needed it is an argument from a
least counterexample (`ChainState`, `BlockStore`), or the closure is defined as a least set
(`Mempool!Descent`) so that none is.

## 6. What is not modelled, and why

Left out of modelled parts: the relaying and throttling of votes for unknown requests
(`mapUnknownVotes`) and statistics in SwiftTX; the regtest short cut and the `ssc`
counts of the sync; fork warnings, `pindexBestInvalid`, system errors (which stop the node) and the verdict of
possible corruption (`main.cpp:2074`; a stored block gets it only from a damaged file) in
the chain; several block files, pruning of undo files, `-reindex`,
`-forcestart` and `VerifyDB` in the store; fees, priorities and sigop limits in the pool;
budget proposals, the making of a finalized budget and the exchange of budgets with
peers; ranks and the payment queue; the messages `dsee` and `dseep` of old masternodes;
data races inside `std::map`, which have no useful set of outcomes (two threads in `AddPayee`
and `CleanPaymentList` are taken as one after the other).

Whole parts: the validation rules and script evaluation are computations over large data
whose verdicts are inputs here; sockets, addresses and framing are I/O; wallet, GUI and
RPC front ends do not touch the modelled state except through the commands that are
actions (`invalidateblock`, `reconsiderblock`, `mnsync reset`, the wallet's lock request);
the obfuscation pool is a protocol of its own that nothing else depends on; LevelDB,
secp256k1, UniValue, json_spirit and the hash functions are third-party code.

## 7. Plan

Done, in this order: SwiftTX, ChainState, CheckQueue with ScriptVerdict, MasternodeSync,
CoinsCache with CoinsMap, BlockStore, Mempool, Sporks, Payments, Budget and BlockReward,
MasternodeList.

Next, most important first:

1. Proofs: what remains true of the candidates when blocks are reconsidered or contested;
   the safety lemmas behind the liveness properties, such as the bound on the rounds of an
   activation behind `ActivationEnds`.
2. Budget proposals and their votes, and the finalized budget a masternode submits.
3. The obfuscation pool: a session of a masternode and its clients with time-outs.
4. Ranks computed from the cached block hashes, at two nodes and across a reorganisation.
5. Several SwiftTX nodes with a network between them, and the vote throttle
   (`swifttx.cpp` 143-158).

The set of runs is kept small on purpose: a new run replaces one that asks less.

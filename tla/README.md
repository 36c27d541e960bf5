# A TLA+ model of bitlens

bitlens is a bitcoin block explorer: it crawls the peer-to-peer network, keeps
the header tree, downloads every block, analyses its transactions into RocksDB
and SQLite and serves the result over HTTP.  This directory models the parts of
it that keep state, alone and composed: what the most-work chain is and how its
blocks get to disk, who is crawled, what the explorer shows and reads back, and
what survives a stop at any point.

## The system

| component | state | operations | interacts with |
|---|---|---|---|
| header tree (`chainman/chain.rs`, `chainman/mod.rs`) | `CHAIN`: known headers, top, `most_work_chain`, `number_to_hash`; `DOWNLOADED_BLOCKS` | load from SQLite, validate and apply a header, mark as downloaded | everything, behind one `RwLock` |
| startup and header sync (`mod.rs`, `headersync.rs`) | `SYNCING_HEADERS`, `SYNCING_BODIES` | load, header sync, plan the download, run it | header tree; the flags gate the connections |
| block download (`blocksync.rs`) | master: backlog, request times, two indices; workers: their job | hand out jobs, take pushes, repeat requests, spawn and kill workers | channels of capacity 1 between workers, master and writer |
| block writer (`blocksync.rs`, `db/mod.rs`) | two arenas, two maps of outputs, the batch | gather, analyse, flush, mark | reads RocksDB for older outputs; marks blocks in SQLite and `CHAIN` |
| chain watcher (`keepup.rs`) | the queue of blocks to fetch and apply | new header, new block, ticker | connections through channels; miners and frontpage data |
| crawler and connections (`crawler`, `connect`) | per peer: failures, the last result, pending block requests | connect, handshake, serve, pass headers and blocks on | address manager, chain watcher |
| address manager (`addrman`, `util/online_list.rs`) | known peers, peers to check, the ring of online peers | seen, online, banned, pick a good peer | crawler, workers |
| persistence (`db`) | SQLite rows, RocksDB tables | batching queues, one transaction per batch, readers | all of the above |
| miner statistics and frontpage (`miners`, `chainman/mod.rs`) | counts by miner, the recent blocks, the page | append, recount, reload the rules | called by the writer and the watcher, and by the thread that watches `miners.yml` |
| transaction store (`tx`, `db/rocksdb.rs`, `api/tx.rs`, `api/address.rs`) | transactions, spends, address entries | write a block, read a page | filtered by the most-work chain when read |
| arenas (`packets/arenapool.rs`, `util/arena.rs`) | a pool with a movable limit; bump allocators | get, give back, set the limit; allocate, reset | packet reading, the analysis of blocks |
| pure code (`packets`, `tx`, `util`) | none | parse, serialise, hash, difficulty, scripts | |

Hard behaviours: blocks arrive in any order, twice or after they were needed;
workers are aborted while they hold a job; a flush runs beside the gathering
of the next batch and shares its buffers; the plan of the initial download is
made once while the chain moves on; the flags that keep connections out are
read long before the packet is handled; a header becomes known, top and
downloaded in different steps, and several derived structures have to follow;
the rules of the miners are reloaded between any two of these steps; rows reach
SQLite through queues that do not wait for each other; the process may stop
between any two writes; and a failure ends the task it happens in, or not even
that, while the others go on as if it had succeeded.  `PROJECT.json` lists each
hazard with its line.

What makes each part correct: the download delivers in order and once and always
ends; the writer never reads a buffer that was reset and marks only what its
writes have ended for; the tree's derived structures equal what they are derived
from; every block of the most-work chain is on disk or somebody is after it, and
gets there in the end, but for what a failure loses; a peer has one crawl and
the table of peers follows what the process decided; what is flagged is stored,
but for what failed; pages and statistics show the applied chain and nothing
else; bytes survive parsing and storing; the pool, the arena and the ring lose
nothing under races and at their limits.

## The modules

### Getting the chain to disk

`OrderedDelivery` is the promise of the download to its consumer: blocks
`0..N-1`, each once and in order; finished only after the last unless the
consumer broke.

`BlockSync` models `run_master` and the download workers.  `mpc` is where the
master is: `check` (the strong count), `select`, `flush` (awaiting
`flush.send` of the needed block) and `backlog` (in `apply_from_backlog`).
What happens between two awaits is one action: `HandleAhead`, `HandleLate`
and `HandleNeeded` are the three cases of a push, `FindNextBestJob` the six
outcomes of the job search, `Tick*` the ten-second tick, whose measured rate
is left open.  `waited[i]` is the age of `last_request_times[i]`, with
`NotWaiting` for 0; `Elapse` lets time pass.  A worker goes through `pull`,
`await`, `connect`, `fetch` and `push`; `abort()` only marks it and it ends at
some later point.  A block's body is left out, since a worker only pushes a
block with the hash it was asked for.

`BlockWriter` models `receive_and_process_blocks`: the gathering loop, one
analysis per block, the flush task, and the swap of the two arenas and maps.
A set of blocks stands for the outputs or the data of those blocks.  The
master is reduced to what `BlockSync` guarantees.  With `DiskMayFail` reads and
writes fail the way the code lets them: a block whose analysis returns early or
panics keeps its empty entry in the batch (`GiveUpProcessing`); a table whose
task panics is missed by nobody, since the results of `scope_and_block` are
dropped (`TableFails`); in both cases the flush goes on to mark the batch.  Only
a panic of the flush task itself ends it (`FlushPanics`).  The history variable
`lost` holds the blocks that did not reach the disk in one of these ways.

`HeaderChain` holds the state of `CHAIN` and the operators on it.  The tree
of all headers that may ever be announced is a constant, with its heights and
work; any tree is allowed.  `AddedBlocks` and `UpdateMostWorkChain` keep the
heights as the fork walk computes them, `TopFlag` and `SeenFetched` the two
copies of the top header's flag.

`KeepUp` extends it with the startup task (`phase`), the connections' gate
(`ReceiveHeader`, `ReceiveBlock`) and the chain watcher.  A header or block
that passed the gate is in flight until the watcher takes it.  `Init` is every
database a restart can find: rows whose parents are missing are dropped by
`get_all_headers`, and a body counts only if all bodies below it do.
`apply_block` is split at its first await.  `shown` is the set of blocks that
the miner statistics and the frontpage count.

Its tasks fail at any block.  `stop_syncing_blocks` may come after any batch,
since `sync_blocks` ignores what its master and writer ended with;
`FrontpagePanics` ends the startup task with the flags as they are;
`apply_block_Returns` drops the block that was popped when an output cannot be
read; `WatcherPanics` ends the watcher with its queue.  The history variable
`lost` holds the blocks that nobody was after any more when that happened, until
one of them reaches the disk after all; only a restart, which reads the database
anew, would look for them.

### Peers

`Peers` composes the address manager, one crawl task per peer, the tracker of
connections and the `peers` table behind its two queues.  `SeenCheck`,
`SeenExtend` and `SeenInsert` are the three parts of `peers_seen`, which other
tasks interleave with; `TakePeersToCheck` and `SpawnCrawl` are `crawl_forever`;
`Dial`, `ConnectFails`, `RecvVersion`, `RecvVerAck`, `RecvPacket`, `RecvAddr`
and `SessionEnds` are one round of `crawl_with_backoff`, which ends in
`Evaluate` (`evaluate_crawl_result`, with the result that is reused from round
to round) and possibly in `DeleteAndBan`.  A batch of a queue is one
transaction (`FlushInserts`, `FlushDeletes`) of any length; an insert that meets
its row makes the batch panic and poisons the connection.  `Stop` drops
everything but the table, `Start` is `main`.

### What is shown

`BlockTree` is the tree of headers that `Explorer` and `TxIndex` have in
common: parents, work, the path to a block (`PathTo`) and what a loop keeps of a
list (`Filtered`).  How headers enter the tree is `HeaderChain`'s.

`Explorer` composes the application of a block with everything that is derived
from it.  A batch (of the block sync) or a block (of the chain watcher) is a
`job` that goes through `Write` or `WriteFails` (one step per RocksDB table,
concurrently), `StoreFlags` (the SQLite transaction, once all these tasks have
ended, however they did), `MarkDownloaded`, `Count` (the miners) and `ShowPage`;
the block sync counts before it marks and the watcher after.  `unreadable` are
blocks that spend outputs RocksDB cannot give: the block sync marks them empty,
the watcher drops them (`DropBlock`).  `SyncGivesUp` is `sync_blocks` returning
early.
`LearnHeader` extends the tree and the watcher's `queue`, `FlushHeaders` brings
any part of the pending rows to SQLite, `Reload` recounts under other rules at
any moment, `Stop` and `Start` keep only the disk.  A rule file is a map from
blocks to miners; `recent`, `counts` and `newest` are the window of recent
blocks, the counts taken from it and the miners' page.  `stats` records whose
metrics the statistics were computed from, not the numbers.

Five variables of `Explorer` are history, and no guard reads them: `applied`
is the chain whose blocks were marked and counted; `raced` says that the last
recount did not see exactly that chain; `mixed` that a block which replaced
the top was applied as if it followed it and nothing was regenerated since;
`torn` holds the tables of blocks whose write failed; and `gap` says that since
the start a block was given up, so that later ones are applied above a hole.
`mixed` is set when the watcher takes such a block from its queue, not when the
header arrives: until then the page is still right, and a fork of several blocks
that is queued behind it puts the page right again only when its turn comes.

`TxIndex` is the transaction store through forks and restarts.  The three stores
are written in any order (`Write`), or their tasks fail (`WriteFails`); a block
is flagged when all have ended (`Flag`); a better header queues everything since
the split (`NewHeader`), a restart only what is not flagged (`StartDownload`).
The readers `TxPage` and `SpendsShown` are operators on the stores;
`AddressEntries`, `AddressEntriesContinue` and `TopAddressData` are operators on
the entries of an address in the order of their keys (`Sorted`), and `Walk` is a
client that asks for page after page of one of the `PageSizes`. Two variables
are history: `beaten` is the set of flagged blocks some value of which is not in
the stores, because a write of another block replaced it (the two share a
transaction or hold two that spend the same output, `Overwrites`) or because its
own write failed; and `missed` those of them that nothing is going to apply
again: a restart passed over them, or they were flagged when their write had
failed.

### Parts that share no state

`ArenaPool` has one action for every load, swap and pool call of `get_arena`;
`Arena` one for the load and one for the swap of an allocation, with the
padding computed from the address of the memory; `OnlineList` one for
`peer_online` with its trimming and growth.  `Locks` gives every handler as the
sequence of its operations on four locks, each with the guards that are held when
it begins, and runs one handler at a time in each of three tasks and any number of
`Clients`, with a lock that lets nobody read while a writer waits.

`Codec` follows a transaction's bytes through parsing, the two stores, the page
and a block served to a peer, with bytes of `Base` values and otherwise the
widths of the code.  A reader takes the buffer and an offset; what reads the items
of an array is a function of the offset (`Repeat`), so that proofs can speak of
it.

`BlockBody` is the Merkle tree and the
witness commitment, with an injective hash.  `HeaderExchange` is the locator of
`build_get_headers` and the answer of `respond_to_getheaders`.

`MCKeepUp`, `MCPeers`, `MCExplorer` and `MCUnits` give the constants for TLC.
`MCUnits` extends the seven modules of this section and `TxIndex`: a behaviour
picks one of the eight in its first state and runs it alone, so that the state
space is the sum of theirs.

`BlockSyncProofs`, `KeepUpProofs` (with the facts about `HeaderChain`),
`PeersProofs`, `BlockTreeProofs`, `ExplorerProofs`, `TxIndexProofs`,
`CodecProofs` and `UnitProofs` (`ArenaPool`, `Arena`, `OnlineList`,
`HeaderExchange`, `BlockBody`, `Locks`, `BlockWriter`) hold the theorems.

## The runs

| run | what it shows |
|---|---|
| `blocksync_safety` | 3 blocks, up to 3 workers, backlog limit 0, the writer may die: `BacklogMatchesRequests`, `NoMasterPanic`, `NoEarlyStop`, and `BlockSync` implements `OrderedDelivery` |
| `blocksync_live` | `SyncCompletes`: all blocks reach the writer and the master ends |
| `writer_pipeline` | two full batches and the empty one after them; analyses, table writes and flushes may fail: `DependenciesFound`, `BuffersIntact`, `BatchStartsEmpty`, `MarkedInOrder`, `AllFlushed`, `WriterEnds` |
| `writer_last` | violated: with one block more than a full batch, it may never be written |
| `keepup_safety` | all interleavings and reorganisations of a nine-header tree, with a failure of any task at any block: `FetchedClosed`, `NothingForgotten`, `DownloadedExact`, `MostWorkExact` |
| `keepup_live` | `KeepsUp`: what ever is on the most-work chain is downloaded in the end, or was lost by a failure |
| `keepup_numbers` | violated: `number_to_hash` is off by one after a fork of two blocks |
| `keepup_behind` | violated: after a restart with a recent top and missing bodies, blocks are applied before their parents |
| `keepup_sibling` | violated: an equal-work fork of one block is appended, not regenerated |
| `peers_crash` | one place in the pipeline per peer (`SingleCrawl`), no insert meets its row (`InsertsFresh`), bans are deserved (`BannedDeserved`), the drained table is what the process decided (`TableCatchesUp`), and every peer to check is crawled (`CheckedPeersCrawled`), with a stop at any point |
| `explorer_crash` | with a failed write, an unreadable block or an early end of the download: `FlaggedIsStored` after every crash; the statistics list the applied chain once (`CountedOnce`), the counts match the window (`CountsMatchRecent`), the page is the newest blocks (`PageCurrent`), and an `unwrap` behind the page fails only after a recount on another chain, at a damaged block or after one was given up (`PagePanicsOnlyByRace`) |
| `units` | `PoolAccounted`, `AllocationsSound`, `ListSound`, `DeadlockNeedsNestedRead`, `IndexExact`, `PagesComplete`, `CodecFaithful`, `BodyAuthentic`, `HeadersLink`, one component at a time |

Several properties name the exception under which the code does not keep them,
so that they say exactly how far it goes: `lost` in `BlockWriter` and `KeepUp`,
`raced`, `mixed`, `gap`, `torn` and the unreadable blocks in `Explorer`,
`missed` in `TxIndex`, the empty page in `PagesComplete`, `AtBoundary` in
`Codec`, the nested reads in `Locks`, the unsent last header in
`HeaderExchange`, the single values of `Arena`.

### Bounds

*BlockSync.*  Three blocks and a backlog limit of 0 let the backlog be over its
limit, be applied in a chain of two, and hold a duplicate; three worker ids
let one be killed and another spawned.  One clock unit distinguishes a fresh
from an overdue request, which is all the code does; the safety run uses 0, so
that a request is overdue after one tick, the liveness run 1.

*BlockWriter.*  Batches of three (of 64 in the code) let a batch be partly
analysed.  Nothing bounds how often the disk fails.

*KeepUp.*  The nine-header tree has an equal-work fork of one and of two
blocks, a longer chain taking over, chains overtaking each other twice, a
higher chain that overtakes a heavier, shorter one, and a header with wrong
difficulty bits.  One packet of a kind is in flight: the flags only go down
after the startup, so that what arrives later is also what may have waited, and
headers arrive in every order as it is; the proofs are for any number.  Failures
are not bounded.  Heights in the queue wrap at `U64`.

*Peers.*  Two peers, two failures for a ban, one packet for a good session, two
`peers_seen` tasks and one stop: enough for the same address to arrive from the
table, the seeds and two packets at once, for a peer to be banned while its
address is announced again, and for a batch to be cut anywhere.  One stop is
enough for every table a start can find, since `Init` allows any.

*Explorer.*  Four blocks on two branches, of which the second overtakes with
its second block, timestamps that go back, a page of two, batches of two, two
rule files and one stop: a batch can be longer than what the page keeps, blocks
leave the window and the page, a reorganisation goes through the queue and a
restart meets every part of what was written.  One thing fails in a behaviour, or
the rules are reloaded once (`MaxEvents`): a table of any batch, block 3 that
cannot be read, or the download.  Before the stop two header rows may
wait for SQLite, so that they may reach it in the wrong order; after it, when no
other start will read them, one (`MaxPending`).  The tables are interchangeable,
and the run treats them so (`TableSymmetry`).

*Units.*  Three users of a pool that grows from one to three; two threads and
six bytes at an odd and an even address; a ring of two slots that grows to
eight; three tasks and one client over four locks; two branches of two and three
blocks that share transactions, with an equal timestamp on both and conflicting
spends, read in pages of one and two entries, and one block (`MayFail`) whose
writes may fail each time it is applied;
bytes of seven values, with lengths on both sides of the limits of one and of
three bytes; bodies of up to six authentic transactions and every list of up to
five; chains of up to twelve headers with locators that are dense for three
and answers of eight, so that steps double twice.

Deadlock is not checked where the system may stop: the writer ends, a panic
under the write lock poisons `CHAIN`, a panic behind the front page ends the
chain task, peers stay banned, and `Locks` states deadlocks itself.  The
download model has an explicit `Terminated` step, so that there every other
stop is an error.

### Fairness

Tokio runs every task that can run, and its channels serve waiting senders in
order: a worker that waits for room in the master's channel gets it (strong
fairness), and `select!` picks at random, so that a waiting message is not
starved by ticks.  That some peer answers in the end is the assumption about
the network, which the code makes as well: workers and the ticker go from peer
to peer without limit.  `Peers` assumes fairness of the process's own tasks and
batchers only, and none of what a remote peer does; its one assumption about
time, `BackoffOutlastsBatch`, is that the hours of backoff before a ban are
longer than the seconds a batch waits.

## What is proved

TLAPS proves, for every value of the constants:

* `BlockSync`: `TypeOK`, `BacklogMatchesRequests`, `NoMasterPanic`,
  `NoEarlyStop`, and that it implements `OrderedDelivery`.  The invariant says
  that everything below `next_never_asked_for` and above `next_to_apply` is
  either waited for or in the backlog (`Window`), that nobody works on a block
  that was not asked for (`AskedFor`), that the tracker runs exactly while the
  master waits for the writer (`Tracker`), that the first worker is never killed
  and ends only when everything is applied (`FirstWorker`), and that what was
  received and what is in the channel is a prefix of the blocks (`Order`).  A
  full backlog then always has the needed block among those waited for, which is
  why the panic cannot happen.
* `BlockWriter`: `TypeOK`, `DependenciesFound`, `BuffersIntact`,
  `BatchStartsEmpty` and `MarkedInOrder`, for any number of blocks and any batch
  size.  In `WriterInv` the blocks received fall into three runs, `1..q` behind
  the flush task, `q+1..s` in its hands and `s+1..Received` being gathered, and
  every buffer holds exactly one of them (`Runs`); what is written, lost and
  marked follows from the state of the flush task (`Progress`).  None of the
  five is inductive, since each speaks of one buffer and the swap exchanges
  them. `AllFlushed` holds for every number of blocks but one more than a
  multiple of the batch size (`NoBlockOver`; the run `writer_last` shows why):
  every batch is full unless the end of the channel cut it short, and the sender
  cannot be gone before the last block fits in the channel (`Ending`).
* `HeaderChain`: facts about the tree that the walks rest on: ancestors of a
  header are linearly ordered, there is exactly one at every lower height, a
  fork point exists, and the added blocks are a path from it to the new top.
  The tree is any set with a parent function that leads to the genesis header.
* `KeepUp`: `TypeOK`, `FetchedClosed`, `NothingForgotten` and `DownloadedExact`,
  if no restart finds a recent top header without its body (`"behind" \notin
  Startups`; the run `keepup_behind` shows that it is needed), and
  `MostWorkExact` for every restart.  The invariant adds that known headers are
  closed under parents (`TreeInv`), that nothing is in flight before the plan is
  made and no block before it is carried out (`GateInv`), and that whatever is
  planned, queued or being applied comes after its parent, unless that one was
  lost (`OrderInv`).  A block joins `lost` only when it leaves the hands of a
  task that fails, at a moment when everything below it is settled or joins with
  it; so `lost` closes the holes, and each property speaks of the downloaded
  blocks together with it.  For the counter, `CountInv` adds that nobody is
  after a block that is not known, so that a new header never is a downloaded
  one, and that the copy of the top's flag is right for every top but the
  genesis header; the walk that counts stops at a downloaded block and so takes
  the lost ones below it for downloaded (`LostBelow`), neither more nor fewer.
  For the hash set, `HashSetInv` adds that the watcher gets no header while the
  header sync moves the top alone.
* `ArenaPool`: `PoolAccounted`, for any finite number of users and any two
  limits.  The invariant adds what a user in a swap loop has tested (`Tested`):
  a size over, or below, one of the two limits.  A swap that succeeds finds that
  size again, so that the pool moves by one towards a limit, however stale.
* `Arena`: `AllocationsSound`, for any capacity, addresses, requests and number
  of threads.  The invariant adds that a thread about to swap has seen a value
  from which its request fits.
* `OnlineList`: `ListSound`, for any initial size, threshold and number of peers.
  The invariant adds that no slot outside the window is young (`OutsideInv`:
  a trim that finds no young entry goes once around and brings `start` back to
  where it was), and that either the window does not wrap and everything below
  `end` was written, or every slot was (`WrittenInv`), which is why counting from
  slot 0 is harmless.
* `HeaderExchange`: `HeadersLink`, for chains of any height, any number of dense
  entries and any length of an answer.  The steps of the locator double no faster
  than its walk moves away from the top (`Downward`: twice the step is at most the
  way gone plus two), so the first entry the other node has lies no further below
  the point where the chains part than that point below the top, and an answer
  reaches over the top if it holds more than twice that distance.
* `BlockBody`: `BodyAuthentic`, for blocks and bodies of any length, with hashes
  that do not collide.  A level without two equal neighbours is determined by the
  one above it, whether or not its last hash was repeated (`AboveInjective`); the
  trees of two lists with the same root are compared from the root down, and one
  cannot end where the other goes on, because a leaf is no pair (`SameTree`).  The
  mined body passes, because different hashes have different hashes above them
  (`NoRepeatsAbove`).
* `Peers`: `TypeOK`, `SingleCrawl`, `InsertsFresh`, `BannedDeserved` and
  `TableCatchesUp`, for any finite set of peers and any limits.  `CrawlInv` says
  that the loop of `crawl_with_backoff` runs below `MAX_FAILS` and ends at it, and
  that the failures are at most the short sessions unless the reused result
  remembers a failed handshake.  The others follow from where a peer can be:
  two tasks past the lock of `KNOWN_PEERS` never hold the same peer (`TaskInv`);
  the list to check, the batch being spawned and the crawls are disjoint
  (`PipeInv`); what waits to be inserted has no row (`TableInv`); only banned
  peers wait to be deleted, and every other known one has a row or is on its way
  to one (`BanInv`).  `SingleCrawl` alone is not inductive: it does not say that
  what a task is about to append was taken by nobody else.
* `Explorer`: `TypeOK`, `FlaggedIsStored`, `PagePanicsOnlyByRace`,
  `CountedOnce`, `CountsMatchRecent` and `PageCurrent`, for every finite tree of
  blocks, rules, timestamps, page and batch sizes and any number of stops and
  failures.  `FlaggedIsStored` needs what a job's ended tasks account for
  (`DiskInv`).  The others need `ExplorerInv`, in four parts: `StateInv` (types,
  and counts that are those of the window), `StoredInv` (what is fetched, and
  what a job is about to mark, is stored, torn or unreadable), `ChainInv` and
  `ShownInv`, of which the last two hold until a block is given up (`gap`).
  `ChainInv` is the heart: during the block sync the applied chain, the job and
  the rest of the plan are together the path to one block (`AppliedInv`); the
  path to each block of the queue is covered by what comes before it
  (`Covered`); and a queued block that does not start the page over has its
  parent on the path to the block before it (`Linked`), which the split of a new
  branch off the old one preserves whatever branch that was. `ShownInv` then
  says, stage by stage of a job, which chain was counted and which one the page
  shows.
* `TxIndex`: `IndexExact`, for every finite tree of blocks, any work, and all
  transactions in them.  `IndexExact` says nothing while blocks are queued, so
  the invariant says what the queue still has to do.  A flagged block is in the
  stores unless it was overwritten or not written (`KeptInv`); every block of
  the chain is flagged or queued, and if some of it is not in the stores it is
  queued again, was passed over or could not be written (`CoverInv`); what is
  queued comes after its parent (`QueueInv`).  Blocks of an abandoned branch
  stay in the queue and are written when their turn comes: that is harmless
  because whatever they overwrite of the chain is queued behind them
  (`LaterInv`), which a better tip preserves since the blocks it adds go to the
  end and blocks of one chain overwrite nothing of one another.
* `TxIndex`: `PagesComplete`, for the same trees and transactions and pages of any
  size.  That a key determines its entry (`KeysUnique`) is invariant because a
  write replaces what has its keys.  With it the entries of an address are finite
  and linearly ordered, and `Sorted` lists each once (`RankedFacts`).  A client
  that follows the pages has at any time been shown what is on the chain of a
  first part of that list and holds the next page of the rest, unless that page
  is empty and the walk over (`Reached`): an entry is found again by its key,
  and the page after it begins with the next one (`SeekFinds`).  Two periods join
  because an ordered list can be cut at a time (`CutAtTime`).
* `Locks`: `DeadlockNeedsNestedRead`, for any number of clients, infinite ones
  included.  Every operation of every handler is asked for under guards that
  come before its lock in the order `CHAIN`, `MINER_DATA`, pages, or it is one
  of the nested reads (`InOrder`, `HandlersGood`).  In a set of tasks that all
  wait for each other, where nobody makes a nested read, whoever stops a task is
  itself after a lock further down that order, or holds a page and never waits.
* `Codec`: `CodecFaithful`, for transactions of any number of inputs, outputs,
  stacks and items of any length, every number of missing bytes, and every
  number of values of a byte above four.  The invariant gives each variable as a
  function of the one before it; the work is in the round trips.  Each reader
  finds what was written at its offset and stops right behind it (`VarintReads`,
  `Strings`, `TxinReads`, `InsRead`, `StackReads`, `TransactionReads`), whether
  the code wrote the lengths or the peer did.  A reader that succeeds on the
  beginning of a buffer does the same on all of it, so a truncated transaction,
  which would end before it ends, is refused (`CutFails`).  The computed sizes
  are the lengths of what is written (`Sizes`), so that the parts of the value
  in `TXS_DB` lie side by side and each survives the ones copied in after it
  (`StoredRead`).  The code and the peers write the same bytes unless a length
  is 0xFFFF, and then the weight is wrong (`Weight`).

The assumptions are the named `ASSUME`s of the modules, which TLC evaluates. Two
are about other programs.  `IndexAssumption`: on one chain no transaction occurs
twice and no output is spent twice.  `CodecAssumption`: numbers fit their
fields, lengths fit four bytes, a transaction has an input and as many stacks as
inputs or none, its outputs are paid for, and its weight fits four bytes.  The
code relies on the network for both.  The chain of the main network satisfies
`IndexAssumption` but for two pairs of coinbase transactions, older than the
rule, that have the same hash; of each the store keeps the later.

What the recursive functions compute (in `BlockTree` and `Explorer` the path to a
block, the filtered list, the transactions of a list of blocks; in `Codec`
numbers from bytes, arrays and totals), and what the walk of `TxIndex` has shown
after any number of pages, is proved as well, by
induction stated with sets: a set of naturals that holds 0 and every successor is
all of them (`NaturalsInSet`), and a set of blocks that holds the genesis block
and every child of a member is all of them (`BlocksInSet`).  Both rest on the
well-foundedness of the naturals.  A function is first shown to exist, and then
to satisfy its equation.

Proving `Explorer` corrected it.  The exception of `CountedOnce` and
`PageCurrent` used to be judged from the set of siblings that were still
queued; on a tree of five blocks, one more than the run has, the page was wrong
outside that exception, which the proof of the corresponding step ran into.  It
is now the history variable `mixed`.

So did proving `TxIndex`.  `beaten` used to be the blocks that share a
transaction with one written later; but two different transactions on two
branches may spend the same output, and then writing one branch takes the
output's spender from the other.  With such a pair on the run's tree TLC found
`IndexExact` violated outside the exception.  The pair is now part of the run.

Only model-checked: everything under fairness (`SyncCompletes`, `WriterEnds`,
`KeepsUp`, `CheckedPeersCrawled`), which the provers do not cover.  Every other
property of the passing runs is a theorem.

## What the code does otherwise than it says

Four runs are violated; `PROJECT.json` quotes the lines.  The fork walk of
`validate_and_apply_header_inner` gives every added block but the last a
height one too high.  A restart that needs bodies but no headers raises no
flag before the frontpage is generated.  `handle_new_header` tells a fork from
an extension by the number of added blocks.  The writer's loop ends with a
block in the channel.

Five more disagreements have no run of their own, because the model takes what
the code does and the property names it: no branch for a bad checksum can be
taken (`packet.rs:143`); the length of `block_requests` is never looked at
(`crawler/mod.rs:393`); a served block says that it has no transactions, which
come without outputs (`block.rs:126`, `CodecFaithful`); after a fork back and a
restart, transactions may keep the block of the other branch
(`chainman/mod.rs:928`, `IndexExact`); and `calculate_stats` pairs a batch's
metrics with the wrong blocks (`chainman/mod.rs:608`, `StatsFor`).

What the code does about failures is to go on.  `write_analyzed_txs` says "after
we're done with txs, update fetched_full" (`db/mod.rs:190`) but does not look at
what its tasks returned, so that a block is flagged although a table was not
written, and after a restart nobody downloads it again.  `process_block` returns
from a failed read with its block empty, which is then flagged as well.
`sync_blocks` returns when its tasks have ended, however they ended, and
`stop_syncing_blocks` lets connections pass blocks on above the hole.  A panic
behind the front page ends the startup task with `SYNCING_HEADERS` raised, so that
neither the download nor any connection goes on.  `apply_block` returns from a
failed read after its block was popped.  In each case only a restart asks for
the missing blocks again, and not even a restart for those that were flagged.

Smaller observations: requests are repeated after one second where two comments
say two; a fork whose new top is higher but whose parent is lighter than the old
top makes the walk panic (`PanicInWalk`); `banned_peers` is written and never
read, so that a ban lasts until the process ends and the address is announced
again; `try_alloc` of the arena reserves padding and writes before it;
`OnlineList::random` counts from slot 0 instead of from `start`, and yet never
returns an unwritten slot; a length of 0xFFFF is written in five bytes and read
in three or five; the totals of an address include abandoned forks, and a limit
of 0 is none; a recount at the wrong moment, or a header sync that changes the
branch after the miners were counted, makes the front page's lookup of a miner
panic (`PagePanicsOnlyByRace`); a recount or a miner's page that reads `CHAIN`
or its own lock again while a writer is queued can stop the tasks for ever
(`DeadlockNeedsNestedRead`).

## Not modelled, and why

* Script templates, opcodes, flags and the counting of signature operations
  (`tx/script.rs`): matching of bytes against fixed patterns, without state.
* The arithmetic of targets and difficulty on 256 bits, and of the statistics:
  TLC's integers have 32 bits, and no state depends on the values beyond the
  verdict, which is a set of headers in `HeaderChain`.
* The other packets, which are fixed layouts read field by field, and the other
  API handlers, search and websocket, which format what the components hold.
* The UPDATE queues of the peers, whose columns only one page of the API reads.
* A connection's queue of blocks that its peer asked for, pings, and the
  broadcast of applied blocks: they end a session or send data and change no
  state that is shared.  `SessionEnds` allows the end at any moment.
* The internals of SQLite and RocksDB: a transaction is atomic, a write to a
  table is one step, and a table that fails has nothing of it (each is one ingest
  of a file).
* In `Explorer`: a failure of SQLite, which panics before anything is marked and
  so is a stop that is not followed; blocks that can be read at one time and not
  at another; the check for overflow at `mod.rs:533`, which only debug builds
  have; and what the other tasks do after a panic of the page, of which only the
  next restart is followed (`KeepUp` follows the chain).
* What a page shows of an empty or half-written block, beyond whether it panics.
* Metrics, logs, environment variables.

## What is left

Two hazards of `PROJECT.json` have no property; their notes say why.  The UPDATE
queues of the peers and a connection's queue of requested blocks would be the
next parts to model.

------------------------------- MODULE Explorer -------------------------------
(***************************************************************************)
(* What the block explorer shows, and how it survives a crash: a block is  *)
(* written to rocksdb and sqlite, marked as downloaded, counted for its    *)
(* miner (miners/mod.rs) and put on the front page (chainman/mod.rs); the  *)
(* thread that watches miners.yml recounts everything at any time; header  *)
(* rows reach sqlite through a queue of their own.  The process may stop   *)
(* between any two steps and reload what sqlite holds.                     *)
(*                                                                         *)
(* How bodies are fetched is the business of BlockSync and KeepUp: here    *)
(* they arrive, in the order of the plan of the block sync and then of the *)
(* chain watcher's queue.  What can fail: the task that writes a table of  *)
(* rocksdb, which nobody notices; reading the outputs a block spends, which *)
(* makes the block sync mark an empty block and the chain watcher drop the *)
(* block; and sync_blocks, which may return early.  After a panic of the   *)
(* page only the next restart is followed here.  A panic at sqlite's       *)
(* mutex or disk is left out: it ends the task before anything is marked,  *)
(* as a stop does.                                                         *)
(***************************************************************************)
EXTENDS BlockTree

CONSTANTS
  Time,          \* Time[b], the timestamp in its header
  Txs,           \* Txs[b]: how many transactions it has, at least one
  Miners,        \* the miner ids besides Unknown
  Unknown,       \* UNKNOWN_ID
  Owner,         \* Owner[r][b]: which miner's rule matches under config r the
                 \* coinbase text of b, which is empty if b is unreadable
  Tables,        \* the rocksdb tables of a block's data that the page reads
  Unreadable,    \* which sets of blocks may be unreadable
  RECENT_WINDOW, \* MINER_PERCENTAGE_OVER_LAST_SECONDS
  PAGE,          \* FRONTPAGE_BLOCKS_COUNT = FRONTPAGE_TXS_COUNT
  MaxBatch,      \* blocks in a batch of the block sync
  MaxStops,      \* bound: how often the process stops
  MaxPending,    \* bound: MaxPending[n], header rows on their way to sqlite after
                 \* n stops
  MaxEvents      \* bound: how many blocks are unreadable, writes fail, plans are
                 \* given up and rules reloaded

Configs == DOMAIN Owner

ASSUME ExplorerAssumption ==
  /\ Unknown \notin Miners
  /\ \A b \in Blocks : Time[b] \in Nat /\ Txs[b] \in Nat \ {0}
  /\ \A r \in Configs : Owner[r] \in [Blocks -> Miners \cup {Unknown}]
  /\ RECENT_WINDOW \in Nat
  /\ PAGE \in Nat \ {0} /\ MaxBatch \in Nat \ {0}
  /\ MaxStops \in Nat /\ MaxEvents \in Nat
  /\ MaxPending \in [0..MaxStops -> Nat]
  /\ Unreadable \subseteq SUBSET (Blocks \ {Genesis})
  /\ \A bs \in Unreadable : IsFiniteSet(bs) /\ Cardinality(bs) <= MaxEvents

VARIABLES
  rows,      \* sqlite: the rows of headers
  flagged,   \* sqlite: those with fetched_full
  metrics,   \* sqlite: the keys of block_stats
  stored,    \* rocksdb: pairs of a block and a table that holds its data
  unreadable, \* rocksdb: the blocks that spend outputs it cannot give
  phase,     \* "down", "start", "sync", "keepup" or "dead"
  known,     \* CHAIN: known_headers
  fetched,   \* CHAIN: those with fetched_full
  top,       \* CHAIN: top_header
  pending,   \* header rows on their way through INSERT_HEADER_QUEUE
  plan,      \* the blocks the block sync still has to download
  queue,     \* the chain watcher's blocks to apply: block and whether to regenerate
  job,       \* the batch that is being applied
  config,    \* MINER_DATA: rules and rules_regexes
  counted,   \* MINER_DATA: blocks_mined_by_miners, pairs of block and miner
  recent,    \* MINER_DATA: recent_blocks, likewise
  counts,    \* MINER_DATA: recent_blocks_mined_by_miners_counts
  newest,    \* MINERS_PAGE_DATA: its recent blocks
  page,      \* FRONTPAGE_STATS: latest_blocks, latest_txs and the stats' metrics
  stops,     \* how often the process stopped
  applied,   \* history: the chain whose blocks were marked and counted
  raced,     \* history: the last recount did not see exactly that chain
  mixed,     \* history: a block that replaced the top was applied as if it
             \* followed it, and nothing was regenerated since
  torn,      \* history: what was not written of a block, pairs as in stored
  gap,       \* history: a block was given up since the start
  events     \* how many blocks are unreadable, writes failed, plans were given
             \* up and rules reloaded

diskVars  == <<rows, flagged, metrics, stored, unreadable>>
chainVars == <<known, fetched, top, pending>>
minerVars == <<config, counted, recent, counts, newest>>
histVars  == <<applied, raced, mixed>>
failVars  == <<torn, gap, events>>
vars == <<diskVars, phase, chainVars, plan, queue, job, minerVars, page, stops,
          histVars, failVars>>

NoJob  == [stage |-> "idle", reorg |-> FALSE, blocks |-> <<>>, ended |-> {}]
NoPage == [blocks |-> <<>>, txs |-> <<>>, stats |-> <<>>]

\* get_top_synced_header_hash and get_top_downloaded_block_hash: the path to
\* the top, without what is not fetched
SyncedUpTo(b) == Filtered(PathTo[b], fetched)
Synced == SyncedUpTo(top)
Missing == Filtered(PathTo[top], Blocks \ fetched)

FirstN(s, n) == SubSeq(s, 1, IF n < Len(s) THEN n ELSE Len(s))

-----------------------------------------------------------------------------
(* The database.                                                            *)

\* get_all_headers: rows in the order of their numbers, dropped when the parent
\* is not there; fetched only when the parent is.
LoadedFetched_AsFlagged == flagged
LoadedFetched ==
  {b \in rows : ToSet(PathTo[b]) \subseteq rows \cap flagged}
Loaded == {b \in rows : ToSet(PathTo[b]) \subseteq rows} \cup {Genesis}

\* A batch of INSERT_HEADER_QUEUE: each request was sent by a task of its own,
\* so any part of what is pending may come first.
FlushHeaders ==
  /\ \E batch \in SUBSET pending :
       /\ batch # {}
       /\ rows' = rows \cup batch
       /\ pending' = pending \ batch
  /\ UNCHANGED <<flagged, metrics, stored, unreadable, phase, known, fetched, top, plan,
                 queue, job, minerVars, page, stops, histVars, failVars>>

\* added_blocks: everything since the split, oldest first.
AddedBlocks(h) == Filtered(PathTo[h], Blocks \ ToSet(PathTo[top]))

\* handle_new_header: one added block is taken for an extension, of several the
\* first one makes the page and the statistics start over.  (History: the one
\* block may be a sibling of the top that it replaces.)
FirstRegenerates_Never(added) == FALSE
FirstRegenerates(added) == Len(added) > 1
Enqueue(added, replaces) ==
  queue' = queue \o [i \in DOMAIN added |->
                       [block |-> added[i], reorg |-> i = 1 /\ FirstRegenerates(added),
                        sibling |-> replaces]]

\* validate_and_apply_header_inner, for a header that the header sync or, from
\* then on, the chain watcher receives.  As much work as the top's is enough.
LearnHeader(h) ==
  /\ phase \in {"start", "sync", "keepup"}
  /\ h \notin known /\ Parent[h] \in known
  /\ Cardinality(pending) < MaxPending[stops]
  /\ known' = known \cup {h}
  /\ pending' = pending \cup {h}
  /\ LET better == Work[h] >= Work[top]
         added  == AddedBlocks(h)
     IN  /\ top' = IF better THEN h ELSE top
         /\ IF better /\ phase # "start"
            THEN Enqueue(added, Len(added) = 1 /\ Parent[h] # top)
            ELSE UNCHANGED queue
  /\ UNCHANGED <<diskVars, phase, fetched, plan, job, minerVars, page, stops,
                 histVars, failVars>>

-----------------------------------------------------------------------------
(* Miner statistics.                                                        *)

Entries == [block : Blocks, miner : Miners \cup {Unknown}]
RecentSince(after) == {e \in Entries : Time[e.block] >= after}

Miner(r, b) == [block |-> b, miner |-> Owner[r][b]]
CountOf(list, m) == Cardinality({i \in DOMAIN list : list[i].miner = m})

\* update_page_data: the newest first
NewestOf(list) == FirstN(Reverse(list), PAGE)

\* recalculate_full_miner_stats, for what is synced up to a block and the rules
\* of a config; with nothing synced the page is left as it is.
Recalculate(r, synced) ==
  LET all   == [i \in DOMAIN synced |-> Miner(r, synced[i])]
      after == Time[Last(synced)] - RECENT_WINDOW
      rec   == Filtered(all, RecentSince(after))
  IN  /\ config' = r
      /\ counted' = all
      /\ recent' = IF synced = <<>> THEN <<>> ELSE rec
      /\ counts' = [m \in Miners \cup {Unknown} |->
                      IF synced = <<>> THEN 0 ELSE CountOf(rec, m)]
      /\ newest' = IF synced = <<>> THEN newest ELSE NewestOf(rec)

\* How many blocks at the front of recent_blocks are no longer recent: it is
\* popped until the first one that is.
Stale(after) ==
  Cardinality({i \in DOMAIN recent :
                 \A j \in 1..i : Time[recent[j].block] < after})

\* Every block that is popped is taken off its miner's count, every new recent
\* one is added.
CountsAfter_NoPop(gone, fresh) ==
  [m \in DOMAIN counts |-> counts[m] + CountOf(fresh, m)]
CountsAfter(gone, fresh) ==
  [m \in DOMAIN counts |-> counts[m] - CountOf(gone, m) + CountOf(fresh, m)]

\* callback_chain_extended
Extend(blocks) ==
  LET new    == [i \in DOMAIN blocks |-> Miner(config, blocks[i])]
      after  == Time[Last(blocks)] - RECENT_WINDOW
      gone   == SubSeq(recent, 1, Stale(after))
      kept   == SubSeq(recent, Stale(after) + 1, Len(recent))
      fresh  == Filtered(new, RecentSince(after))
  IN  /\ counted' = counted \o new
      /\ recent' = kept \o fresh
      /\ counts' = CountsAfter(gone, fresh)
      /\ newest' = NewestOf(kept \o fresh)
      /\ UNCHANGED config

\* The recount follows the path to the top header: it does not see a batch that
\* the block sync has counted and not yet marked, it sees a block that the chain
\* watcher has marked and not yet counted, and it leaves the chain that is being
\* downloaded when a longer one was announced meanwhile.
RecountDiffers ==
  \/ phase = "sync" /\ job.stage = "mark"
  \/ Synced # applied

\* miners.yml changed and could be read: callback_config_updated, whose write
\* lock keeps every other user of MINER_DATA out.
Reload(r) ==
  /\ phase \in {"start", "sync", "keepup"} /\ r # config /\ events < MaxEvents
  /\ Recalculate(r, Synced)
  /\ raced' = RecountDiffers
  /\ events' = events + 1
  /\ UNCHANGED <<diskVars, phase, chainVars, plan, queue, job, page, stops,
                 applied, mixed, torn, gap>>

-----------------------------------------------------------------------------
(* The front page.                                                          *)

\* The transactions of some blocks, newest block first.
TxsOf(blocks) ==
  FlattenSeq([i \in DOMAIN blocks |->
                [j \in 1..Txs[blocks[i]] |-> <<blocks[i], j>>]])

\* Blocks and transactions are gathered together until both lists are full;
\* every block has a transaction, so that blocks are never too many.
Gathered(newestFirst) ==
  [blocks |-> FirstN(newestFirst, PAGE), txs |-> FirstN(TxsOf(newestFirst), PAGE)]

\* calculate_stats takes the metrics of the first blocks from the cache, by
\* position, and the others from sqlite.
StatsFor(newestFirst, cache) ==
  [i \in DOMAIN newestFirst |->
     IF i <= Len(cache) THEN cache[i] ELSE newestFirst[i]]

\* find_block_metrics(..).unwrap(), the two expect()s on rocksdb, the unwrap()
\* of get_miner_for_block_and_share, and the first transaction of a block
MetricsThere(newestFirst, cache) ==
  \A i \in DOMAIN newestFirst : i > Len(cache) => newestFirst[i] \in metrics
DataThere(blocks) == ToSet(blocks) \X Tables \subseteq stored
MinersThere(blocks) ==
  \A b \in ToSet(blocks) : \E i \in DOMAIN counted : counted[i].block = b

\* generate_frontpage_data
Generate(newestFirst) ==
  LET g == Gathered(newestFirst) IN
  page' = [blocks |-> g.blocks, txs |-> g.txs,
           stats  |-> StatsFor(newestFirst, <<>>)]
GeneratePanics(newestFirst) ==
  LET blocks == FirstN(newestFirst, PAGE) IN
  ~(MetricsThere(newestFirst, <<>>) /\ DataThere(blocks) /\ MinersThere(blocks))

\* update_frontpage_data: the new blocks, then what the old page still has
KeptFromOld_All(old, new) == old
KeptFromOld(old, new) == FirstN(old, PAGE - Len(new))

Update(batch, newestFirst) ==
  LET g == Gathered(Reverse(batch)) IN
  page' = [blocks |-> g.blocks \o KeptFromOld(page.blocks, g.blocks),
           txs    |-> g.txs \o KeptFromOld(page.txs, g.txs),
           stats  |-> StatsFor(newestFirst, batch)]
UpdatePanics(batch, newestFirst) ==
  LET blocks == FirstN(Reverse(batch), PAGE) IN
  ~(/\ MetricsThere(newestFirst, batch) /\ MinersThere(blocks)
    /\ ToSet(blocks) \cap unreadable = {})

-----------------------------------------------------------------------------
(* Applying blocks: write_analyzed_txs, mark_as_downloaded, the callbacks of *)
(* the miner statistics and the front page.  The block sync counts before it *)
(* marks, the chain watcher marks before it counts.                          *)

StartJob(blocks, reorg) ==
  job' = [stage |-> "write", reorg |-> reorg, blocks |-> blocks, ended |-> {}]

\* A batch of the block sync; an unreadable block in it is left empty.
StartBatch ==
  /\ phase = "sync" /\ job = NoJob /\ plan # <<>>
  /\ \E n \in 1..MaxBatch :
       /\ n <= Len(plan)
       /\ StartJob(SubSeq(plan, 1, n), FALSE)
       /\ plan' = SubSeq(plan, n + 1, Len(plan))
  /\ UNCHANGED <<diskVars, phase, chainVars, queue, minerVars, page, stops, histVars,
                 failVars>>

SyncDone ==
  /\ phase = "sync" /\ job = NoJob /\ plan = <<>>
  /\ phase' = "keepup"
  /\ UNCHANGED <<diskVars, chainVars, plan, queue, job, minerVars, page, stops,
                 histVars, failVars>>

\* sync_blocks returned early
SyncGivesUp ==
  /\ phase = "sync" /\ job = NoJob /\ plan # <<>> /\ events < MaxEvents
  /\ phase' = "keepup"
  /\ plan' = <<>>
  /\ gap' = TRUE /\ events' = events + 1
  /\ UNCHANGED <<diskVars, chainVars, queue, job, minerVars, page, stops, histVars, torn>>

\* handle_new_block takes the first entry; apply_block follows.  A connection
\* passes on blocks only after the block sync.
StartApply ==
  /\ phase = "keepup" /\ job = NoJob /\ queue # <<>>
  /\ Head(queue).block \notin unreadable
  /\ StartJob(<<Head(queue).block>>, Head(queue).reorg)
  /\ queue' = Tail(queue)
  /\ mixed' = (mixed \/ Head(queue).sibling)
  /\ UNCHANGED <<diskVars, phase, chainVars, plan, minerVars, page, stops, applied,
                 raced, failVars>>

\* apply_block returns early from an unreadable block.
DropBlock ==
  /\ phase = "keepup" /\ job = NoJob /\ queue # <<>>
  /\ Head(queue).block \in unreadable
  /\ queue' = Tail(queue)
  /\ gap' = TRUE
  /\ UNCHANGED <<diskVars, phase, chainVars, plan, job, minerVars, page, stops,
                 histVars, torn, events>>

\* Each table of rocksdb is written by a task of its own, all of the batch at
\* once: nothing is written for an empty block.
EndTask(t) ==
  /\ job.stage = "write" /\ t \notin job.ended
  /\ job' = [job EXCEPT !.ended = @ \cup {t}]

Write(t) ==
  /\ EndTask(t)
  /\ LET pairs == (ToSet(job.blocks) \ unreadable) \X {t} IN
       /\ stored' = stored \cup pairs
       /\ torn' = torn \ pairs
  /\ UNCHANGED <<rows, flagged, metrics, unreadable, phase, chainVars, plan, queue,
                 minerVars, page, stops, histVars, gap, events>>

\* scope_and_block returns what the tasks ended with, and nobody looks at it.
WriteFails(t) ==
  /\ events < MaxEvents
  /\ EndTask(t)
  /\ torn' = torn \cup (ToSet(job.blocks) \X {t} \ stored)
  /\ events' = events + 1
  /\ UNCHANGED <<diskVars, phase, chainVars, plan, queue, minerVars, page, stops,
                 histVars, gap>>

\* "after we're done with txs, update fetched_full in sqlite"
TasksEnded_Some == job.ended # {}
TasksEnded == job.ended = Tables

\* mark_blocks_as_downloaded: one transaction; the UPDATE finds no row when the
\* header is still in its queue.
StoreFlags ==
  /\ job.stage = "write" /\ TasksEnded
  /\ flagged' = flagged \cup (ToSet(job.blocks) \cap rows)
  /\ metrics' = metrics \cup ToSet(job.blocks)
  /\ job' = [job EXCEPT !.stage = IF phase = "sync" THEN "count" ELSE "mark"]
  /\ UNCHANGED <<rows, stored, unreadable, phase, chainVars, plan, queue, minerVars,
                 page, stops, histVars, failVars>>

MarkDownloaded ==
  /\ job.stage = "mark"
  /\ fetched' = fetched \cup ToSet(job.blocks)
  /\ job' = [job EXCEPT !.stage = IF phase = "sync" THEN "page" ELSE "count"]
  /\ applied' = IF phase = "sync" THEN PathTo[Last(job.blocks)] ELSE applied
  /\ UNCHANGED <<diskVars, phase, known, top, pending, plan, queue, minerVars,
                 page, stops, raced, mixed, failVars>>

\* callback_chain_extended or callback_chain_reorg
Count ==
  /\ job.stage = "count"
  /\ IF job.reorg
     THEN /\ Recalculate(config, SyncedUpTo(Last(job.blocks)))
          /\ raced' = FALSE /\ mixed' = FALSE
     ELSE Extend(job.blocks) /\ UNCHANGED <<raced, mixed>>
  /\ job' = [job EXCEPT !.stage = IF phase = "sync" THEN "mark" ELSE "page"]
  /\ applied' = IF phase = "sync" THEN applied ELSE PathTo[Last(job.blocks)]
  /\ UNCHANGED <<diskVars, phase, chainVars, plan, queue, page, stops, failVars>>

\* update_frontpage_data or generate_frontpage_data; a panic ends the task.
ShowPage ==
  LET newestFirst == Reverse(PathTo[Last(job.blocks)])
      panics == IF job.reorg THEN GeneratePanics(newestFirst)
                             ELSE UpdatePanics(job.blocks, newestFirst)
  IN  /\ job.stage = "page"
      /\ IF panics
         THEN phase' = "dead" /\ UNCHANGED page
         ELSE /\ IF job.reorg THEN Generate(newestFirst)
                              ELSE Update(job.blocks, newestFirst)
              /\ UNCHANGED phase
      /\ job' = NoJob
      /\ UNCHANGED <<diskVars, chainVars, plan, queue, minerVars, stops, histVars,
                     failVars>>

-----------------------------------------------------------------------------
(* Start and stop.                                                          *)

MostWork(hs) == CHOOSE h \in hs : \A g \in hs : Work[g] <= Work[h]

\* The tables are made and Genesis is sent to the queue; load_headers_from_sqlite
\* and callback_after_headers_loaded.  An empty database starts with Genesis.
Start ==
  /\ phase = "down"
  /\ phase' = "start"
  /\ known' = Loaded
  /\ fetched' = LoadedFetched
  /\ top' = MostWork(Loaded)
  /\ pending' = {Genesis} \ rows
  /\ applied' = Filtered(PathTo[MostWork(Loaded)], LoadedFetched)
  /\ Recalculate(config, applied')
  /\ raced' = FALSE /\ mixed' = FALSE
  /\ UNCHANGED <<diskVars, plan, queue, job, page, stops, failVars>>

\* chainman::start's task: the page of the blocks that are there, and the list
\* of the missing ones for the block sync.  The miners were counted before the
\* header sync, which may have left the branch that they were counted on.
StartSync ==
  /\ phase = "start"
  /\ applied' = Synced
  /\ raced' = (raced \/ Synced # applied)
  /\ IF Synced # <<>> /\ GeneratePanics(Reverse(Synced))
     THEN phase' = "dead" /\ UNCHANGED <<page, plan>>
     ELSE /\ phase' = "sync"
          /\ plan' = Missing
          /\ IF Synced = <<>> THEN UNCHANGED page ELSE Generate(Reverse(Synced))
  /\ UNCHANGED <<diskVars, chainVars, queue, job, minerVars, stops, mixed, failVars>>

Stop ==
  /\ phase # "down" /\ stops < MaxStops
  /\ phase' = "down"
  /\ stops' = stops + 1
  /\ known' = {} /\ fetched' = {} /\ top' = Genesis /\ pending' = {}
  /\ plan' = <<>> /\ queue' = <<>> /\ job' = NoJob
  /\ \E r \in Configs : config' = r
  /\ counted' = <<>> /\ recent' = <<>> /\ newest' = <<>>
  /\ counts' = [m \in Miners \cup {Unknown} |-> 0]
  /\ page' = NoPage
  /\ applied' = <<>> /\ raced' = FALSE /\ mixed' = FALSE /\ gap' = FALSE
  /\ UNCHANGED <<diskVars, torn, events>>

Init ==
  /\ rows = {} /\ flagged = {} /\ metrics = {} /\ stored = {}
  /\ unreadable \in Unreadable
  /\ phase = "down"
  /\ known = {} /\ fetched = {} /\ top = Genesis /\ pending = {}
  /\ plan = <<>> /\ queue = <<>> /\ job = NoJob
  /\ config \in Configs
  /\ counted = <<>> /\ recent = <<>> /\ newest = <<>>
  /\ counts = [m \in Miners \cup {Unknown} |-> 0]
  /\ page = NoPage
  /\ stops = 0 /\ applied = <<>> /\ raced = FALSE /\ mixed = FALSE
  /\ torn = {} /\ gap = FALSE /\ events = Cardinality(unreadable)

Next ==
  \/ Start
  \/ StartSync
  \/ Stop
  \/ FlushHeaders
  \/ \E h \in Blocks : LearnHeader(h)
  \/ \E r \in Configs : Reload(r)
  \/ StartBatch
  \/ SyncDone
  \/ SyncGivesUp
  \/ StartApply
  \/ DropBlock
  \/ \E t \in Tables : Write(t)
  \/ \E t \in Tables : WriteFails(t)
  \/ StoreFlags
  \/ MarkDownloaded
  \/ Count
  \/ ShowPage

Spec == Init /\ [][Next]_vars

-----------------------------------------------------------------------------
(* Properties.                                                              *)

Idle == phase \in {"sync", "keepup"} /\ job = NoJob

\* Every variable stays in its domain.
TypeOK ==
  /\ rows \subseteq Blocks /\ flagged \subseteq Blocks
  /\ metrics \subseteq Blocks /\ stored \subseteq Blocks \X Tables
  /\ unreadable \in Unreadable
  /\ phase \in {"down", "start", "sync", "keepup", "dead"}
  /\ known \subseteq Blocks /\ fetched \subseteq known /\ top \in Blocks
  /\ pending \subseteq Blocks
  /\ plan \in Seq(Blocks) /\ queue \in Seq([block : Blocks, reorg : BOOLEAN, sibling : BOOLEAN])
  /\ job \in [stage : {"idle", "write", "mark", "count", "page"},
              reorg : BOOLEAN, blocks : Seq(Blocks), ended : SUBSET Tables]
  /\ config \in Configs
  /\ counted \in Seq(Entries) /\ recent \in Seq(Entries)
  /\ counts \in [Miners \cup {Unknown} -> Nat]
  /\ newest \in Seq(Entries)
  /\ page.blocks \in Seq(Blocks) /\ page.stats \in Seq(Blocks)
  /\ stops \in 0..MaxStops
  /\ applied \in Seq(Blocks) /\ raced \in BOOLEAN /\ mixed \in BOOLEAN
  /\ torn \subseteq Blocks \X Tables /\ gap \in BOOLEAN /\ events \in 0..MaxEvents

\* The blocks of which something was not written or that were left empty.
Damaged == {pair[1] : pair \in torn} \cup unreadable

\* None of the unwrap()s and expect()s behind the front page fails, wherever
\* the process was stopped before and whatever reached sqlite by then, unless
\* one of the blocks to be shown was written in part or left empty, or a block
\* was given up since the start.  The one other exception is that the miners
\* were counted on another chain than the one being shown: by a reload of the
\* rules at the wrong moment, or before the header sync moved to another branch.
PagePanicsOnlyByRace ==
  phase = "dead" /\ ~gap /\ ToSet(FirstN(Reverse(applied), PAGE)) \cap Damaged = {}
    => raced

\* fetched_full in sqlite means that all of the block's data is in rocksdb and
\* its metrics in block_stats, after every crash, if no write of it failed and
\* it could be read.
FlaggedIsStored ==
  /\ flagged \X Tables \subseteq stored \cup torn \cup (unreadable \X Tables)
  /\ flagged \subseteq metrics

\* Between blocks the miner statistics list every block of the applied chain
\* once, oldest first, under the current rules, through forks, restarts and
\* reloads; unless a count went wrong as above and none has followed, or a
\* block was given up.
CountedOnce ==
  Idle /\ ~raced /\ ~mixed /\ ~gap =>
    counted = [i \in DOMAIN applied |-> Miner(config, applied[i])]

\* The counts of recent blocks, from which the shares are computed, always
\* agree with the list of recent blocks, however the timestamps go up and down;
\* and so does the miners' page, but for the same race or a block given up.
CountsMatchRecent ==
  /\ \A m \in DOMAIN counts : counts[m] = CountOf(recent, m)
  /\ ~raced /\ ~gap => newest = NewestOf(recent)

\* Between blocks the front page shows the newest applied blocks and their
\* transactions, newest first, without a gap or a block of an abandoned fork,
\* unless a block that replaced the top was appended to it or a block was given
\* up.
PageCurrent ==
  Idle /\ ~mixed /\ ~gap =>
    LET newestFirst == Reverse(applied) IN
    /\ page.blocks = FirstN(newestFirst, PAGE)
    /\ page.txs = FirstN(TxsOf(newestFirst), PAGE)
=============================================================================

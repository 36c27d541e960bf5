-------------------------------- MODULE KeepUp --------------------------------
(***************************************************************************)
(* How the block tree is kept up with the network: the startup task of     *)
(* chainman::start (chainman/mod.rs), the header sync it may run           *)
(* (chainman/headersync.rs), the bodies it downloads, and the chain        *)
(* watcher (chainman/keepup.rs) that takes headers and blocks from the     *)
(* crawler's connections (crawler/mod.rs) from then on.                    *)
(*                                                                         *)
(* The tasks share CHAIN behind one lock, and the two flags                *)
(* SYNCING_HEADERS and SYNCING_BODIES, which a connection reads once when  *)
(* it starts on a packet.  What a connection let through may then wait any *)
(* length of time before the watcher takes it.                             *)
(*                                                                         *)
(* Any of the tasks may fail at a block, and nothing is tried again before *)
(* the next restart: sync_blocks may return with blocks missing, the       *)
(* startup task may die on the front page, apply_block may return early or *)
(* panic and take the watcher with it.  `lost` remembers the blocks that   *)
(* nobody was after any more when one of these happened.                   *)
(***************************************************************************)
EXTENDS HeaderChain

CONSTANTS
  Recent,      \* headers less than 24 hours old
  Startups,    \* which kinds of restart are considered
  MaxInFlight, \* bound: packets of one kind let through and not yet handled
  U64          \* the modulus of the u64 heights in the queue

ASSUME KeepUpAssumption ==
  /\ Recent \subseteq Headers \ {Genesis}
  /\ Startups \subseteq {"stale", "synced", "behind"}
  /\ MaxInFlight \in Nat
  /\ U64 \in Nat \ {0}

VARIABLES
  SYNCING_HEADERS, \* the initial header sync is running
  SYNCING_BODIES,  \* the initial block download is running
  phase,           \* where the startup task is
  missing,         \* block_hashes_to_download, without the ones written
  lost,            \* history: blocks dropped once and not on disk since
  queue,           \* the watcher's blocks to fetch and apply, in order
  applying,        \* the queue entry apply_block is working on, if any
  watching,        \* the chain watcher's task is alive
  headers_in,      \* headers on their way to the watcher
  blocks_in,       \* blocks on their way to the watcher
  shown            \* the blocks the miner statistics and the frontpage count

flagVars    == <<SYNCING_HEADERS, SYNCING_BODIES>>
startupVars == <<phase, missing, lost>>
watcherVars == <<queue, applying, watching, shown>>
netVars     == <<headers_in, blocks_in>>
vars == <<chainVars, flagVars, startupVars, watcherVars, netVars>>

Entry   == [hash : Headers, number : 0..(U64 - 1), strat : {"append", "regenerate"}]
Packet  == [hash : Headers, valid : BOOLEAN]
Nothing == <<>>

\* Every variable stays in its domain.
TypeOK ==
  /\ ChainTypeOK
  /\ SYNCING_HEADERS \in BOOLEAN
  /\ SYNCING_BODIES \in BOOLEAN
  /\ phase \in {"start", "headers", "frontpage", "bodies", "synced", "dead"}
  /\ missing \subseteq Headers
  /\ lost \subseteq Headers
  /\ queue \in Seq(Entry)
  /\ applying \in Entry \cup {Nothing}
  /\ watching \in BOOLEAN
  /\ headers_in \subseteq Headers
  /\ blocks_in \subseteq Packet
  /\ shown \subseteq Headers

Queued == {queue[i].hash : i \in 1..Len(queue)}

\* Some blocks are dropped; one that is put on disk is lost no more.
Lose(blocks) == lost' = (lost \cup blocks) \ fetched_full'

-----------------------------------------------------------------------------
(* A restart: whatever the database can hold, and nothing in flight.        *)

NeedIhd(top) == top \notin Recent

\* The restarts apart: the top is old; it is recent and downloaded; it is
\* recent but its body, or one below it, is not.
StartupKind(top, fetched) ==
  IF NeedIhd(top) THEN "stale" ELSE IF top \in fetched THEN "synced" ELSE "behind"

\* callback_after_headers_loaded counts the chain of the top synced header.
CountedUpTo(h) == IF h = NoHash THEN {} ELSE Ancestors[h]

Init ==
  /\ \E known, fetched \in SUBSET Headers, top \in Headers :
       /\ LoadHeaders(known, fetched, top)
       /\ StartupKind(top, fetched) \in Startups
       /\ shown = CountedUpTo(get_top_synced_header_hash(top, fetched))
  /\ SYNCING_HEADERS = FALSE
  /\ SYNCING_BODIES = FALSE
  /\ phase = "start"
  /\ missing = {}
  /\ lost = {}
  /\ queue = <<>>
  /\ applying = Nothing
  /\ watching = TRUE
  /\ headers_in = {}
  /\ blocks_in = {}

-----------------------------------------------------------------------------
(* The startup task.                                                        *)

\* The end of the first block of the task, under CHAIN's lock: what is to be
\* downloaded is decided from the top at this moment.
PlanDownload(downloaded) ==
  /\ phase' = "frontpage"
  /\ missing' = get_block_hashes_to_download(top_header, fetched_full, downloaded)

\* need_ihd() is false: no flag is raised.
StartRecent ==
  /\ phase = "start"
  /\ ~NeedIhd(top_header)
  /\ PlanDownload(DOWNLOADED_BLOCKS)
  /\ UNCHANGED <<chainVars, flagVars, lost, watcherVars, netVars>>

start_syncing_headers ==
  /\ phase = "start"
  /\ NeedIhd(top_header)
  /\ SYNCING_HEADERS' = TRUE
  /\ phase' = "headers"
  /\ UNCHANGED <<chainVars, SYNCING_BODIES, missing, lost, watcherVars, netVars>>

\* One header of a `headers` packet in handle_packet_during_headersync.  A
\* packet is applied under one lock and followed by a need_ihd() check: a
\* packet of several headers is several such steps before FinishHeaders.
validate_and_apply_headers(h) ==
  /\ phase = "headers"
  /\ Acceptable(h)
  /\ InsertHeader(h) \/ MoveTopDuringHeadersync(h)
  /\ UNCHANGED <<flagVars, startupVars, watcherVars, netVars>>

\* sync_headers returned: recount, regenerate the hash set, plan the download.
FinishHeaders ==
  /\ phase = "headers"
  /\ ~NeedIhd(top_header)
  /\ DOWNLOADED_BLOCKS' =
       calculate_downloaded_blocks(top_header, top_fetched, fetched_full)
  /\ most_work_chain' = Ancestors[top_header]
  /\ number_to_hash' = generate_number_to_hash(top_header)
  /\ PlanDownload(DOWNLOADED_BLOCKS')
  /\ UNCHANGED <<known_headers, fetched_full, top_header, top_fetched, poisoned,
                 flagVars, lost, watcherVars, netVars>>

\* generate_frontpage_data returned; start_syncing_blocks comes first, so that
\* no connection sees both flags down in between.
SwitchToBodies_EvenIfNone ==
  /\ SYNCING_BODIES' = TRUE
  /\ SYNCING_HEADERS' = FALSE
SwitchToBodies ==
  /\ SYNCING_BODIES' = (missing # {})
  /\ SYNCING_HEADERS' = FALSE

FinishFrontpage ==
  /\ phase = "frontpage"
  /\ phase' = IF missing = {} THEN "synced" ELSE "bodies"
  /\ SwitchToBodies
  /\ UNCHANGED <<chainVars, missing, lost, watcherVars, netVars>>

\* generate_frontpage_data is called if some block of the chain is downloaded.
\* A panic in it ends the task with the flags as they are, and nobody takes up
\* the plan.
FrontpagePanics ==
  /\ phase = "frontpage"
  /\ SeenFetched(top_header, top_fetched, fetched_full) # {}
  /\ phase' = "dead"
  /\ missing' = {}
  /\ UNCHANGED <<chainVars, flagVars, watcherVars, netVars>>
  /\ Lose(missing)

\* sync_blocks, as its writer commits it: the lowest missing blocks, several
\* at a time (module BlockSync shows that they arrive in this order).
IsBatch(batch) ==
  /\ batch # {}
  /\ \A b \in batch, m \in missing : Number[m] < Number[b] => m \in batch

WriteBatch(batch) ==
  /\ phase = "bodies"
  /\ IsBatch(batch)
  /\ mark_as_downloaded(batch)
  /\ missing' = missing \ batch
  /\ Lose({})
  /\ shown' = shown \cup batch
  /\ UNCHANGED <<flagVars, phase, queue, applying, watching, netVars>>

\* Called when sync_blocks returns, which it does when its master and its
\* writer have ended, whatever they ended with: all blocks may be written, the
\* last one may have stayed in the channel (run writer_last of BlockWriter), or
\* a panic of the flush may have ended the writer after any of them.
stop_syncing_blocks ==
  /\ phase = "bodies"
  /\ SYNCING_BODIES' = FALSE
  /\ phase' = "synced"
  /\ missing' = {}
  /\ UNCHANGED <<chainVars, SYNCING_HEADERS, watcherVars, netVars>>
  /\ Lose(missing)

-----------------------------------------------------------------------------
(* handle_payload of a connection.  The crawler is started after chainman:   *)
(* connections exist only once the startup task has taken its first step.    *)

should_process_headers == phase # "start" /\ ~SYNCING_HEADERS

should_process_blocks_HeadersOnly == should_process_headers
should_process_blocks == should_process_headers /\ ~SYNCING_BODIES

\* handle_new_header ignores a known header whenever it comes, and headers
\* stay known: such a header is not kept among those in flight.
News(h) == {h} \ known_headers

\* `headers`, or a block packet of which only the header is looked at.  Nobody
\* takes what is sent to a watcher that has died.
ReceiveHeader(h) ==
  /\ should_process_headers /\ watching
  /\ Cardinality(headers_in \cup News(h)) <= MaxInFlight
  /\ headers_in' = headers_in \cup News(h)
  /\ UNCHANGED <<chainVars, flagVars, startupVars, watcherVars, blocks_in>>

\* A block packet: on_header_received, then on_block_received.
ReceiveBlock(b) ==
  /\ should_process_blocks /\ watching
  /\ Cardinality(blocks_in \cup {b}) <= MaxInFlight
  /\ Cardinality(headers_in \cup News(b.hash)) <= MaxInFlight
  /\ headers_in' = headers_in \cup News(b.hash)
  /\ blocks_in' = blocks_in \cup {b}
  /\ UNCHANGED <<chainVars, flagVars, startupVars, watcherVars>>

-----------------------------------------------------------------------------
(* The chain watcher.                                                       *)

WatcherIdle == applying = Nothing

IgnoreHeader(h) ==
  /\ WatcherIdle
  /\ h \in headers_in
  /\ ~Acceptable(h)
  /\ headers_in' = headers_in \ {h}
  /\ UNCHANGED <<chainVars, flagVars, startupVars, watcherVars, blocks_in>>

\* What handle_new_header pushes for the blocks of a HeaderApplicationResult:
\* one block is taken for a simple extension, more for a fork whose heights
\* count from new_top_number - len - 1.
QueueEntries(h, added) ==
  LET len == Len(added)
  IN  IF len = 1
      THEN << [hash |-> h, number |-> Number[h] % U64, strat |-> "append"] >>
      ELSE [i \in 1..len |->
              [hash   |-> added[i].hash,
               number |-> (Number[h] - len - 1 + (i - 1)) % U64,
               strat  |-> IF i = 1 THEN "regenerate" ELSE "append"]]

handle_new_header(h) ==
  /\ WatcherIdle
  /\ h \in headers_in
  /\ Acceptable(h)
  /\ headers_in' = headers_in \ {h}
  /\ \/ InsertHeader(h) /\ UNCHANGED queue
     \/ MoveTop(h) /\ queue' = queue \o QueueEntries(h, AddedBlocks(h))
     \/ PanicInWalk(h) /\ UNCHANGED queue
  /\ UNCHANGED <<flagVars, startupVars, applying, watching, shown, blocks_in>>

\* `block.header.hash != hash`, and the witness commitment check
IsNext(b) == queue # <<>> /\ b.hash = queue[1].hash /\ b.valid

IgnoreBlock(b) ==
  /\ WatcherIdle
  /\ b \in blocks_in
  /\ ~IsNext(b)
  /\ blocks_in' = blocks_in \ {b}
  /\ UNCHANGED <<chainVars, flagVars, startupVars, watcherVars, headers_in>>

\* pop_front, and apply_block up to its first await
handle_new_block(b) ==
  /\ WatcherIdle
  /\ b \in blocks_in
  /\ IsNext(b)
  /\ blocks_in' = blocks_in \ {b}
  /\ applying' = [queue[1] EXCEPT !.hash = b.hash]
  /\ queue' = Tail(queue)
  /\ UNCHANGED <<chainVars, flagVars, startupVars, watching, shown, headers_in>>

\* The rest of apply_block: the block is written and marked as downloaded, and
\* the statistics and the page are extended by it or built again.
Shown(entry) ==
  IF entry.strat = "append" THEN shown \cup {entry.hash} ELSE Ancestors[entry.hash]

apply_block ==
  /\ applying # Nothing
  /\ mark_as_downloaded({applying.hash})
  /\ Lose({})
  /\ shown' = Shown(applying)
  /\ applying' = Nothing
  /\ UNCHANGED <<flagVars, phase, missing, queue, watching, netVars>>

\* It returns as soon as one of the outputs the block spends cannot be read,
\* be it that the output is not there or that the database fails; the block
\* has left the queue.
apply_block_Returns ==
  /\ applying # Nothing
  /\ applying' = Nothing
  /\ UNCHANGED <<chainVars, flagVars, phase, missing, queue, watching, shown, netVars>>
  /\ Lose({applying.hash})

\* A panic in it, before or after the block is marked as downloaded, ends the
\* watcher's task, and with it the queue.
WatcherPanics ==
  /\ applying # Nothing
  /\ \/ UNCHANGED <<chainVars, shown>>
     \/ /\ mark_as_downloaded({applying.hash})
        /\ shown' \in {shown, Shown(applying)}
  /\ Lose(Queued \cup {applying.hash})
  /\ watching' = FALSE
  /\ queue' = <<>>
  /\ applying' = Nothing
  /\ headers_in' = {}
  /\ blocks_in' = {}
  /\ UNCHANGED <<flagVars, phase, missing>>

-----------------------------------------------------------------------------
Startup ==
  \/ StartRecent
  \/ start_syncing_headers
  \/ \E h \in Headers : validate_and_apply_headers(h)
  \/ FinishHeaders
  \/ FinishFrontpage
  \/ FrontpagePanics
  \/ \E batch \in SUBSET missing : WriteBatch(batch)
  \/ stop_syncing_blocks

Network ==
  \/ \E h \in Headers : ReceiveHeader(h)
  \/ \E b \in Packet : ReceiveBlock(b)

Apply == apply_block \/ apply_block_Returns \/ WatcherPanics

Watcher ==
  \/ \E h \in Headers : IgnoreHeader(h)
  \/ \E h \in Headers : handle_new_header(h)
  \/ \E b \in Packet : IgnoreBlock(b)
  \/ \E b \in Packet : handle_new_block(b)
  \/ Apply

\* A poisoned CHAIN makes every task that touches it panic in turn.
Next == ~poisoned /\ (Startup \/ Network \/ Watcher)

Spec == Init /\ [][Next]_vars

\* The next block the watcher wants, from a peer that has it:
\* the ticker asks some peer for queue[0] again every 100 ms.
ReceiveNextBlock == \E b \in Packet : IsNext(b) /\ ReceiveBlock(b)

\* Tasks keep running.  sync_headers and sync_blocks go from peer to peer until
\* they have what they want, and the ticker never stops asking; whatever else
\* peers send may fill the channels in between, but not for ever.
Fairness ==
  /\ WF_vars(~poisoned /\ Startup)
  /\ WF_vars(~poisoned /\ \E h \in Headers : IgnoreHeader(h) \/ handle_new_header(h))
  /\ WF_vars(~poisoned /\ \E b \in Packet : IgnoreBlock(b) \/ handle_new_block(b))
  /\ WF_vars(~poisoned /\ Apply)
  /\ SF_vars(~poisoned /\ ReceiveNextBlock)

FairSpec == Spec /\ Fairness

-----------------------------------------------------------------------------
(* Properties.                                                              *)

\* "Since blocks are applied sequentially, if we see a block that has
\* FetchedFull set to true, we know all of the blocks before it are also
\* downloaded" (calculate_downloaded_blocks): every walk stops there.  It is
\* true of all blocks below but those that were lost, and above a lost block
\* no block is on disk but by the same rule.
FetchedClosed == ClosedUnderParent(fetched_full \cup lost)

\* Once the startup task has made its plan, every block of the most-work
\* chain is on disk or somebody is after it, the plan, the watcher's queue or
\* apply_block, unless it was lost when one of the tasks failed.  No
\* reorganisation, whenever it comes, lets one fall between.
NothingForgotten ==
  phase \notin {"start", "headers"} =>
    \A h \in Ancestors[top_header] :
      \/ h \in fetched_full \cup missing \cup Queued \cup lost
      \/ applying # Nothing /\ applying.hash = h

\* DOWNLOADED_BLOCKS "only counts downloaded blocks from the main chain",
\* and all of them, however the top moved: together with what was lost below
\* a downloaded one, where the walk that counts does not look.
LostBelow(fetched) == {h \in lost : \E g \in fetched : h \in Ancestors[g]}

DownloadedExact ==
  phase \notin {"start", "headers"} =>
    LET fetched == Ancestors[top_header] \cap fetched_full
    IN  DOWNLOADED_BLOCKS = Cardinality(fetched \cup LostBelow(fetched))

\* The hash set that filters transactions and answers getheaders is the
\* top's chain, except while the header sync moves the top without it.
MostWorkExact == phase # "headers" => most_work_chain = Ancestors[top_header]

\* Every block that is ever on the most-work chain is downloaded in the end,
\* even if a reorganisation removes it first, or it is lost by a task that
\* fails: the queue never gets stuck, and no failed block holds up another.
KeepsUp ==
  \A h \in Headers :
    (phase \notin {"start", "headers"} /\ h \in Ancestors[top_header])
      ~> (h \in fetched_full \cup lost \/ poisoned)

\* number_to_hash "is on the most_work_chain" (struct Chain).
NumberToHashOnChain ==
  phase # "headers" => number_to_hash = generate_number_to_hash(top_header)

\* After a fork "we regenerate the frontpage response from scratch for the
\* first block": what is counted is one chain, never a block and its sibling.
ShownIsOneChain == shown = {} \/ \E h \in Headers : shown = Ancestors[h]
=============================================================================

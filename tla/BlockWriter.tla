----------------------------- MODULE BlockWriter -----------------------------
(***************************************************************************)
(* The writing half of the initial block sync (chainman/blocksync.rs,      *)
(* receive_and_process_blocks): blocks come in chain order through the     *)
(* channel that module BlockSync feeds, are gathered into batches and      *)
(* analysed concurrently; a flush task writes one batch to disk while the  *)
(* next is gathered.  The two batches live in two arenas that swap roles.  *)
(*                                                                         *)
(* Blocks are 1..N in chain order; a block may spend outputs of any        *)
(* earlier one.                                                            *)
(*                                                                         *)
(* Reading and writing the disk may fail.  A block whose analysis is given *)
(* up stays in its batch, empty, and the tables of a batch are written by  *)
(* tasks of their own whose results nobody looks at: either way the flush  *)
(* goes on and marks its batch.  `lost` remembers what did not reach the   *)
(* disk on the way; no action reads it but to leave it out of `written`.   *)
(***************************************************************************)
EXTENDS Integers, FiniteSets

CONSTANTS
  N,                    \* blocks the master sends before it drops the sender
  MAX_BLOCKS_PER_FLUSH, \* the size of a full batch
  DiskMayFail           \* whether reading and writing the disk may fail

ASSUME BlockWriterAssumption ==
  /\ N \in Nat
  /\ MAX_BLOCKS_PER_FLUSH \in Nat \ {0}
  /\ DiskMayFail \in BOOLEAN

Blocks  == 1..N
NoBlock == 0
Arenas  == {0, 1}

VARIABLES
  sent,            \* how many blocks the master has sent
  chan,            \* the channel's one slot
  closed,          \* the master dropped its sender
  pc,              \* where the writer task is
  batch,           \* current_blocks, next_batch
  processing,      \* blocks of the batch whose process_block still runs
  current_txouts,  \* blocks whose outputs are in current_txouts
  previous_txouts, \* blocks whose outputs are in previous_txouts
  arena,           \* the blocks whose data each arena holds
  current_arena,   \* which arena the batch is gathered in
  flush,           \* the flush task: its state, its blocks and their arena
  written,         \* blocks whose transactions are on disk
  lost,            \* history: blocks given up, or in a table that failed
  marked,          \* blocks marked as downloaded
  failed           \* a flush task of at least one block panicked

masterVars == <<sent, chan, closed>>
batchVars  == <<batch, processing, current_txouts, previous_txouts, arena,
                current_arena>>
diskVars   == <<written, lost, marked, failed>>
vars == <<masterVars, pc, batchVars, flush, diskVars>>

previous_arena == 1 - current_arena
FlushRunning   == flush.state \in {"write", "mark", "page"}

\* Every variable stays in its domain, and a batch within its limit.
TypeOK ==
  /\ sent \in 0..N
  /\ chan \in Blocks \cup {NoBlock}
  /\ closed \in BOOLEAN
  /\ pc \in {"check", "recv", "join", "collect", "drain", "done", "panicked"}
  /\ batch \subseteq Blocks
  /\ Cardinality(batch) <= MAX_BLOCKS_PER_FLUSH
  /\ processing \subseteq Blocks
  /\ current_txouts \subseteq Blocks
  /\ previous_txouts \subseteq Blocks
  /\ arena \in [Arenas -> SUBSET Blocks]
  /\ current_arena \in Arenas
  /\ flush \in [state  : {"idle", "write", "mark", "page", "panicked"},
                blocks : SUBSET Blocks,
                arena  : Arenas]
  /\ written \subseteq Blocks
  /\ lost \subseteq Blocks
  /\ marked \subseteq Blocks
  /\ failed \in BOOLEAN

Init ==
  /\ sent = 0
  /\ chan = NoBlock
  /\ closed = FALSE
  /\ pc = "check"
  /\ batch = {}
  /\ processing = {}
  /\ current_txouts = {}
  /\ previous_txouts = {}
  /\ arena = [a \in Arenas |-> {}]
  /\ current_arena = 0
  /\ flush = [state |-> "idle", blocks |-> {}, arena |-> 1]
  /\ written = {}
  /\ lost = {}
  /\ marked = {}
  /\ failed = FALSE

-----------------------------------------------------------------------------
(* The master, as module BlockSync shows it: in order, then it returns.     *)

Send ==
  /\ sent < N /\ chan = NoBlock
  /\ pc \notin {"done", "panicked"}
  /\ sent' = sent + 1
  /\ chan' = sent + 1
  /\ UNCHANGED <<closed, pc, batchVars, flush, diskVars>>

DropSender ==
  /\ sent = N /\ ~closed
  /\ closed' = TRUE
  /\ UNCHANGED <<sent, chan, pc, batchVars, flush, diskVars>>

-----------------------------------------------------------------------------
(* receive_and_process_blocks and get_next_batch_to_flush                   *)

\* `while !recv.is_closed()`: true once the sender is gone, even if the
\* channel still holds a block.
CheckClosed ==
  /\ pc = "check"
  /\ pc' = IF closed THEN "drain" ELSE "recv"
  /\ UNCHANGED <<masterVars, batchVars, flush, diskVars>>

\* A block's outputs are put into current_txouts before it is analysed: the
\* next block may need them.
InsertTransactions(b) == current_txouts' = current_txouts \cup {b}

BatchFull_OneMore(blocks) == Cardinality(blocks) = MAX_BLOCKS_PER_FLUSH + 1
BatchFull(blocks) == Cardinality(blocks) = MAX_BLOCKS_PER_FLUSH

Recv ==
  /\ pc = "recv" /\ chan # NoBlock
  /\ batch' = batch \cup {chan}
  /\ InsertTransactions(chan)
  /\ arena' = [arena EXCEPT ![current_arena] = @ \cup {chan}]
  /\ processing' = processing \cup {chan}
  /\ chan' = NoBlock
  /\ pc' = IF BatchFull(batch \cup {chan}) THEN "join" ELSE "recv"
  /\ UNCHANGED <<sent, closed, previous_txouts, current_arena, flush, diskVars>>

\* recv() returns None: the sender is gone and the channel is empty.
ChannelEnded_AfterABlock == chan = NoBlock /\ closed /\ batch # {}
ChannelEnded == chan = NoBlock /\ closed

RecvNone ==
  /\ pc = "recv" /\ ChannelEnded
  /\ pc' = "join"
  /\ UNCHANGED <<masterVars, batchVars, flush, diskVars>>

\* process_block stores its result in current_analyzed.
FinishProcessing(b) ==
  /\ b \in processing
  /\ processing' = processing \ {b}
  /\ UNCHANGED <<masterVars, pc, batch, current_txouts, previous_txouts, arena,
                 current_arena, flush, diskVars>>

\* It returns early when a dependency cannot be read, or panics in its task:
\* the entries of the block keep their default values.
GiveUpProcessing(b) ==
  /\ DiskMayFail
  /\ b \in processing
  /\ processing' = processing \ {b}
  /\ lost' = lost \cup {b}
  /\ UNCHANGED <<masterVars, pc, batch, current_txouts, previous_txouts, arena,
                 current_arena, flush, written, marked, failed>>

\* scope.collect() at the end of get_next_batch_to_flush
JoinBatch ==
  /\ pc = "join" /\ processing = {}
  /\ pc' = "collect"
  /\ UNCHANGED <<masterVars, batchVars, flush, diskVars>>

\* "wait for the current flush to finish"
Collected == ~FlushRunning

\* The finished flush task gave its vectors back: take().unwrap() succeeds.
VectorsBack_OrNot == TRUE
VectorsBack == flush.state # "panicked"

\* `previous_arena.reset()`, and the swap of the two arenas
ResetPrevious_Forgotten == arena
ResetPrevious == [arena EXCEPT ![previous_arena] = {}]
NextArena_Same == current_arena
NextArena == previous_arena

\* "current_txouts is stored as the new previous_txouts": the other map, the
\* old previous_txouts, is the one that was cleared.
NextPreviousTxouts_Cleared == {}
NextPreviousTxouts == current_txouts

\* The buffers swap roles and the batch goes to a new flush task.
SwapAndSpawn ==
  /\ pc = "collect" /\ Collected /\ VectorsBack
  /\ flush' = [state |-> "write", blocks |-> batch, arena |-> current_arena]
  /\ arena' = ResetPrevious
  /\ current_txouts' = {}
  /\ previous_txouts' = NextPreviousTxouts
  /\ current_arena' = NextArena
  /\ batch' = {}
  /\ pc' = "check"
  /\ UNCHANGED <<masterVars, processing, diskVars>>

\* The flush task panicked before it gave them back.
TakePanics ==
  /\ pc = "collect" /\ ~VectorsBack
  /\ pc' = "panicked"
  /\ UNCHANGED <<masterVars, batchVars, flush, diskVars>>

\* The last scope.collect()
Drained_NoWait == TRUE
Drained == ~FlushRunning

Finish ==
  /\ pc = "drain" /\ Drained
  /\ pc' = "done"
  /\ UNCHANGED <<masterVars, batchVars, flush, diskVars>>

-----------------------------------------------------------------------------
(* The flush task.                                                          *)

FlushTo(state) == flush' = [flush EXCEPT !.state = state]

\* write_analyzed_txs: one task per table, for what was analysed of the batch
FlushWrite ==
  /\ flush.state = "write" /\ flush.blocks # {}
  /\ written' = written \cup (flush.blocks \ lost)
  /\ FlushTo("mark")
  /\ UNCHANGED <<masterVars, pc, batchVars, lost, marked, failed>>

\* A table is ingested as a whole or not at all: the task of one that fails
\* panics, and scope_and_block returns that to a caller who drops it.
TableFails ==
  /\ DiskMayFail
  /\ flush.state = "write" /\ flush.blocks # {}
  /\ lost' = lost \cup flush.blocks
  /\ FlushTo("mark")
  /\ UNCHANGED <<masterVars, pc, batchVars, written, marked, failed>>

\* mark_blocks_as_downloaded, miners::callback_chain_extended and
\* mark_as_downloaded
FlushMark ==
  /\ flush.state = "mark"
  /\ marked' = marked \cup flush.blocks
  /\ FlushTo("page")
  /\ UNCHANGED <<masterVars, pc, batchVars, written, lost, failed>>

\* update_frontpage_data returned, and the vectors are given back.
FlushPage ==
  /\ flush.state = "page"
  /\ FlushTo("idle")
  /\ UNCHANGED <<masterVars, pc, batchVars, diskVars>>

\* The flush task itself panics: at `next_batch[next_batch.len() - 1]` of an
\* empty batch, when the flags cannot be stored in sqlite, or on the page, at
\* the first transaction of a block that was given up.
FlushPanics ==
  /\ \/ flush.state = "write" /\ flush.blocks = {}
     \/ flush.state \in {"mark", "page"} /\ DiskMayFail
  /\ FlushTo("panicked")
  /\ failed' = (failed \/ flush.blocks # {})
  /\ UNCHANGED <<masterVars, pc, batchVars, written, lost, marked>>

-----------------------------------------------------------------------------
Writer ==
  \/ CheckClosed
  \/ Recv
  \/ RecvNone
  \/ JoinBatch
  \/ SwapAndSpawn
  \/ TakePanics
  \/ Finish

Flush == FlushWrite \/ TableFails \/ FlushMark \/ FlushPage \/ FlushPanics

Next ==
  \/ Send
  \/ DropSender
  \/ Writer
  \/ \E b \in Blocks : FinishProcessing(b) \/ GiveUpProcessing(b)
  \/ Flush

Spec == Init /\ [][Next]_vars

\* The runtime runs every task that can make a step.
Fairness ==
  /\ WF_vars(Send)
  /\ WF_vars(DropSender)
  /\ WF_vars(Writer)
  /\ WF_vars(\E b \in Blocks : FinishProcessing(b) \/ GiveUpProcessing(b))
  /\ WF_vars(Flush)

FairSpec == Spec /\ Fairness

-----------------------------------------------------------------------------
(* Properties.                                                              *)

\* "Every dependency might be" in current_txouts, in previous_txouts or on
\* disk: whatever the flush is doing, a block that is being analysed finds
\* the outputs of every earlier block in one of the three, unless that block
\* is one of the lost.
DependenciesFound ==
  \A b \in processing :
    1..(b - 1) \subseteq current_txouts \cup previous_txouts \cup written \cup lost

\* No arena is reset under its readers: the flush task still finds its batch,
\* and both maps of outputs point into data that is there.
BuffersIntact ==
  /\ FlushRunning => flush.blocks \subseteq arena[flush.arena]
  /\ current_txouts \subseteq arena[current_arena]
  /\ previous_txouts \subseteq arena[previous_arena]

\* "assert_eq!(current_arena.used(), 0)" when a batch is started.
BatchStartsEmpty == pc = "check" => arena[current_arena] = {}

\* Blocks are marked as downloaded in chain order, and a marked block is on
\* disk with everything below it, or one of the lost: a failed write is marked
\* like any other, but no block is before its own write has ended, and after a
\* flush that panicked no batch is.
MarkedInOrder ==
  /\ marked = 1..Cardinality(marked)
  /\ marked \subseteq written \cup lost

\* When sync_blocks returns and no flush task panicked, every block was marked
\* as downloaded, however many of the writes failed.
AllFlushed == pc = "done" /\ ~failed => marked = Blocks

\* sync_blocks returns: the three tasks never wait for each other in a circle.
WriterEnds == <>(pc \in {"done", "panicked"})
=============================================================================

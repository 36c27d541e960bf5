------------------------------ MODULE BlockSync ------------------------------
(***************************************************************************)
(* The download half of the initial block sync (chainman/blocksync.rs):    *)
(* one master task hands the missing blocks out to download workers,       *)
(* takes what they fetched in any order, and feeds the block writer        *)
(* strictly in chain order through a channel that holds one block.         *)
(*                                                                         *)
(* Blocks are named by their index into missing_blocks.  A block's body    *)
(* and hash are not represented: a worker only ever pushes a block whose   *)
(* hash is the one it was asked for.  Every `.await` that can block is a   *)
(* step of its own; what happens between two of them is one action.        *)
(***************************************************************************)
EXTENDS Integers, Sequences, FiniteSets

CONSTANTS
  N,              \* number of missing blocks
  BacklogLimit,   \* the 512 of `backlog.len() <= 512`
  InitialWorkers, \* INITIAL_WORKER_COUNT
  MaxWorkers,     \* MAX_WORKERS
  WorkerIds,      \* bound: how many worker tasks one sync may ever spawn
  ReaskAfter,     \* the 1000 ms after which a request is repeated, in clock units
  WriterMayFail   \* whether the block writer task may panic

ASSUME BlockSyncAssumption ==
  /\ N \in Nat \ {0}
  /\ BacklogLimit \in Nat
  /\ InitialWorkers \in Nat \ {0}
  /\ MaxWorkers \in Nat
  /\ WorkerIds \in Nat
  /\ InitialWorkers <= WorkerIds
  /\ ReaskAfter \in Nat
  /\ WriterMayFail \in BOOLEAN

Blocks  == 0..(N - 1)
Workers == 1..WorkerIds

\* last_request_times[i] = 0: never asked for, or already received
NotWaiting == -1
\* an empty slot of the writer's channel, and the payload of PullFirstJob
NoBlock == -1

VARIABLES
  next_to_apply,        \* index of the block the writer needs next
  next_never_asked_for, \* lowest index no worker was ever asked for
  waited,               \* time since last_request_times[i], or NotWaiting
  backlog,              \* indices received ahead of their turn
  tracking,             \* flush_time_tracker is between start() and stop()
  mpc,                  \* where the master task is
  serving,              \* the worker whose push the master is handling
  handles,              \* the Vec of join handles, by worker id
  spawned,              \* how many workers were ever spawned
  inbox,                \* the workers' channel to the master (one message)
  wpc,                  \* where each worker task is
  job,                  \* the block each worker is after
  aborted,              \* workers the master called abort() on
  chan,                 \* the channel to the block writer (one block)
  writer,               \* "alive", or "dead" once the writer task panicked
  received              \* history: what the block writer received, in order

masterVars == <<next_to_apply, next_never_asked_for, waited, backlog, tracking,
                mpc, serving, handles, spawned>>
workerVars == <<inbox, wpc, job, aborted>>
writerVars == <<chan, writer, received>>
vars == <<masterVars, workerVars, writerVars>>

MasterRunning == mpc \notin {"done", "panicked"}
\* the clones of master_tx that tasks still own
Running(w) == wpc[w] \notin {"unborn", "dead"}

-----------------------------------------------------------------------------
(* sync_blocks and the start of run_master: both channels are empty, the    *)
(* initial workers are spawned and nothing was asked for.                   *)
Init ==
  /\ next_to_apply = 0
  /\ next_never_asked_for = 0
  /\ waited = [i \in Blocks |-> NotWaiting]
  /\ backlog = {}
  /\ tracking = FALSE
  /\ mpc = "check"
  /\ serving = 1
  /\ handles = 1..InitialWorkers
  /\ spawned = InitialWorkers
  /\ inbox = {}
  /\ wpc = [w \in Workers |-> IF w <= InitialWorkers THEN "pull" ELSE "unborn"]
  /\ job = [w \in Workers |-> NoBlock]
  /\ aborted = {}
  /\ chan = NoBlock
  /\ writer = "alive"
  /\ received = <<>>

-----------------------------------------------------------------------------
(* find_next_best_job and the reply through the worker's oneshot channel.   *)

\* The requests the scan of last_request_times does not skip.
Waiting(nta, wt) ==
  {i \in nta..(next_never_asked_for - 1) : wt[i] # NotWaiting}

\* `elapsed > 1_000`
Overdue(nta, wt) == {i \in Waiting(nta, wt) : wt[i] > ReaskAfter}

\* The scan keeps the first of the requests that waited longest.
IsOldest(i, nta, wt) ==
  \A j \in Waiting(nta, wt) : wt[j] < wt[i] \/ (wt[j] = wt[i] /\ i <= j)

\* Some(job): a worker that was cancelled meanwhile never sees the answer.
SendJob(w, i, then) ==
  /\ wpc' = [wpc EXCEPT ![w] = IF @ = "await" THEN then ELSE @]
  /\ job' = [job EXCEPT ![w] = IF wpc[w] = "await" THEN i ELSE @]

\* None: dropping the sender makes the worker return.
DropSender(w) ==
  /\ wpc' = [wpc EXCEPT ![w] = IF @ = "await" THEN "exit" ELSE @]
  /\ UNCHANGED job

\* `next_never_asked_for < missing_blocks.len()`
MoreToAskFor_OffByOne == next_never_asked_for <= N
MoreToAskFor == next_never_asked_for < N

\* Answers worker w from the values the handler left in next_to_apply (nta)
\* and last_request_times (wt); the worker goes on at `then`.
FindNextBestJob(w, nta, wt, can_advance, then) ==
  LET overdue == Overdue(nta, wt)
      waiting == Waiting(nta, wt)
  IN
  \/ \* waited too long for some block: ask again for the first such
     /\ \E i \in overdue :
          /\ \A j \in overdue : i <= j
          /\ waited' = [wt EXCEPT ![i] = 0]
          /\ SendJob(w, i, then)
     /\ mpc' = "check"
     /\ UNCHANGED next_never_asked_for
  \/ \* the backlog is full: ask again for the one we waited longest on
     /\ overdue = {} /\ ~can_advance
     /\ \E i \in waiting :
          /\ IsOldest(i, nta, wt)
          /\ waited' = [wt EXCEPT ![i] = 0]
          /\ SendJob(w, i, then)
     /\ mpc' = "check"
     /\ UNCHANGED next_never_asked_for
  \/ \* panic!("uhhh"): the backlog is full but nothing is being waited on
     /\ overdue = {} /\ ~can_advance /\ waiting = {}
     /\ mpc' = "panicked"
     /\ waited' = wt
     /\ UNCHANGED <<next_never_asked_for, wpc, job>>
  \/ \* ask for a new block
     /\ overdue = {} /\ can_advance /\ MoreToAskFor
     /\ waited' = [wt EXCEPT ![next_never_asked_for] = 0]
     /\ next_never_asked_for' = next_never_asked_for + 1
     /\ SendJob(w, next_never_asked_for, then)
     /\ mpc' = "check"
  \/ \* everything was asked for: ask for the needed block, its timer runs on
     /\ overdue = {} /\ can_advance /\ ~MoreToAskFor
     /\ nta < next_never_asked_for
     /\ waited' = wt
     /\ SendJob(w, nta, then)
     /\ mpc' = "check"
     /\ UNCHANGED next_never_asked_for
  \/ \* all blocks are applied: no job for this worker
     /\ overdue = {} /\ can_advance /\ ~MoreToAskFor
     /\ nta >= next_never_asked_for
     /\ waited' = wt
     /\ DropSender(w)
     /\ mpc' = "check"
     /\ UNCHANGED next_never_asked_for

CanAdvance(bl) == Cardinality(bl) <= BacklogLimit

-----------------------------------------------------------------------------
(* run_master and handle_worker_message                                     *)

\* `if master_tx.strong_count() == 1 { break }`: only the master's own
\* sender is left.
MasterCheck ==
  /\ mpc = "check"
  /\ mpc' = IF \E w \in Workers : Running(w) THEN "select" ELSE "done"
  /\ UNCHANGED <<next_to_apply, next_never_asked_for, waited, backlog, tracking,
                 serving, handles, spawned, workerVars, writerVars>>

\* The ten-second tick calls reset() on the tracker, which panics if it runs.
TickPanics ==
  /\ mpc = "select" /\ tracking
  /\ mpc' = "panicked"
  /\ UNCHANGED <<next_to_apply, next_never_asked_for, waited, backlog, tracking,
                 serving, handles, spawned, workerVars, writerVars>>

\* The tick measured a rate r in between: the set of workers is kept.
TickKeep ==
  /\ mpc = "select" /\ ~tracking
  /\ mpc' = "check"
  /\ UNCHANGED <<next_to_apply, next_never_asked_for, waited, backlog, tracking,
                 serving, handles, spawned, workerVars, writerVars>>

\* r >= 0.9: one more worker.
TickSpawn ==
  /\ mpc = "select" /\ ~tracking
  /\ Cardinality(handles) < MaxWorkers
  /\ spawned < WorkerIds
  /\ spawned' = spawned + 1
  /\ handles' = handles \cup {spawned + 1}
  /\ wpc' = [wpc EXCEPT ![spawned + 1] = "pull"]
  /\ mpc' = "check"
  /\ UNCHANGED <<next_to_apply, next_never_asked_for, waited, backlog, tracking,
                 serving, inbox, job, aborted, writerVars>>

\* `workers.len() > 1`
SpareWorker_EvenLast == Cardinality(handles) > 0
SpareWorker == Cardinality(handles) > 1

\* r <= 0.5: the worker spawned last among those in the Vec is aborted.
TickKill ==
  /\ mpc = "select" /\ ~tracking
  /\ SpareWorker
  /\ \E w \in handles :
       /\ \A v \in handles : v <= w
       /\ handles' = handles \ {w}
       /\ aborted' = aborted \cup {w}
  /\ mpc' = "check"
  /\ UNCHANGED <<next_to_apply, next_never_asked_for, waited, backlog, tracking,
                 serving, spawned, inbox, wpc, job, writerVars>>

\* PullFirstJob: answered with can_advance = true whatever the backlog is.
HandlePull ==
  /\ mpc = "select"
  /\ \E m \in inbox :
       /\ m.block = NoBlock
       /\ FindNextBestJob(m.from, next_to_apply, waited, TRUE, "connect")
  /\ inbox' = {}
  /\ UNCHANGED <<next_to_apply, backlog, tracking, serving, handles, spawned,
                 aborted, writerVars>>

\* Marks a block as fetched so that the scan never asks for it again.
MarkFetched_Forgotten(wt, i) == wt
MarkFetched(wt, i) == [wt EXCEPT ![i] = NotWaiting]

\* number > first_missing_number + next_to_apply
Ahead_OrNeeded(i) == i # NoBlock /\ i >= next_to_apply
Ahead(i) == i # NoBlock /\ i > next_to_apply

\* The pushed block is ahead of its turn: kept (once) in the backlog and
\* marked as fetched.
HandleAhead ==
  /\ mpc = "select"
  /\ \E m \in inbox :
       /\ Ahead(m.block)
       /\ backlog' = backlog \cup {m.block}
       /\ FindNextBestJob(m.from, next_to_apply,
                          MarkFetched(waited, m.block),
                          CanAdvance(backlog'), "fetch")
  /\ inbox' = {}
  /\ UNCHANGED <<next_to_apply, tracking, serving, handles, spawned, aborted,
                 writerVars>>

\* The pushed block was applied meanwhile: discarded.
HandleLate ==
  /\ mpc = "select"
  /\ \E m \in inbox :
       /\ m.block # NoBlock /\ m.block < next_to_apply
       /\ FindNextBestJob(m.from, next_to_apply, waited, CanAdvance(backlog), "fetch")
  /\ inbox' = {}
  /\ UNCHANGED <<next_to_apply, backlog, tracking, serving, handles, spawned,
                 aborted, writerVars>>

\* The pushed block is the one needed: start() the tracker, which panics if
\* it runs already, and go on to send the block to the writer.
HandleNeeded ==
  /\ mpc = "select"
  /\ \E m \in inbox :
       /\ m.block = next_to_apply
       /\ serving' = m.from
  /\ inbox' = {}
  /\ mpc' = IF tracking THEN "panicked" ELSE "flush"
  /\ tracking' = TRUE
  /\ UNCHANGED <<next_to_apply, next_never_asked_for, waited, backlog, handles,
                 spawned, wpc, job, aborted, writerVars>>

\* As SendNeeded, but next_to_apply is not advanced.
SendNeeded_NoIncrement ==
  /\ mpc = "flush" /\ writer = "alive" /\ chan = NoBlock
  /\ chan' = next_to_apply
  /\ mpc' = "backlog"
  /\ UNCHANGED <<next_to_apply, next_never_asked_for, waited, backlog, tracking,
                 serving, handles, spawned, workerVars, writer, received>>

\* flush.send of the needed block.  next_to_apply is only read by this task,
\* so its increment, which the code does before the await, is part of the step.
SendNeeded ==
  /\ mpc = "flush" /\ writer = "alive" /\ chan = NoBlock
  /\ chan' = next_to_apply
  /\ next_to_apply' = next_to_apply + 1
  /\ mpc' = "backlog"
  /\ UNCHANGED <<next_never_asked_for, waited, backlog, tracking, serving,
                 handles, spawned, workerVars, writer, received>>

\* flush.send fails: the handler returns at once, the tracker keeps running
\* and the worker's sender is dropped.
SendNeededFails ==
  /\ mpc = "flush" /\ writer = "dead"
  /\ next_to_apply' = next_to_apply + 1
  /\ DropSender(serving)
  /\ mpc' = "check"
  /\ UNCHANGED <<next_never_asked_for, waited, backlog, tracking, serving,
                 handles, spawned, inbox, aborted, writerVars>>

\* The last element of the Vec, which is sorted youngest first, is the block
\* the writer needs now.
BacklogHasNext_WrongEnd ==
  next_to_apply \in backlog /\ \A i \in backlog : i <= next_to_apply
BacklogHasNext == next_to_apply \in backlog

\* One iteration of apply_from_backlog.
ApplyFromBacklog ==
  /\ mpc = "backlog" /\ BacklogHasNext
  /\ writer = "alive" /\ chan = NoBlock
  /\ backlog' = backlog \ {next_to_apply}
  /\ chan' = next_to_apply
  /\ next_to_apply' = next_to_apply + 1
  /\ UNCHANGED <<next_never_asked_for, waited, tracking, mpc, serving, handles,
                 spawned, workerVars, writer, received>>

\* The end of the handler: stop() the tracker and answer the worker.  nta and
\* bl are what apply_from_backlog left in next_to_apply and the backlog.
FinishPush(nta, bl) ==
  /\ tracking' = FALSE
  /\ FindNextBestJob(serving, nta, waited, CanAdvance(bl), "fetch")
  /\ next_to_apply' = nta
  /\ backlog' = bl
  /\ UNCHANGED <<serving, handles, spawned, inbox, aborted, writerVars>>

\* The next block is not in the backlog.
BacklogApplied ==
  /\ mpc = "backlog" /\ ~BacklogHasNext
  /\ FinishPush(next_to_apply, backlog)

\* flush.send fails inside apply_from_backlog: only that function returns,
\* having popped and counted a block the writer never got.
ApplyFromBacklogFails ==
  /\ mpc = "backlog" /\ BacklogHasNext /\ writer = "dead"
  /\ FinishPush(next_to_apply + 1, backlog \ {next_to_apply})

-----------------------------------------------------------------------------
(* run_download_worker                                                      *)

\* fetch_job: PullFirstJob is sent when the channel has room.
WorkerPull(w) ==
  /\ wpc[w] = "pull" /\ MasterRunning /\ inbox = {}
  /\ inbox' = {[from |-> w, block |-> NoBlock]}
  /\ wpc' = [wpc EXCEPT ![w] = "await"]
  /\ UNCHANGED <<masterVars, job, aborted, writerVars>>

\* connect_to_good_peer and the getdata for the job.
WorkerConnect(w) ==
  /\ wpc[w] = "connect"
  /\ wpc' = [wpc EXCEPT ![w] = "fetch"]
  /\ UNCHANGED <<masterVars, inbox, job, aborted, writerVars>>

\* BLOCK_TIMEOUT passes or the connection fails: a new peer, the same job.
WorkerTimeout(w) ==
  /\ wpc[w] = "fetch"
  /\ wpc' = [wpc EXCEPT ![w] = "connect"]
  /\ UNCHANGED <<masterVars, inbox, job, aborted, writerVars>>

\* A peer answers with the block that was asked for.
WorkerReceives(w) ==
  /\ wpc[w] = "fetch"
  /\ wpc' = [wpc EXCEPT ![w] = "push"]
  /\ UNCHANGED <<masterVars, inbox, job, aborted, writerVars>>

\* PushResultAndGetNewJob is sent when the channel has room.
WorkerPush(w) ==
  /\ wpc[w] = "push" /\ MasterRunning /\ inbox = {}
  /\ inbox' = {[from |-> w, block |-> job[w]]}
  /\ wpc' = [wpc EXCEPT ![w] = "await"]
  /\ UNCHANGED <<masterVars, job, aborted, writerVars>>

\* The master is gone: sending fails and pending replies are dropped.
WorkerGivesUp(w) ==
  /\ wpc[w] \in {"pull", "push", "await"} /\ ~MasterRunning
  /\ wpc' = [wpc EXCEPT ![w] = "exit"]
  /\ UNCHANGED <<masterVars, inbox, job, aborted, writerVars>>

\* The task ends, by itself or because of abort(), and drops its sender.
WorkerEnds(w) ==
  /\ \/ wpc[w] = "exit"
     \/ w \in aborted /\ Running(w)
  /\ wpc' = [wpc EXCEPT ![w] = "dead"]
  /\ UNCHANGED <<masterVars, inbox, job, aborted, writerVars>>

-----------------------------------------------------------------------------
(* The block writer as the master sees it: it takes blocks off the channel, *)
(* and its panic closes the channel with whatever is in it.                 *)

WriterReceives ==
  /\ writer = "alive" /\ chan # NoBlock
  /\ received' = Append(received, chan)
  /\ chan' = NoBlock
  /\ UNCHANGED <<masterVars, workerVars, writer>>

WriterFails ==
  /\ WriterMayFail /\ writer = "alive"
  /\ writer' = "dead"
  /\ chan' = NoBlock
  /\ UNCHANGED <<masterVars, workerVars, received>>

\* Time passes; beyond ReaskAfter the code no longer tells times apart.
Elapse ==
  /\ waited' = [i \in Blocks |->
                  IF waited[i] \in 0..ReaskAfter
                  THEN waited[i] + 1 ELSE waited[i]]
  /\ UNCHANGED <<next_to_apply, next_never_asked_for, backlog, tracking, mpc,
                 serving, handles, spawned, workerVars, writerVars>>

\* Both tasks of sync_blocks have ended and so have the workers.
Terminated ==
  /\ ~MasterRunning /\ chan = NoBlock
  /\ \A w \in Workers : ~Running(w)
  /\ UNCHANGED vars

-----------------------------------------------------------------------------
Master ==
  \/ MasterCheck \/ TickPanics \/ TickKeep \/ TickSpawn \/ TickKill
  \/ HandlePull \/ HandleAhead \/ HandleLate \/ HandleNeeded
  \/ SendNeeded \/ SendNeededFails
  \/ ApplyFromBacklog \/ BacklogApplied \/ ApplyFromBacklogFails

Worker(w) ==
  \/ WorkerPull(w) \/ WorkerConnect(w) \/ WorkerTimeout(w) \/ WorkerReceives(w)
  \/ WorkerPush(w) \/ WorkerGivesUp(w) \/ WorkerEnds(w)

Next ==
  \/ Master
  \/ \E w \in Workers : Worker(w)
  \/ WriterReceives \/ WriterFails
  \/ Elapse
  \/ Terminated

Spec == Init /\ [][Next]_vars

(* Tokio runs every task that can run and wakes the senders of a full        *)
(* channel first come, first served; select! picks at random between the     *)
(* tick and a waiting message.  That a worker's peers answer sooner or later *)
(* is the assumption about the network.                                      *)
Handle == HandlePull \/ HandleAhead \/ HandleLate \/ HandleNeeded

Fairness ==
  /\ WF_vars(MasterCheck) /\ SF_vars(Handle)
  /\ WF_vars(SendNeeded \/ SendNeededFails)
  /\ WF_vars(ApplyFromBacklog \/ BacklogApplied \/ ApplyFromBacklogFails)
  /\ WF_vars(TickPanics \/ TickKeep \/ TickSpawn \/ TickKill)
  /\ \A w \in Workers :
       /\ SF_vars(WorkerPull(w)) /\ SF_vars(WorkerPush(w))
       /\ WF_vars(WorkerConnect(w)) /\ SF_vars(WorkerReceives(w))
       /\ WF_vars(WorkerGivesUp(w)) /\ WF_vars(WorkerEnds(w))
  /\ WF_vars(WriterReceives)
  /\ WF_vars(Elapse)

FairSpec == Spec /\ Fairness

-----------------------------------------------------------------------------
(* Properties *)

Messages == [from : Workers, block : Blocks \cup {NoBlock}]
WorkerPcs == {"unborn", "pull", "await", "connect", "fetch", "push", "exit", "dead"}
MasterPcs == {"check", "select", "flush", "backlog", "done", "panicked"}

\* The type invariant.
TypeOK ==
  /\ next_to_apply \in 0..N
  /\ next_never_asked_for \in 0..N
  /\ waited \in [Blocks -> NotWaiting..(ReaskAfter + 1)]
  /\ backlog \in SUBSET Blocks
  /\ tracking \in BOOLEAN
  /\ mpc \in MasterPcs
  /\ serving \in Workers
  /\ handles \in SUBSET (1..spawned)
  /\ spawned \in Workers
  /\ inbox \in SUBSET Messages
  /\ wpc \in [Workers -> WorkerPcs]
  /\ job \in [Workers -> Blocks \cup {NoBlock}]
  /\ aborted \in SUBSET Workers
  /\ chan \in Blocks \cup {NoBlock}
  /\ writer \in {"alive", "dead"}
  /\ received \in Seq(Blocks)

\* backlog and last_request_times agree although they are updated at
\* different places: while the writer lives, the blocks the scan of
\* find_next_best_job skips as "already received" are exactly the blocks in
\* the backlog, so no block is both dropped and never asked for again.
BacklogMatchesRequests ==
  writer = "alive" =>
    backlog = {i \in (next_to_apply + 1)..(next_never_asked_for - 1) :
                 waited[i] = NotWaiting}
              \cup (IF mpc = "backlog" /\ next_to_apply < next_never_asked_for
                       /\ waited[next_to_apply] = NotWaiting
                    THEN {next_to_apply} ELSE {})

\* panic!("uhhh"), the time tracker's panics and therefore the death of the
\* master cannot happen as long as the writer lives.
NoMasterPanic == writer = "alive" => mpc # "panicked"

\* The master leaves its loop, because all workers are gone, only when every
\* block was handed to the writer: killing idle workers on the tick and
\* dropping repeated answers never strands a block.
NoEarlyStop == mpc = "done" /\ writer = "alive" => next_to_apply = N

\* The master and its workers implement the in-order, exactly-once delivery
\* the block writer relies on.
Delivery == INSTANCE OrderedDelivery
              WITH delivered <- received,
                   broken <- (writer = "dead"),
                   finished <- (mpc = "done" /\ chan = NoBlock)
ImplementsDelivery == Delivery!Spec

\* The sync ends: every block reaches the writer and the master stops, with
\* workers aborted at any moment, answers repeated and requests repeated.
SyncCompletes == <>(mpc = "done" /\ Len(received) = N)
=============================================================================

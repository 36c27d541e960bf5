-------------------------------- MODULE Locks --------------------------------
(***************************************************************************)
(* The order in which the tasks take the process-wide locks: CHAIN (the    *)
(* header tree), MINER_DATA (the miner statistics), MINERS_PAGE_DATA and   *)
(* FRONTPAGE_STATS (the pages made from them).  All are std::sync::RwLock, *)
(* which lets nobody read while a writer waits: a task that reads a lock   *)
(* twice, or reads two locks in the wrong order, can therefore be stopped  *)
(* by a writer that waits for it.                                          *)
(*                                                                         *)
(* A handler is the sequence of lock operations it performs: it takes a    *)
(* lock to read ("r") or to write ("w"), or drops a guard ("drop").  Each  *)
(* operation is given with the guards that are held when it begins.  What  *)
(* a handler does under the locks is modelled in KeepUp, Explorer and      *)
(* HeaderChain.                                                            *)
(***************************************************************************)
EXTENDS Integers, Sequences

CONSTANTS
    Chain, Miners, MinersPage, Frontpage,   \* the locks
    Clients                                 \* connections and requests of the HTTP API

ASSUME LocksAssumption ==
    /\ Chain \notin {Miners, MinersPage, Frontpage}
    /\ Miners \notin {MinersPage, Frontpage}
    /\ MinersPage # Frontpage

Op(kind, lock, under) == [kind |-> kind, lock |-> lock, under |-> under]

Under(kind, lock, body) ==
    <<Op(kind, lock, {})>>
      \o [i \in DOMAIN body |->
            Op(body[i].kind, body[i].lock, body[i].under \cup {<<kind, lock>>})]
      \o <<Op("drop", lock, {<<kind, lock>>})>>

Reading(lock) == Under("r", lock, <<>>)
Writing(lock) == Under("w", lock, <<>>)

\* keepup::handle_new_header: the read lock is dropped before the write lock
\* is asked for.
HandleNewHeader_Upgrade == Under("r", Chain, Writing(Chain))
HandleNewHeader == Reading(Chain) \o Writing(Chain)

\* callback_chain_extended: update_page_data is called under the write lock.
Extend == Under("w", Miners, Writing(MinersPage))

\* callback_config_updated: the rules and the counts are replaced under the
\* write lock, which is held over get_top_synced_header_hash and
\* get_blocks_with_timestamps_and_coinbase_asciis.
Recount == Under("w", Miners, Reading(Chain) \o Reading(Chain) \o Writing(MinersPage))

\* callback_chain_reorg: the same with a top that is given.
RecountFrom == Under("w", Miners, Reading(Chain) \o Writing(MinersPage))

\* update_frontpage_data: calculate_stats reads CHAIN on its own; then CHAIN
\* is held over the miner of each block and the new page.
UpdateFrontpage ==
    Reading(Chain) \o Under("r", Chain, Reading(Miners) \o Writing(Frontpage))

\* generate_frontpage_data takes every lock on its own.
GenerateFrontpage ==
    Reading(Chain) \o Reading(Chain) \o Reading(Miners) \o Writing(Frontpage)

\* keepup::handle_new_block, from mark_as_downloaded on.
ApplyBlock == Writing(Chain) \o Extend \o UpdateFrontpage
ApplyFork == Writing(Chain) \o RecountFrom \o GenerateFrontpage

\* chainman::start: the recount after the headers were loaded is a Recount; then
\* need_ihd, the blocks to download, and the first page.
Start == Reading(Chain) \o Writing(Chain) \o GenerateFrontpage

\* blocksync's writer, after write_analyzed_txs.
FinishBatch == Reading(Chain) \o Extend \o Writing(Chain) \o UpdateFrontpage

\* handle_packet_during_headersync: need_ihd reads CHAIN under CHAIN.
SyncHeaders == Writing(Chain) \o Under("r", Chain, Reading(Chain))

\* get_miner_blocks: get_block_data reads CHAIN and then MINER_DATA again.
MinerPage == Under("r", Miners, Reading(Chain) \o Reading(Miners))

\* get_block_data for a page of the chain, the pages themselves, and whatever
\* only looks up a header or a miner.
BlockPage == Reading(Chain) \o Reading(Miners)
MinersPageData == Reading(MinersPage)
FrontPage == Reading(Frontpage)
Lookups == {Reading(Chain), Reading(Miners)}

\* Who may run what: the sync task, the chain watcher, the task that watches
\* miners.yml, and everybody else.
Tasks == {"sync", "watcher", "config"} \cup Clients

Programs(t) ==
    CASE t = "sync" -> {Recount, Start, SyncHeaders, FinishBatch}
      [] t = "watcher" -> {HandleNewHeader, ApplyBlock, ApplyFork}
      [] t = "config" -> {Recount}
      [] OTHER -> {MinerPage, BlockPage, MinersPageData, FrontPage} \cup Lookups

VARIABLES
    program,    \* the handler each task runs
    counter,    \* how many of its operations are done
    queued      \* tasks that wait as writers

lockVars == <<program, counter, queued>>

LocksInit ==
    /\ program = [t \in Tasks |-> <<>>]
    /\ counter = [t \in Tasks |-> 0]
    /\ queued = {}

Running(t) == counter[t] < Len(program[t])

Next_op(t) == program[t][counter[t] + 1]

Asks(t, kind, lock) == Running(t) /\ Next_op(t).kind = kind /\ Next_op(t).lock = lock

HoldsWrite(t, lock) == Running(t) /\ <<"w", lock>> \in Next_op(t).under

Holds(t, lock) == HoldsWrite(t, lock) \/ (Running(t) /\ <<"r", lock>> \in Next_op(t).under)

\* RwLock::read waits for a writer that has the lock or is queued for it,
\* RwLock::write for everybody who has it.  External: std.
MayRead(lock) ==
    \A t \in Tasks : ~HoldsWrite(t, lock) /\ ~(t \in queued /\ Asks(t, "w", lock))

MayWrite(lock) == \A t \in Tasks : ~Holds(t, lock)

Ready(t) ==
    LET op == Next_op(t)
    IN  CASE op.kind = "r" -> MayRead(op.lock)
          [] op.kind = "w" -> MayWrite(op.lock)
          [] OTHER -> TRUE

Begin(t, p) ==
    /\ ~Running(t)
    /\ program' = [program EXCEPT ![t] = p]
    /\ counter' = [counter EXCEPT ![t] = 0]
    /\ UNCHANGED queued

Enqueue(t) ==
    /\ Running(t) /\ t \notin queued
    /\ Next_op(t).kind = "w"
    /\ ~Ready(t)
    /\ queued' = queued \cup {t}
    /\ UNCHANGED <<program, counter>>

Step(t) ==
    /\ Running(t)
    /\ Ready(t)
    /\ counter' = [counter EXCEPT ![t] = @ + 1]
    /\ queued' = queued \ {t}
    /\ UNCHANGED program

LocksNext ==
    \E t \in Tasks : Step(t) \/ Enqueue(t) \/ \E p \in Programs(t) : Begin(t, p)

LocksSpec == LocksInit /\ [][LocksNext]_lockVars

(***************************************************************************)
(* Properties.                                                             *)
(***************************************************************************)
\* u is a reason why t has to wait.
Stops(u, t) ==
    LET lock == Next_op(t).lock
    IN  \/ Holds(u, lock) /\ (Next_op(t).kind = "w" \/ HoldsWrite(u, lock))
        \/ u \in queued /\ Asks(u, "w", lock) /\ Next_op(t).kind = "r"

Blocked == {t \in Tasks : Running(t) /\ ~Ready(t)}

\* The tasks that wait for each other: every one of them is blocked by one
\* that is blocked.
Deadlocked == UNION {D \in SUBSET Blocked : \A t \in D : \E u \in D : Stops(u, t)}

\* Tasks can block each other for ever, but only in one way: one of them is
\* queued to write CHAIN or MINER_DATA, and another asks to read the same lock
\* while it holds MINER_DATA or that lock.  The chain watcher's read and write
\* of CHAIN, the pages built under CHAIN and MINER_DATA and any number of other
\* requests never suffice: without the nested reads of the recounts,
\* get_miner_blocks and need_ihd there would be no deadlock.
DeadlockNeedsNestedRead ==
    Deadlocked # {} =>
        \E t, u \in Deadlocked, lock \in {Chain, Miners} :
            /\ u \in queued /\ Asks(u, "w", lock)
            /\ Asks(t, "r", lock)
            /\ Holds(t, Miners) \/ Holds(t, lock)
=============================================================================

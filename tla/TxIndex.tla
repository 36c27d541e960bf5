------------------------------- MODULE TxIndex -------------------------------
(***************************************************************************)
(* The transaction store and the pages read from it: analysed transactions *)
(* with the block they are in, who spends an output, and the entries of    *)
(* an address (tx/mod.rs, db/rocksdb.rs, api/tx.rs, api/address.rs).  The  *)
(* stores keep one value per key and nothing is ever deleted: when two     *)
(* forks hold the same transaction the block written last wins, and the    *)
(* readers drop what is not on the most-work chain.  A fork that is        *)
(* adopted is therefore applied again from the split on, blocks that were  *)
(* applied before included, while a restart downloads only what is not     *)
(* flagged as fetched.                                                     *)
(*                                                                         *)
(* Headers are kept by HeaderChain's rules: a tip with as much work wins.  *)
(* One block is written to the three stores in any order, and flagged when *)
(* the three tasks have ended, those that failed included.                 *)
(***************************************************************************)
EXTENDS BlockTree, FiniteSetsExt

CONSTANTS
    Time,           \* Time[b], the timestamp of its header
    TxsOf,          \* TxsOf[b], the transactions in it (numbers, as hashes are ordered)
    Spends,         \* Spends[x], the outputs a transaction spends
    Pays,           \* Pays[x], the <<address, value>> of its inputs (< 0) and outputs
    PageSizes,      \* limits that a client of the address pages may give
    MayFail         \* bound: blocks of which a write may fail

Transactions == UNION {TxsOf[b] : b \in Blocks}
SpentIn(b) == UNION {Spends[x] : x \in TxsOf[b]}

\* Writing c replaces values of b: the blocks share a transaction, or spend the
\* same output in two that conflict.
Overwrites(c, b) == TxsOf[b] \cap TxsOf[c] # {} \/ SpentIn(b) \cap SpentIn(c) # {}

\* A chain holds a transaction once and spends an output once.  This is what
\* the network checks before it builds on a block; the code does not check it.
ASSUME IndexAssumption ==
    /\ \A c \in Blocks : \A a, b \in ToSet(PathTo[c]) : a # b => ~Overwrites(a, b)
    /\ \A b \in Blocks : \A x, y \in TxsOf[b] : x # y => Spends[x] \cap Spends[y] = {}

ASSUME PagesAssumption ==
    /\ \A b \in Blocks :
          /\ TxsOf[b] \subseteq Nat /\ IsFiniteSet(TxsOf[b])
          /\ Time[b] \in Nat /\ (TxsOf[b] # {} => Time[b] > 0)
          /\ \A x \in TxsOf[b] : IsFiniteSet(DOMAIN Pays[x])
    /\ PageSizes \subseteq Nat \ {0}

VARIABLES
    headers,        \* known_headers
    tip,            \* top_header
    flagged,        \* blocks with fetched_full
    todo,           \* the chain watcher's queue, or the blocks to sync
    mode,           \* "loading" until the blocks to download are fixed
    written,        \* stores whose task for the first block of todo has ended
    failed,         \* those of them that were not written
    txBlock,        \* TXS_DB: the block of each transaction stored
    spentBy,        \* TXSPENDS_DB: which transaction of which block spends an output
    entries,        \* ADDRESSES_DB
    beaten,         \* history: flagged blocks some key of which is not in the stores
    missed          \* history: beaten blocks that nothing is going to apply again

indexVars == <<headers, tip, flagged, todo, mode, written, failed, txBlock,
               spentBy, entries, beaten, missed>>

Stores == {"txs", "spends", "addresses"}
NoBlock == "none"

MostWork == ToSet(PathTo[tip])       \* most_work_chain

IndexInit ==
    /\ headers = {Genesis}
    /\ tip = Genesis
    /\ flagged = {Genesis}
    /\ todo = <<>>
    /\ mode = "running"
    /\ written = {} /\ failed = {}
    /\ txBlock = [x \in Transactions |-> NoBlock]
    /\ spentBy = {} /\ entries = {}
    /\ beaten = {} /\ missed = {}

---------------------------------------------------------------------------
(* Headers. *)

AddedBlocks_Unfetched(new) == Filtered(PathTo[new], Blocks \ (MostWork \cup flagged))

\* added_blocks of validate_and_apply_header_inner: everything since the split.
AddedBlocks(new) == Filtered(PathTo[new], Blocks \ MostWork)

\* The chain watcher queues what a better tip adds; the header sync, before
\* the blocks to download are fixed, only moves the tip.
NewHeader(b) ==
    /\ b \in Blocks \ headers
    /\ Parent[b] \in headers
    /\ headers' = headers \cup {b}
    /\ IF Work[b] >= Work[tip]
       THEN /\ tip' = b
            /\ todo' = IF mode = "running" THEN todo \o AddedBlocks(b) ELSE todo
       ELSE UNCHANGED <<tip, todo>>
    /\ UNCHANGED <<flagged, mode, written, failed, txBlock, spentBy, entries, beaten, missed>>

\* get_block_hashes_to_download: back from the tip to a fetched block.
BlocksToDownload ==
    LET path == PathTo[tip]
        last == Max({i \in 1 .. Len(path) : path[i] \in flagged})
    IN  SubSeq(path, last + 1, Len(path))

\* The process stops; what is in memory is gone.
Restart ==
    /\ mode' = "loading"
    /\ todo' = <<>>
    /\ written' = {} /\ failed' = {}
    /\ UNCHANGED <<headers, tip, flagged, txBlock, spentBy, entries, beaten, missed>>

StartDownload ==
    /\ mode = "loading"
    /\ mode' = "running"
    /\ todo' = BlocksToDownload
    /\ missed' = missed \cup (beaten \cap MostWork \cap flagged)
    /\ UNCHANGED <<headers, tip, flagged, written, failed, txBlock, spentBy, entries, beaten>>

---------------------------------------------------------------------------
(* Writing a block. *)

\* get_address_from_script_copy_into_arena_with_txhash: the key sorts newer
\* transactions of an address first.
Key(account, b, x) == [account |-> account, time |-> Time[b], tx |-> x]

Net(a, x) == FoldLeft(LAMBDA sum, pay : IF pay[1] = a THEN sum + pay[2] ELSE sum, 0, Pays[x])

\* serialize_address_amends, sorted by key, and the merge in
\* write_analyzed_txs: one entry per address, with the sum of what it gained
\* and lost.
Amends(b, x) ==
    {[key |-> Key(a, b, x), block |-> b, delta |-> Net(a, x)] :
        a \in {Pays[x][i][1] : i \in DOMAIN Pays[x]}}

AllAmends(b) == UNION {Amends(b, x) : x \in TxsOf[b]}

WriteTxs(b) ==
    txBlock' = [x \in Transactions |-> IF x \in TxsOf[b] THEN b ELSE txBlock[x]]

AllSpends(b) ==
    UNION {{[output |-> o, tx |-> x, block |-> b] : o \in Spends[x]} : x \in TxsOf[b]}

WriteSpends(b) ==
    spentBy' = AllSpends(b) \cup {s \in spentBy : s.output \notin SpentIn(b)}

WriteAddresses(b) ==
    entries' = AllAmends(b) \cup
               {e \in entries : \A n \in AllAmends(b) : n.key # e.key}

\* write_analyzed_txs: the stores are written concurrently.
Write(store) ==
    /\ todo # <<>> /\ store \in Stores \ written
    /\ written' = written \cup {store}
    /\ IF store = "txs" THEN WriteTxs(todo[1]) ELSE UNCHANGED txBlock
    /\ IF store = "spends" THEN WriteSpends(todo[1]) ELSE UNCHANGED spentBy
    /\ IF store = "addresses" THEN WriteAddresses(todo[1]) ELSE UNCHANGED entries
    /\ beaten' = beaten \cup {b \in flagged \ {todo[1]} : Overwrites(todo[1], b)}
    /\ UNCHANGED <<headers, tip, flagged, todo, mode, failed, missed>>

\* The ingest into one store fails and its task panics.
WriteFails(store) ==
    /\ todo # <<>> /\ store \in Stores \ written
    /\ todo[1] \in MayFail
    /\ written' = written \cup {store}
    /\ failed' = failed \cup {store}
    /\ UNCHANGED <<headers, tip, flagged, todo, mode, txBlock, spentBy, entries,
                   beaten, missed>>

\* mark_blocks_as_downloaded and mark_as_downloaded, when every task has
\* ended: scope_and_block returns what became of them, and nobody looks.
Flag ==
    /\ todo # <<>> /\ written = Stores
    /\ flagged' = flagged \cup {todo[1]}
    /\ IF failed = {}
       THEN beaten' = beaten \ {todo[1]} /\ missed' = missed \ {todo[1]}
       ELSE beaten' = beaten \cup {todo[1]} /\ missed' = missed \cup {todo[1]}
    /\ todo' = Tail(todo)
    /\ written' = {} /\ failed' = {}
    /\ UNCHANGED <<headers, tip, mode, txBlock, spentBy, entries>>

IndexNext ==
    \/ Restart \/ StartDownload \/ Flag
    \/ \E b \in Blocks : NewHeader(b)
    \/ \E s \in Stores : Write(s) \/ WriteFails(s)

IndexSpec == IndexInit /\ [][IndexNext]_indexVars

---------------------------------------------------------------------------
(* Reading. *)

\* txdata: the block of a transaction, found by its stored hash.
TxPage(x) == txBlock[x]

\* get_tx_spends and filter_tx_spends: who spends the outputs.
SpendsShown ==
    {[output |-> s.output, tx |-> s.tx] : s \in {r \in spentBy : r.block \in MostWork}}

\* The order of the keys of one address: newer first.
Before(e, f) == \/ e.key.time > f.key.time
                \/ e.key.time = f.key.time /\ e.key.tx < f.key.tx

Sorted(account) ==
    LET own == {e \in entries : e.key.account = account}
    IN  [i \in 1 .. Cardinality(own) |->
           CHOOSE e \in own : Cardinality({f \in own : Before(f, e)}) = i - 1]

First(count, s) == IF count >= Len(s) THEN s ELSE SubSeq(s, 1, count)

\* The loops stop when the limit is reached, after an entry was added: a
\* limit of 0 is none.
UpTo(limit, s) == IF limit = 0 THEN s ELSE First(limit, s)

\* The readers are given the entries of an address in the order of their keys.
\* get_address_entires: between two times, the earlier one excluded.
AddressEntries(all, from, to, limit) ==
    UpTo(limit, Filtered(all, {e \in ToSet(all) : from < e.key.time /\ e.key.time <= to}))

\* get_top_address_data: the first entries, and totals over all of them.
TopAddressData(all, count) ==
    [transactions |-> First(count, all),
     total_txs |-> Len(all),
     total_received |-> FoldLeft(LAMBDA sum, e : IF e.delta < 0 THEN sum ELSE sum + e.delta, 0, all),
     total_spent |-> FoldLeft(LAMBDA sum, e : IF e.delta < 0 THEN sum - e.delta ELSE sum, 0, all)]

\* iterator.seek: from the key of an entry on.
Seek(all, after) ==
    Filtered(all, {e \in ToSet(all) : \/ e.key.time < after.key.time
                                      \/ e.key.time = after.key.time /\ e.key.tx >= after.key.tx})

AddressEntriesContinue_Inclusive(all, after, limit) == UpTo(limit, Seek(all, after))

\* get_address_entires_continue: seek to the key of the last transaction
\* shown, step over it.
AddressEntriesContinue(all, after, limit) ==
    LET rest == Seek(all, after)
    IN  UpTo(limit, IF rest = <<>> THEN rest ELSE Tail(rest))

\* filter_and_populate_address_txs.  The handlers sort the result by its times,
\* in which order it is already.
OnChain(page) == LET chain == MostWork IN Filtered(page, {e \in ToSet(page) : e.block \in chain})

\* A client that asks for page after page until it gets an empty one.
NextPage(all, limit, w) ==
    IF w.page = <<>> THEN w
    ELSE [shown |-> w.shown \o w.page,
          page |-> OnChain(AddressEntriesContinue(all, Last(w.page), limit))]

Walk(all, limit, requests) ==
    LET after[n \in 0 .. requests] ==
          IF n = 0 THEN [shown |-> <<>>, page |-> OnChain(TopAddressData(all, limit).transactions)]
          ELSE NextPage(all, limit, after[n - 1])
    IN  after

(***************************************************************************)
(* Properties.                                                             *)
(***************************************************************************)
Settled == mode = "running" /\ todo = <<>>

\* What the chain says, from the blocks themselves.
Held(b) == [txs |-> TxsOf[b],
            spends |-> UNION {{[output |-> o, tx |-> x] : o \in Spends[x]} : x \in TxsOf[b]},
            entries |-> AllAmends(b)]

\* Whenever the queue has run empty, through any sequence of forks, of forks
\* back to a branch applied before, of restarts in the middle of a write and
\* of writes that fail: every transaction of the chain is stored with its own
\* block, its spends are shown, its address entries are shown, and nothing of
\* an abandoned branch is.  There are two exceptions.  One is a block that was
\* abandoned, overwritten by the other branch, and is on the chain again when
\* a restart fixes the blocks to download: get_block_hashes_to_download takes
\* its flag to mean that it is in the stores, whether or not the chain watcher
\* had begun to apply it again.  The other is a block a store of which could
\* not be written when it was last applied: it is flagged all the same.
IndexExact ==
    Settled =>
        /\ \A b \in MostWork \ (missed \cup {Genesis}) :
              /\ \A x \in Held(b).txs : TxPage(x) = b
              /\ Held(b).spends \subseteq SpendsShown
              /\ Held(b).entries \subseteq entries
        /\ SpendsShown \subseteq UNION {Held(b).spends : b \in MostWork}
        /\ {e \in entries : e.block \in MostWork} \subseteq UNION {Held(b).entries : b \in MostWork}

\* Walking the pages of an address from the top never shows an entry twice
\* and never jumps over one: it shows the entries of the chain from the newest
\* on, all of them unless as many entries of an abandoned branch as fill a
\* page stand in the way and the client is handed an empty page.
WalkComplete(all, limit) ==
    LET shown == OnChain(all)
        walked == Walk(all, limit, Len(all) + 1)[Len(all) + 1].shown
        gap == \E i \in 1 .. Len(all) - limit + 1 :
                  \A j \in i .. i + limit - 1 : all[j].block \notin MostWork
    IN  /\ IsPrefix(walked, shown)
        /\ ~gap => walked = shown

\* Two periods of which one ends where the other begins show what the whole
\* period shows, and a period from the beginning to the last block everything.
PeriodsJoin(all) ==
    LET Times == {Time[b] : b \in Blocks}
    IN  /\ \A from, mid, to \in Times :
              from <= mid /\ mid <= to =>
                  AddressEntries(all, mid, to, 0) \o AddressEntries(all, from, mid, 0)
                      = AddressEntries(all, from, to, 0)
        /\ \A to \in Times :
              (\A time \in Times : time <= to) => AddressEntries(all, 0, to, 0) = all

\* Every way to read the entries of an address, at any moment, shows each of
\* them once and in order.
PagesComplete ==
    \A account \in {e.key.account : e \in entries} :
        LET all == Sorted(account)
        IN  /\ ToSet(all) = {e \in entries : e.key.account = account}
            /\ PeriodsJoin(all)
            /\ \A limit \in PageSizes : WalkComplete(all, limit)
=============================================================================

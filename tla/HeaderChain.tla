----------------------------- MODULE HeaderChain -----------------------------
(***************************************************************************)
(* The block header tree chainman keeps in CHAIN (chainman/mod.rs and      *)
(* chainman/chain.rs): which headers are known, which one is the top of    *)
(* the most-work chain, which bodies are on disk, and the three derived    *)
(* structures that have to follow the top: the hash set most_work_chain,   *)
(* the index number_to_hash and the counter DOWNLOADED_BLOCKS.             *)
(*                                                                         *)
(* The tree of all headers that may ever be announced is a constant; the   *)
(* order in which headers are learned is up to the module that extends     *)
(* this one.  A header's parent, height and accumulated work are facts of  *)
(* the tree: the code computes them from the parent when it first sees the *)
(* header and never changes them.                                          *)
(***************************************************************************)
EXTENDS Integers, Sequences, FiniteSets

CONSTANTS
  Headers,    \* every header that may be announced
  Genesis,    \* GENESIS_HEADER
  Parent,     \* header.parent (genesis: itself)
  Number,     \* BlockHeaderWithNumber.number
  TotalWork,  \* BlockHeaderWithNumber.total_work
  WrongBits,  \* headers whose bits are not get_next_bits_required(parent)
  NoHash      \* a number that number_to_hash has no entry for

ASSUME TreeAssumption ==
  /\ Genesis \in Headers
  /\ NoHash \notin Headers
  /\ Parent \in [Headers -> Headers]
  /\ Parent[Genesis] = Genesis
  /\ Number \in [Headers -> Nat]
  /\ Number[Genesis] = 0
  /\ \A h \in Headers \ {Genesis} : Number[h] = Number[Parent[h]] + 1
  /\ TotalWork \in [Headers -> Nat]
  /\ \A h \in Headers \ {Genesis} : TotalWork[Parent[h]] < TotalWork[h]
  /\ WrongBits \subseteq Headers \ {Genesis}

\* What following `parent` from a header visits, the header included.
ClosedUnderParent(S) == \A h \in S : Parent[h] \in S
Ancestors ==
  [h \in Headers |->
     {a \in Headers : \A S \in SUBSET Headers :
                        h \in S /\ ClosedUnderParent(S) => a \in S}]

\* Following `parent` always ends in the genesis header.
ASSUME RootedAssumption == \A h \in Headers : Genesis \in Ancestors[h]

Numbers == {Number[h] : h \in Headers}

VARIABLES
  known_headers,     \* the keys of Chain.known_headers
  fetched_full,      \* the known headers whose body is on disk
  top_header,        \* Chain.top_header
  top_fetched,       \* fetched_full of the copy stored in Chain.top_header
  most_work_chain,   \* Chain.most_work_chain
  number_to_hash,    \* Chain.number_to_hash
  DOWNLOADED_BLOCKS, \* the counter behind get_block_hashes_to_download
  poisoned           \* a task panicked while it held CHAIN's write lock

chainVars == <<known_headers, fetched_full, top_header, top_fetched,
               most_work_chain, number_to_hash, DOWNLOADED_BLOCKS, poisoned>>

ChainTypeOK ==
  /\ known_headers \subseteq Headers
  /\ fetched_full \subseteq Headers
  /\ top_header \in known_headers
  /\ top_fetched \in BOOLEAN
  /\ most_work_chain \subseteq Headers
  /\ number_to_hash \in [Numbers -> Headers \cup {NoHash}]
  /\ DOWNLOADED_BLOCKS \in Nat
  /\ poisoned \in BOOLEAN

-----------------------------------------------------------------------------
(* Walks over the chain that ends in a given top header.                    *)

Highest(S) == CHOOSE h \in S : \A g \in S : Number[g] <= Number[h]

\* get_ancestor: the ancestor of h at height n
AncestorAt(h, n) == CHOOSE a \in Ancestors[h] : Number[a] = n

\* The headers on top's chain that a walk sees as fetched: it reads the flag
\* of the top from Chain.top_header and the others from known_headers.
SeenFetched(top, top_flag, fetched) ==
  {h \in Ancestors[top] : IF h = top THEN top_flag ELSE h \in fetched}

\* calculate_downloaded_blocks stops at the first fetched header it meets.
calculate_downloaded_blocks_AsIndex(top, top_flag, fetched) ==
  LET seen == SeenFetched(top, top_flag, fetched)
  IN  IF seen = {} THEN -1 ELSE Number[Highest(seen)]
calculate_downloaded_blocks(top, top_flag, fetched) ==
  LET seen == SeenFetched(top, top_flag, fetched)
  IN  IF seen = {} THEN 0 ELSE Number[Highest(seen)] + 1

\* get_top_synced_header_hash takes the top's flag from known_headers, too.
get_top_synced_header_hash(top, fetched) ==
  LET seen == Ancestors[top] \cap fetched
  IN  IF seen = {} THEN NoHash ELSE Highest(seen)

\* get_block_hashes_to_download, as a set (its order is that of Number): the
\* top itself, then down to the first header below it that is fetched.
get_block_hashes_to_download(top, fetched, downloaded) ==
  IF downloaded > Number[top] THEN {}
  ELSE {top} \cup
       {h \in Ancestors[top] :
          \A g \in Ancestors[top] \ {top} : h \in Ancestors[g] => g \notin fetched}

\* generate_top_work_chain_hashset
generate_number_to_hash(top) ==
  [n \in Numbers |-> IF n <= Number[top] THEN AncestorAt(top, n) ELSE NoHash]

-----------------------------------------------------------------------------
(* load_headers_from_sqlite, on top of get_all_headers: rows whose parent   *)
(* row is missing are dropped, and a row counts as fetched only if all of   *)
(* its ancestors do.  Any header with maximal work may come first.          *)
LoadHeaders(known, fetched, top) ==
  /\ Genesis \in known
  /\ ClosedUnderParent(known)
  /\ known \cap WrongBits = {}
  /\ fetched \subseteq known
  /\ ClosedUnderParent(fetched)
  /\ top \in known
  /\ \A h \in known : TotalWork[h] <= TotalWork[top]
  /\ known_headers = known
  /\ fetched_full = fetched
  /\ top_header = top
     \* the genesis header of Chain::default() is never replaced by its row
  /\ top_fetched = (top \in fetched /\ top # Genesis)
  /\ most_work_chain = Ancestors[top]
  /\ number_to_hash = generate_number_to_hash(top)
  /\ DOWNLOADED_BLOCKS = calculate_downloaded_blocks(top, top_fetched, fetched)
  /\ poisoned = FALSE

-----------------------------------------------------------------------------
(* validate_and_apply_header_inner                                          *)

\* Not ignored as already known, as an orphan or for its difficulty bits.
Acceptable(h) ==
  /\ h \notin known_headers
  /\ Parent[h] \in known_headers
  /\ h \notin WrongBits

\* `new_header.total_work < w.top_header.total_work`
LessWork(h) == TotalWork[h] < TotalWork[top_header]

IsExtension(h) == Parent[h] = top_header

\* The search for "the block that's on the main chain with the same block
\* number as the parent" runs past genesis and unwraps None.
WalkPanics(h) == ~IsExtension(h) /\ Number[Parent[h]] > Number[top_header]

\* The header where the walks back from the new and the old top meet.
ForkPoint(h) ==
  CHOOSE p \in Ancestors[h] \cap Ancestors[top_header] :
    \E x \in Ancestors[h] \ Ancestors[top_header] : Parent[x] = p

\* HeaderApplicationResult.added_blocks, oldest to newest.  The walk records
\* every header but the new top one height too high: from_new_number starts
\* at the new header's own number and is paired with its parent.
AddedBlocks_TopOnly(h) == << [hash |-> h, number |-> Number[h]] >>
AddedBlocks(h) ==
  LET base == Number[ForkPoint(h)]
      len  == Number[h] - base
  IN  [k \in 1..len |->
         [hash   |-> AncestorAt(h, base + k),
          number |-> IF k = len THEN base + k ELSE base + k + 1]]

\* HeaderApplicationResult.removed_blocks
RemovedBlocks_None(h) == {}
RemovedBlocks(h) == Ancestors[top_header] \ Ancestors[h]

\* Chain::update_most_work_chain: later entries overwrite earlier ones.
UpdateMostWorkChain(removed, added) ==
  /\ most_work_chain' = (most_work_chain \ removed)
                          \cup {added[k].hash : k \in DOMAIN added}
  /\ number_to_hash' =
       [n \in Numbers |->
          LET at == {k \in DOMAIN added : added[k].number = n}
          IN  IF at = {} THEN number_to_hash[n]
              ELSE added[CHOOSE k \in at : \A j \in at : j <= k].hash]

\* The header is new but has less work than the top.
InsertHeader(h) ==
  /\ LessWork(h)
  /\ known_headers' = known_headers \cup {h}
  /\ UNCHANGED <<fetched_full, top_header, top_fetched, most_work_chain,
                 number_to_hash, DOWNLOADED_BLOCKS, poisoned>>

\* is_headersync: only the top moves, the caller fixes the rest at the end.
MoveTopDuringHeadersync(h) ==
  /\ ~LessWork(h)
  /\ known_headers' = known_headers \cup {h}
  /\ top_header' = h
  /\ top_fetched' = FALSE
  /\ UNCHANGED <<fetched_full, most_work_chain, number_to_hash,
                 DOWNLOADED_BLOCKS, poisoned>>

\* The new header becomes the top, by extension or by a reorganisation, and
\* handle_new_header updates the chain's indexes under the same lock.
MoveTop(h) ==
  /\ ~LessWork(h) /\ ~WalkPanics(h)
  /\ known_headers' = known_headers \cup {h}
  /\ top_header' = h
  /\ top_fetched' = FALSE
  /\ UpdateMostWorkChain(RemovedBlocks(h), AddedBlocks(h))
  /\ DOWNLOADED_BLOCKS' =
       IF IsExtension(h) THEN DOWNLOADED_BLOCKS
       ELSE calculate_downloaded_blocks(h, FALSE, fetched_full)
  /\ UNCHANGED <<fetched_full, poisoned>>

PanicInWalk(h) ==
  /\ ~LessWork(h) /\ WalkPanics(h)
  /\ known_headers' = known_headers \cup {h}
  /\ poisoned' = TRUE
  /\ UNCHANGED <<fetched_full, top_header, top_fetched, most_work_chain,
                 number_to_hash, DOWNLOADED_BLOCKS>>

\* `w.top_header.fetched_full = w.known_headers.get(..).fetched_full`
TopFlag_Stale(fetched) == top_fetched
TopFlag(fetched) == top_header \in fetched

mark_as_downloaded(blocks) ==
  /\ fetched_full' = fetched_full \cup blocks
  /\ top_fetched' = TopFlag(fetched_full \cup blocks)
  /\ DOWNLOADED_BLOCKS' =
       calculate_downloaded_blocks(top_header, TopFlag(fetched_full \cup blocks),
                                   fetched_full \cup blocks)
  /\ UNCHANGED <<known_headers, top_header, most_work_chain, number_to_hash,
                 poisoned>>

=============================================================================

---------------------------- MODULE TxIndexProofs ----------------------------
(***************************************************************************)
(* For every finite tree of blocks and all transactions in them, through   *)
(* any forks and restarts: when the queue has run empty the stores hold    *)
(* the most-work chain, but for the blocks that a restart passed over and  *)
(* those that could not be written.                                        *)
(*                                                                         *)
(* IndexExact says nothing while blocks are queued.  The invariant says    *)
(* which blocks are in the stores at any time (KeptInv), what the queue    *)
(* will bring back of the chain (CoverInv), and why writing the blocks of  *)
(* an abandoned branch that are still queued does no harm: whatever they   *)
(* overwrite of the chain is queued behind them (LaterInv).                *)
(*                                                                         *)
(* At any moment the pages of an address show its entries once and in      *)
(* order, whatever the size of a page.  The store is a finite set with one *)
(* entry per key (EntriesFinite, KeysUnique), so that the keys order it    *)
(* (RankedFacts); a client who follows the pages has at all times been     *)
(* shown what is on the chain of a first part of that list, and holds the  *)
(* next page of the rest (Reached).                                        *)
(***************************************************************************)
EXTENDS TxIndex, BlockTreeProofs

---------------------------------------------------------------------------
(* The inductive invariant. *)

HasTxs(b) == \A x \in TxsOf[b] : txBlock[x] = b
HasSpends(b) == AllSpends(b) \subseteq spentBy
HasEntries(b) == AllAmends(b) \subseteq entries
Stored(b) == HasTxs(b) /\ HasSpends(b) /\ HasEntries(b)

IndexTyped ==
  /\ tip \in Blocks
  /\ flagged \subseteq Blocks /\ Genesis \in flagged /\ beaten \subseteq flagged
  /\ todo \in Seq(Blocks)
  /\ mode \in {"loading", "running"} /\ (mode = "loading" => todo = <<>>)
  /\ written \subseteq Stores /\ (todo = <<>> => written = {})
  /\ failed \subseteq written
  /\ txBlock \in [Transactions -> Blocks \cup {NoBlock}]

\* What is stored comes from the block it names.
OriginInv ==
  /\ \A s \in spentBy : s.block \in Blocks /\ s \in AllSpends(s.block)
  /\ \A e \in entries : e.block \in Blocks /\ e \in AllAmends(e.block)

\* The stores written for the first block of the queue have it.
WrittenInv ==
  /\ "txs" \in written \ failed => HasTxs(todo[1])
  /\ "spends" \in written \ failed => HasSpends(todo[1])
  /\ "addresses" \in written \ failed => HasEntries(todo[1])

\* A flagged block is in the stores unless another one overwrote it or it was
\* not written.
KeptInv == \A b \in flagged \ (beaten \cup {Genesis}) : Stored(b)

\* Parents are flagged first.
QueueInv ==
  /\ Closed(flagged)
  /\ \A i \in 1..Len(todo) :
       todo[i] # Genesis /\ Parent[todo[i]] \in flagged \cup {todo[k] : k \in 1..(i - 1)}

\* Every block of the chain is flagged or queued, and queued again if it was
\* overwritten, unless a restart passed over it or it could not be written.
CoverInv ==
  mode = "running" =>
    /\ MostWork \subseteq flagged \cup ToSet(todo)
    /\ MostWork \cap beaten \subseteq missed \cup ToSet(todo)

\* A block of the chain that a queued block will overwrite is queued behind it.
LaterInv ==
  \A i \in 1..Len(todo), b \in MostWork :
    Overwrites(todo[i], b) => b = todo[i] \/ \E j \in (i + 1)..Len(todo) : todo[j] = b

IndexInv ==
  /\ IndexTyped /\ OriginInv /\ WrittenInv /\ KeptInv
  /\ QueueInv /\ CoverInv /\ LaterInv

---------------------------------------------------------------------------
(* The stores. *)

\* A block that shares no key with the one written keeps its values.
LEMMA TxsKept ==
  ASSUME NEW b \in Blocks, NEW c \in Blocks, WriteTxs(c),
         b = c \/ (~Overwrites(c, b) /\ HasTxs(b))
  PROVE  HasTxs(b)'
<1> SUFFICES ASSUME NEW x \in TxsOf[b]
             PROVE  txBlock'[x] = b
  BY DEF HasTxs
<1>1. x \in Transactions
  BY DEF Transactions
<1>2. txBlock'[x] = IF x \in TxsOf[c] THEN c ELSE txBlock[x]
  BY <1>1 DEF WriteTxs
<1>3. CASE b = c
  BY <1>2, <1>3
<1>4. CASE ~Overwrites(c, b) /\ HasTxs(b)
  BY <1>2, <1>4 DEF Overwrites, HasTxs
<1> QED
  BY <1>3, <1>4

LEMMA SpendFacts ==
  ASSUME NEW b, NEW s \in AllSpends(b)
  PROVE  s.block = b /\ s.tx \in TxsOf[b] /\ s.output \in Spends[s.tx] /\ s.output \in SpentIn(b)
BY DEF AllSpends, SpentIn

LEMMA AmendFacts ==
  ASSUME NEW b, NEW e \in AllAmends(b)
  PROVE  e.block = b /\ e.key.tx \in TxsOf[b]
<1>1. PICK x \in TxsOf[b] : e \in Amends(b, x)
  BY DEF AllAmends
<1>2. PICK a, d : e = [key |-> Key(a, b, x), block |-> b, delta |-> d]
  BY <1>1 DEF Amends
<1>3. e.block = b /\ e.key = Key(a, b, x)
  BY <1>2
<1> QED
  BY <1>3 DEF Key

LEMMA SpendsKept ==
  ASSUME NEW b, NEW c, WriteSpends(c),
         b = c \/ (~Overwrites(c, b) /\ HasSpends(b))
  PROVE  HasSpends(b)'
<1> SUFFICES ASSUME NEW s \in AllSpends(b)
             PROVE  s \in spentBy'
  BY DEF HasSpends
<1>1. spentBy' = AllSpends(c) \cup {r \in spentBy : r.output \notin SpentIn(c)}
  BY DEF WriteSpends
<1>2. CASE b = c
  BY <1>1, <1>2
<1>3. CASE ~Overwrites(c, b) /\ HasSpends(b)
  <2>1. s.output \in SpentIn(b) /\ s \in spentBy
    BY <1>3, SpendFacts DEF HasSpends
  <2>2. s.output \notin SpentIn(c)
    BY <1>3, <2>1 DEF Overwrites
  <2> QED
    BY <1>1, <2>1, <2>2
<1> QED
  BY <1>2, <1>3

LEMMA EntriesKept ==
  ASSUME NEW b, NEW c, WriteAddresses(c),
         b = c \/ (~Overwrites(c, b) /\ HasEntries(b))
  PROVE  HasEntries(b)'
<1> SUFFICES ASSUME NEW e \in AllAmends(b)
             PROVE  e \in entries'
  BY DEF HasEntries
<1>1. entries' = AllAmends(c) \cup {f \in entries : \A n \in AllAmends(c) : n.key # f.key}
  BY DEF WriteAddresses
<1>2. CASE b = c
  BY <1>1, <1>2
<1>3. CASE ~Overwrites(c, b) /\ HasEntries(b)
  <2>1. e \in entries /\ e.key.tx \in TxsOf[b]
    BY <1>3, AmendFacts DEF HasEntries
  <2>2. ASSUME NEW n \in AllAmends(c)
        PROVE  n.key # e.key
    <3>1. n.key.tx \in TxsOf[c]
      BY AmendFacts
    <3> QED
      BY <1>3, <2>1, <3>1 DEF Overwrites
  <2> QED
    BY <1>1, <2>1, <2>2
<1> QED
  BY <1>2, <1>3

---------------------------------------------------------------------------
(* The blocks to apply. *)

LEMMA MaxIn ==
  ASSUME NEW n \in Nat, NEW S \in SUBSET (1..n), S # {}
  PROVE  Max(S) \in S /\ \A i \in S : i <= Max(S)
<1> DEFINE T == {n - i : i \in S}
<1>1. T \in SUBSET Nat /\ T # {}
  <2>1. \A i \in S : n - i \in Nat
    OBVIOUS
  <2> QED
    BY <2>1, Zenon
<1>2. PICK m \in T : \A k \in T : m <= k
  BY <1>1, LeastNatural
<1>3. PICK i \in S : m = n - i
  BY <1>2
<1>4. \A j \in S : i >= j
  BY <1>2, <1>3
<1>5. \E x \in S : \A y \in S : x >= y
  BY <1>4
<1>6. Max(S) \in S /\ \A y \in S : Max(S) >= y
  BY <1>5 DEF Max
<1> QED
  BY <1>6

\* get_block_hashes_to_download cuts the chain behind a flagged block, and all
\* before it is flagged.
LEMMA DownloadCut ==
  ASSUME tip \in Blocks, Closed(flagged), Genesis \in flagged
  PROVE  /\ BlocksToDownload \in Seq(Blocks)
         /\ \E x \in Seq(Blocks) : /\ x # <<>> /\ ToSet(x) \subseteq flagged
                                  /\ PathTo[tip] = x \o BlocksToDownload
<1> DEFINE path == PathTo[tip]
           own == {i \in 1..Len(path) : path[i] \in flagged}
           last == Max(own)
           x == SubSeq(path, 1, last)
           y == SubSeq(path, last + 1, Len(path))
<1>1. path \in Seq(Blocks) /\ Genesis \in ToSet(path)
  BY PathType, PathClosed
<1>2. BlocksToDownload = y
  BY DEF BlocksToDownload
<1> HIDE DEF path
<1>3. Len(path) \in Nat /\ ToSet(path) = {path[i] : i \in 1..Len(path)}
  BY <1>1, ListBasics
<1>4. own # {}
  BY <1>1, <1>3
<1>5. last \in own
  BY <1>3, <1>4, MaxIn
<1> HIDE DEF last, own
<1>6. last \in 0..Len(path) /\ last \in 1..Len(path) /\ path[last] \in flagged
  BY <1>5, <1>3 DEF own
<1>7. x \in Seq(Blocks) /\ y \in Seq(Blocks) /\ Len(x) = last /\ x \o y = path
  BY <1>1, <1>6, ListSplit
<1> HIDE DEF x, y
<1>8. x # <<>>
  BY <1>6, <1>7
<1>9. x[last] = path[last]
  <2>1. \A i \in 1..(Len(x) + Len(y)) : (x \o y)[i] = IF i <= Len(x) THEN x[i] ELSE y[i - Len(x)]
    BY <1>7, ConcatProperties
  <2>2. last \in 1..(Len(x) + Len(y)) /\ last <= Len(x)
    BY <1>6, <1>7, ListBasics
  <2> QED
    BY <1>7, <2>1, <2>2
<1>10. Last(x) \in flagged /\ Last(x) \in Blocks
  BY <1>6, <1>7, <1>8, <1>9, ListBasics DEF Last
<1>11. x = PathTo[Last(x)]
  BY <1>7, <1>8, PathPrefix DEF path
<1>12. ToSet(x) \subseteq flagged
  BY <1>10, <1>11, ClosedHoldsPath
<1> QED
  BY <1>2, <1>7, <1>8, <1>12 DEF path

\* A better tip cuts its chain where it leaves the chain followed so far.
LEMMA AddedCut ==
  ASSUME tip \in Blocks, NEW b \in Blocks
  PROVE  /\ AddedBlocks(b) \in Seq(Blocks)
         /\ \E x \in Seq(Blocks) : /\ x # <<>> /\ ToSet(x) \subseteq MostWork
                                  /\ PathTo[b] = x \o AddedBlocks(b)
<1>1. Closed(MostWork) /\ Genesis \in MostWork
  BY PathClosed DEF MostWork
<1> DEFINE x == Filtered(PathTo[b], MostWork)
<1>2. /\ x \in Seq(Blocks) /\ AddedBlocks(b) \in Seq(Blocks)
      /\ x \o AddedBlocks(b) = PathTo[b]
      /\ ToSet(x) \subseteq MostWork
      /\ x # <<>>
  BY <1>1, PathCut DEF AddedBlocks
<1> QED
  BY <1>2

\* Blocks of one chain do not overwrite one another.
LEMMA ChainIsConsistent ==
  ASSUME NEW t \in Blocks, NEW a \in ToSet(PathTo[t]), NEW b \in ToSet(PathTo[t]), Overwrites(a, b)
  PROVE  a = b
BY IndexAssumption

---------------------------------------------------------------------------
(* The actions. *)

LEMMA IndexInitInv == IndexInit => IndexInv
<1> SUFFICES ASSUME IndexInit
             PROVE  IndexInv
  OBVIOUS
<1>1. /\ tip = Genesis /\ flagged = {Genesis} /\ todo = <<>> /\ mode = "running"
      /\ written = {} /\ failed = {} /\ txBlock = [x \in Transactions |-> NoBlock]
      /\ spentBy = {} /\ entries = {} /\ beaten = {} /\ missed = {}
  BY DEF IndexInit
<1>2. Genesis \in Blocks /\ <<>> \in Seq(Blocks) /\ Len(<<>>) = 0 /\ ToSet(<<>>) = {}
  BY TreeAssumption, EmptyBasics
<1>3. IndexTyped
  BY <1>1, <1>2 DEF IndexTyped
<1>4. OriginInv /\ WrittenInv /\ KeptInv
  BY <1>1 DEF OriginInv, WrittenInv, KeptInv
<1>5. QueueInv
  BY <1>1, <1>2 DEF QueueInv, Closed
<1>6. MostWork = {Genesis}
  BY <1>1, PathSet DEF MostWork
<1>7. CoverInv /\ LaterInv
  BY <1>1, <1>2, <1>6 DEF CoverInv, LaterInv
<1> QED
  BY <1>3, <1>4, <1>5, <1>7 DEF IndexInv

\* The parts that only look at the stores do not see the headers.
LEMMA StoresUnseen ==
  ASSUME UNCHANGED <<flagged, beaten, txBlock, spentBy, entries>>
  PROVE  /\ OriginInv => OriginInv'
         /\ KeptInv => KeptInv'
BY DEF OriginInv, KeptInv, Stored, HasTxs, HasSpends, HasEntries

\* What a longer queue keeps.
LEMMA QueueExtended ==
  ASSUME NEW old \in Seq(Blocks), NEW more \in Seq(Blocks)
  PROVE  LET q == old \o more IN
         /\ q \in Seq(Blocks) /\ ToSet(q) = ToSet(old) \cup ToSet(more)
         /\ Len(old) \in Nat /\ Len(more) \in Nat /\ Len(q) = Len(old) + Len(more)
         /\ \A i \in 1..Len(old) : q[i] = old[i]
         /\ \A i \in 1..Len(more) : q[Len(old) + i] = more[i]
         /\ \A i \in 1..Len(q) :
              i \in 1..Len(old) \/ (i - Len(old) \in 1..Len(more) /\ q[i] = more[i - Len(old)])
<1> DEFINE q == old \o more
<1>1. /\ q \in Seq(Blocks) /\ ToSet(q) = ToSet(old) \cup ToSet(more)
      /\ Len(q) = Len(old) + Len(more)
  BY ConcatBasics
<1>2. Len(old) \in Nat /\ Len(more) \in Nat
  BY ListBasics
<1>3. \A i \in 1..(Len(old) + Len(more)) :
        q[i] = IF i <= Len(old) THEN old[i] ELSE more[i - Len(old)]
  BY ConcatProperties
<1> HIDE DEF q
<1>4. ASSUME NEW i \in 1..Len(old)
      PROVE  q[i] = old[i]
  BY <1>2, <1>3
<1>5. ASSUME NEW i \in 1..Len(more)
      PROVE  q[Len(old) + i] = more[i]
  <2>1. Len(old) + i \in 1..(Len(old) + Len(more)) /\ ~(Len(old) + i <= Len(old))
        /\ (Len(old) + i) - Len(old) = i
    BY <1>2
  <2> QED
    BY <1>3, <2>1
<1>6. ASSUME NEW i \in 1..Len(q), i \notin 1..Len(old)
      PROVE  i - Len(old) \in 1..Len(more) /\ q[i] = more[i - Len(old)]
  <2>1. i \in 1..(Len(old) + Len(more)) /\ ~(i <= Len(old)) /\ i - Len(old) \in 1..Len(more)
    BY <1>1, <1>2, <1>6
  <2> QED
    BY <1>3, <2>1
<1> QED
  BY <1>1, <1>2, <1>4, <1>5, <1>6 DEF q

\* A better tip while the chain watcher runs: what is left of the old branch
\* in the queue stays in front of what the new one adds.
LEMMA BetterTipInv ==
  ASSUME IndexInv, NEW b \in Blocks, mode = "running", tip' = b,
         todo' = todo \o AddedBlocks(b),
         UNCHANGED <<flagged, mode, written, failed, txBlock, spentBy, entries, beaten, missed>>
  PROVE  IndexInv'
<1> DEFINE more == AddedBlocks(b)
<1>1. tip \in Blocks /\ todo \in Seq(Blocks)
  BY DEF IndexInv, IndexTyped
<1>2. more \in Seq(Blocks)
  BY <1>1, AddedCut
<1>3. PICK x \in Seq(Blocks) : x # <<>> /\ ToSet(x) \subseteq MostWork /\ PathTo[b] = x \o more
  BY <1>1, AddedCut
<1> HIDE DEF more
<1>4. MostWork' = ToSet(PathTo[b])
  BY DEF MostWork
<1>5. MostWork' = ToSet(x) \cup ToSet(more)
  BY <1>2, <1>3, <1>4, ConcatBasics
<1>6. todo' = todo \o more
  BY DEF more
<1>7. /\ todo' \in Seq(Blocks) /\ ToSet(todo') = ToSet(todo) \cup ToSet(more)
      /\ Len(todo) \in Nat /\ Len(more) \in Nat /\ Len(todo') = Len(todo) + Len(more)
      /\ \A i \in 1..Len(todo) : todo'[i] = todo[i]
      /\ \A i \in 1..Len(more) : todo'[Len(todo) + i] = more[i]
      /\ \A i \in 1..Len(todo') :
           i \in 1..Len(todo) \/ (i - Len(todo) \in 1..Len(more) /\ todo'[i] = more[i - Len(todo)])
  BY <1>1, <1>2, <1>6, QueueExtended
<1>8. CoverInv
  BY DEF IndexInv
<1>9. MostWork \subseteq flagged \cup ToSet(todo) /\ MostWork \cap beaten \subseteq missed \cup ToSet(todo)
  BY <1>8 DEF CoverInv
<1>10. IndexTyped'
  <2>1. todo' = <<>> => todo = <<>>
    BY <1>1, <1>7, ListBasics
  <2> QED
    BY <1>7, <2>1 DEF IndexInv, IndexTyped
<1>11. OriginInv' /\ KeptInv'
  BY StoresUnseen DEF IndexInv
<1>12. WrittenInv'
  <2>1. CASE written = {}
    BY <2>1 DEF WrittenInv
  <2>2. CASE written # {}
    <3>1. todo # <<>>
      BY <2>2 DEF IndexInv, IndexTyped
    <3>2. 1 \in 1..Len(todo)
      BY <1>1, <3>1, ListBasics
    <3>3. todo'[1] = todo[1]
      BY <1>7, <3>2
    <3> QED
      BY <3>3 DEF IndexInv, WrittenInv, HasTxs, HasSpends, HasEntries
  <2> QED
    BY <2>1, <2>2
<1>13. QueueInv'
  <2>1. Closed(flagged')
    BY DEF IndexInv, QueueInv
  <2>2. ASSUME NEW i \in 1..Len(todo')
        PROVE  todo'[i] # Genesis /\ Parent[todo'[i]] \in flagged \cup {todo'[k] : k \in 1..(i - 1)}
    <3>1. CASE i \in 1..Len(todo)
      <4>1. todo'[i] = todo[i] /\ \A k \in 1..(i - 1) : todo'[k] = todo[k]
        BY <1>7, <3>1
      <4>2. todo[i] # Genesis /\ Parent[todo[i]] \in flagged \cup {todo[k] : k \in 1..(i - 1)}
        BY <3>1 DEF IndexInv, QueueInv
      <4> QED
        BY <4>1, <4>2
    <3>2. CASE i - Len(todo) \in 1..Len(more) /\ todo'[i] = more[i - Len(todo)]
      <4> DEFINE j == i - Len(todo)
      <4>1. more[j] # Genesis /\ Parent[more[j]] \in ToSet(x) \cup {more[k] : k \in 1..(j - 1)}
        BY <1>2, <1>3, <3>2, SuffixOrdered
      <4>2. CASE Parent[more[j]] \in ToSet(x)
        <5>1. Parent[more[j]] \in flagged \cup ToSet(todo)
          BY <1>3, <1>9, <4>2
        <5>2. CASE Parent[more[j]] \in ToSet(todo)
          <6>0. ToSet(todo) = {todo[k] : k \in 1..Len(todo)}
            BY <1>1, ListBasics
          <6>1. PICK k \in 1..Len(todo) : Parent[more[j]] = todo[k]
            BY <5>2, <6>0
          <6>2. k \in 1..(i - 1) /\ todo'[k] = todo[k]
            BY <1>7, <3>2
          <6> QED
            BY <3>2, <4>1, <6>1, <6>2
        <5> QED
          BY <3>2, <4>1, <5>1, <5>2
      <4>3. CASE Parent[more[j]] \in {more[k] : k \in 1..(j - 1)}
        <5>1. PICK k \in 1..(j - 1) : Parent[more[j]] = more[k]
          BY <4>3
        <5>2. k \in 1..Len(more) /\ Len(todo) + k \in 1..(i - 1)
          BY <1>7, <3>2
        <5>3. todo'[Len(todo) + k] = more[k]
          BY <1>7, <5>2
        <5> QED
          BY <3>2, <4>1, <5>1, <5>2, <5>3
      <4> QED
        BY <4>1, <4>2, <4>3
    <3> QED
      BY <1>7, <3>1, <3>2
  <2> QED
    BY <2>1, <2>2 DEF QueueInv
<1>14. CoverInv'
  <2>1. MostWork' \subseteq flagged \cup ToSet(todo') /\ MostWork' \cap beaten \subseteq missed \cup ToSet(todo')
    BY <1>3, <1>5, <1>7, <1>9
  <2> QED
    BY <2>1 DEF CoverInv
<1>15. LaterInv'
  <2> SUFFICES ASSUME NEW i \in 1..Len(todo'), NEW c \in MostWork', Overwrites(todo'[i], c)
               PROVE  c = todo'[i] \/ \E j \in (i + 1)..Len(todo') : todo'[j] = c
    BY DEF LaterInv, Overwrites, SpentIn
  <2>1. CASE i \in 1..Len(todo) /\ c \in ToSet(more)
    <3>1. PICK k \in 1..Len(more) : c = more[k]
      BY <1>2, <2>1, ListBasics
    <3>2. Len(todo) + k \in (i + 1)..Len(todo')
      BY <1>7, <2>1
    <3> QED
      BY <1>7, <3>1, <3>2
  <2>2. CASE i \in 1..Len(todo) /\ c \in MostWork
    <3>1. todo'[i] = todo[i]
      BY <1>7, <2>2
    <3>2. c = todo[i] \/ \E j \in (i + 1)..Len(todo) : todo[j] = c
      BY <2>2, <3>1 DEF IndexInv, LaterInv
    <3>3. ASSUME NEW j \in (i + 1)..Len(todo), todo[j] = c
          PROVE  j \in (i + 1)..Len(todo') /\ todo'[j] = c
      BY <1>7, <2>2, <3>3
    <3> QED
      BY <3>1, <3>2, <3>3
  <2>3. CASE i - Len(todo) \in 1..Len(more) /\ todo'[i] = more[i - Len(todo)]
    <3>1. todo'[i] \in ToSet(more)
      BY <1>2, <2>3, ListBasics
    <3> QED
      BY <1>4, <1>5, <3>1, ChainIsConsistent
  <2> QED
    BY <1>3, <1>5, <1>7, <2>1, <2>2, <2>3
<1> QED
  BY <1>10, <1>11, <1>12, <1>13, <1>14, <1>15 DEF IndexInv

\* A header that only moves the tip, or not even that: there is no queue to
\* fall behind, or nothing changes.
LEMMA NewHeaderInv ==
  ASSUME IndexInv, NEW b \in Blocks, NewHeader(b)
  PROVE  IndexInv'
<1>1. UNCHANGED <<flagged, mode, written, failed, txBlock, spentBy, entries, beaten, missed>>
  BY DEF NewHeader
<1>2. CASE Work[b] >= Work[tip] /\ mode = "running"
  <2>1. tip' = b /\ todo' = todo \o AddedBlocks(b)
    BY <1>2 DEF NewHeader
  <2> QED
    BY <1>1, <1>2, <2>1, BetterTipInv
<1>3. CASE ~(Work[b] >= Work[tip] /\ mode = "running")
  <2>1. todo' = todo /\ tip' \in {tip, b} /\ (mode = "running" => tip' = tip)
    BY <1>3 DEF NewHeader
  <2>2. mode \in {"loading", "running"} /\ (mode = "loading" => todo = <<>>)
    BY DEF IndexInv, IndexTyped
  <2>3. IndexTyped'
    BY <1>1, <2>1 DEF IndexInv, IndexTyped
  <2>4. OriginInv' /\ KeptInv'
    BY <1>1, StoresUnseen DEF IndexInv
  <2>5. WrittenInv' /\ QueueInv'
    BY <1>1, <2>1 DEF IndexInv, WrittenInv, QueueInv, HasTxs, HasSpends, HasEntries, Closed
  <2>6. CASE mode = "running"
    <3>1. tip' = tip
      BY <2>1, <2>6
    <3>2. MostWork' = MostWork
      BY <3>1 DEF MostWork
    <3>3. CoverInv'
      BY <1>1, <2>1, <3>2 DEF IndexInv, CoverInv
    <3>4. LaterInv'
      BY <1>1, <2>1, <3>2 DEF IndexInv, LaterInv, Overwrites, SpentIn
    <3> QED
      BY <2>3, <2>4, <2>5, <3>3, <3>4 DEF IndexInv
  <2>7. CASE mode = "loading"
    <3>1. todo' = <<>> /\ Len(<<>>) = 0
      BY <2>1, <2>2, <2>7
    <3>2. CoverInv' /\ LaterInv'
      BY <1>1, <2>7, <3>1 DEF CoverInv, LaterInv
    <3> QED
      BY <2>3, <2>4, <2>5, <3>2 DEF IndexInv
  <2> QED
    BY <2>2, <2>6, <2>7
<1> QED
  BY <1>2, <1>3

LEMMA RestartInv ==
  ASSUME IndexInv, Restart
  PROVE  IndexInv'
<1>1. /\ mode' = "loading" /\ todo' = <<>> /\ written' = {} /\ failed' = {}
      /\ UNCHANGED <<tip, flagged, txBlock, spentBy, entries, beaten, missed>>
  BY DEF Restart
<1>2. <<>> \in Seq(Blocks) /\ Len(<<>>) = 0
  OBVIOUS
<1>3. IndexTyped'
  BY <1>1, <1>2 DEF IndexInv, IndexTyped
<1>4. OriginInv' /\ KeptInv'
  BY <1>1, StoresUnseen DEF IndexInv
<1>5. WrittenInv'
  BY <1>1 DEF WrittenInv
<1>6. QueueInv'
  BY <1>1, <1>2 DEF IndexInv, QueueInv, Closed
<1>7. CoverInv' /\ LaterInv'
  BY <1>1, <1>2 DEF CoverInv, LaterInv
<1> QED
  BY <1>3, <1>4, <1>5, <1>6, <1>7 DEF IndexInv

\* A restart passes over the blocks of the chain that were overwritten, and
\* downloads the rest.
LEMMA StartDownloadInv ==
  ASSUME IndexInv, StartDownload
  PROVE  IndexInv'
<1>1. /\ mode = "loading" /\ mode' = "running" /\ todo' = BlocksToDownload
      /\ missed' = missed \cup (beaten \cap MostWork \cap flagged)
      /\ UNCHANGED <<tip, flagged, written, failed, txBlock, spentBy, entries, beaten>>
  BY DEF StartDownload
<1>2. tip \in Blocks /\ Closed(flagged) /\ Genesis \in flagged /\ written = {} /\ beaten \subseteq flagged
  BY <1>1 DEF IndexInv, IndexTyped, QueueInv
<1>3. todo' \in Seq(Blocks)
  BY <1>1, <1>2, DownloadCut
<1>4. PICK x \in Seq(Blocks) : x # <<>> /\ ToSet(x) \subseteq flagged /\ PathTo[tip] = x \o todo'
  BY <1>1, <1>2, DownloadCut
<1>5. MostWork = ToSet(x) \cup ToSet(todo') /\ MostWork' = MostWork
  <2>1. ToSet(x \o todo') = ToSet(x) \cup ToSet(todo')
    BY <1>3, ConcatBasics
  <2> QED
    BY <1>1, <1>4, <2>1 DEF MostWork
<1>6. IndexTyped'
  BY <1>1, <1>2, <1>3 DEF IndexInv, IndexTyped
<1>7. OriginInv' /\ KeptInv'
  BY <1>1, StoresUnseen DEF IndexInv
<1>8. WrittenInv'
  BY <1>1, <1>2 DEF WrittenInv
<1>9. QueueInv'
  <2>1. Closed(flagged')
    BY <1>1, <1>2
  <2>2. \A i \in 1..Len(todo') :
          /\ todo'[i] # Genesis
          /\ Parent[todo'[i]] \in ToSet(x) \cup {todo'[k] : k \in 1..(i - 1)}
    BY <1>2, <1>3, <1>4, SuffixOrdered
  <2>3. \A i \in 1..Len(todo') :
          /\ todo'[i] # Genesis
          /\ Parent[todo'[i]] \in flagged' \cup {todo'[k] : k \in 1..(i - 1)}
    BY <1>1, <1>4, <2>2
  <2> QED
    BY <2>1, <2>3 DEF QueueInv
<1>10. CoverInv'
  BY <1>1, <1>2, <1>4, <1>5 DEF CoverInv
<1>11. LaterInv'
  <2> SUFFICES ASSUME NEW i \in 1..Len(todo'), NEW c \in MostWork', Overwrites(todo'[i], c)
               PROVE  c = todo'[i]
    BY DEF LaterInv, Overwrites, SpentIn
  <2>1. todo'[i] \in ToSet(todo')
    BY <1>3, ListBasics
  <2>2. todo'[i] \in ToSet(PathTo[tip]) /\ c \in ToSet(PathTo[tip])
    BY <1>5, <2>1 DEF MostWork
  <2> QED
    BY <1>2, <2>2, ChainIsConsistent
<1> QED
  BY <1>6, <1>7, <1>8, <1>9, <1>10, <1>11 DEF IndexInv

\* A write touches one block's keys, and what it overwrites of the chain is
\* queued behind it.
LEMMA WriteInv ==
  ASSUME IndexInv, NEW store \in Stores, Write(store)
  PROVE  IndexInv'
<1>0. todo # <<>> /\ todo \in Seq(Blocks)
  BY DEF Write, IndexInv, IndexTyped
<1> PICK c \in Blocks : c = todo[1]
  BY <1>0, TailBasics
<1>1. /\ todo # <<>> /\ written' = written \cup {store} /\ store \notin written
      /\ beaten' = beaten \cup {b \in flagged \ {c} : Overwrites(c, b)}
      /\ UNCHANGED <<tip, flagged, todo, mode, failed, missed>>
  BY DEF Write
<1>2. /\ store = "txs" => WriteTxs(c)
      /\ store # "txs" => txBlock' = txBlock
      /\ store = "spends" => WriteSpends(c)
      /\ store # "spends" => spentBy' = spentBy
      /\ store = "addresses" => WriteAddresses(c)
      /\ store # "addresses" => entries' = entries
  BY DEF Write
<1>3. /\ todo \in Seq(Blocks) /\ flagged \subseteq Blocks /\ Genesis \in flagged /\ beaten \subseteq flagged
      /\ written \subseteq Stores /\ failed \subseteq written
      /\ txBlock \in [Transactions -> Blocks \cup {NoBlock}]
  BY DEF IndexInv, IndexTyped
<1>4. c \in Blocks /\ 1 \in 1..Len(todo)
  BY <1>1, <1>3, ListBasics
<1>5. ASSUME NEW b \in Blocks
      PROVE  /\ (b = c /\ store = "txs") \/ ((b = c \/ ~Overwrites(c, b)) /\ HasTxs(b)) => HasTxs(b)'
             /\ (b = c /\ store = "spends") \/ ((b = c \/ ~Overwrites(c, b)) /\ HasSpends(b)) => HasSpends(b)'
             /\ (b = c /\ store = "addresses") \/ ((b = c \/ ~Overwrites(c, b)) /\ HasEntries(b)) => HasEntries(b)'
  <2>1. store # "txs" => (HasTxs(b) => HasTxs(b)')
    BY <1>2 DEF HasTxs
  <2>2. store # "spends" => (HasSpends(b) => HasSpends(b)')
    BY <1>2 DEF HasSpends
  <2>3. store # "addresses" => (HasEntries(b) => HasEntries(b)')
    BY <1>2 DEF HasEntries
  <2>4. store = "txs" => (b = c \/ (~Overwrites(c, b) /\ HasTxs(b)) => HasTxs(b)')
    BY <1>2, <1>4, TxsKept
  <2>5. store = "spends" => (b = c \/ (~Overwrites(c, b) /\ HasSpends(b)) => HasSpends(b)')
    BY <1>2, SpendsKept
  <2>6. store = "addresses" => (b = c \/ (~Overwrites(c, b) /\ HasEntries(b)) => HasEntries(b)')
    BY <1>2, EntriesKept
  <2> QED
    BY <2>1, <2>2, <2>3, <2>4, <2>5, <2>6
<1>6. IndexTyped'
  <2>1. txBlock' \in [Transactions -> Blocks \cup {NoBlock}]
    <3>1. CASE store = "txs"
      <4>1. txBlock' = [x \in Transactions |-> IF x \in TxsOf[c] THEN c ELSE txBlock[x]]
        BY <1>2, <3>1 DEF WriteTxs
      <4> QED
        BY <1>3, <1>4, <4>1
    <3>2. CASE store # "txs"
      BY <1>2, <1>3, <3>2
    <3> QED
      BY <3>1, <3>2
  <2>2. beaten' \subseteq flagged' /\ written' \subseteq Stores /\ failed' \subseteq written'
    BY <1>1, <1>3
  <2> QED
    BY <1>1, <2>1, <2>2 DEF IndexInv, IndexTyped
<1>7. OriginInv'
  <2>1. \A s \in spentBy' : s \in spentBy \/ s \in AllSpends(c)
    BY <1>2 DEF WriteSpends
  <2>2. \A e \in entries' : e \in entries \/ e \in AllAmends(c)
    BY <1>2 DEF WriteAddresses
  <2>3. OriginInv
    BY DEF IndexInv
  <2>4. \A s \in AllSpends(c) : s.block = c
    BY SpendFacts
  <2>5. \A e \in AllAmends(c) : e.block = c
    BY AmendFacts
  <2>6. \A s \in spentBy' : s.block \in Blocks /\ s \in AllSpends(s.block)
    BY <1>4, <2>1, <2>3, <2>4 DEF OriginInv
  <2>7. \A e \in entries' : e.block \in Blocks /\ e \in AllAmends(e.block)
    BY <1>4, <2>2, <2>3, <2>5 DEF OriginInv
  <2> QED
    BY <2>6, <2>7 DEF OriginInv
<1>8. WrittenInv'
  <2>1. /\ "txs" \in written' \ failed' => HasTxs(c)'
        /\ "spends" \in written' \ failed' => HasSpends(c)'
        /\ "addresses" \in written' \ failed' => HasEntries(c)'
    <3>1. /\ "txs" \in written \ failed => HasTxs(c)
          /\ "spends" \in written \ failed => HasSpends(c)
          /\ "addresses" \in written \ failed => HasEntries(c)
      BY DEF IndexInv, WrittenInv
    <3>2. /\ (store = "txs" \/ HasTxs(c)) => HasTxs(c)'
          /\ (store = "spends" \/ HasSpends(c)) => HasSpends(c)'
          /\ (store = "addresses" \/ HasEntries(c)) => HasEntries(c)'
      BY <1>4, <1>5
    <3>3. /\ "txs" \in written' \ failed' => store = "txs" \/ "txs" \in written \ failed
          /\ "spends" \in written' \ failed' => store = "spends" \/ "spends" \in written \ failed
          /\ "addresses" \in written' \ failed' => store = "addresses" \/ "addresses" \in written \ failed
      BY <1>1
    <3> QED
      BY <3>1, <3>2, <3>3, Zenon
  <2> QED
    BY <1>1, <2>1 DEF WrittenInv, HasTxs, HasSpends, HasEntries
<1>9. KeptInv'
  <2> SUFFICES ASSUME NEW b \in flagged' \ (beaten' \cup {Genesis})
               PROVE  Stored(b)'
    BY DEF KeptInv
  <2>1. b \in Blocks /\ b \in flagged \ (beaten \cup {Genesis}) /\ (b = c \/ ~Overwrites(c, b))
    BY <1>1, <1>3
  <2>2. HasTxs(b) /\ HasSpends(b) /\ HasEntries(b)
    BY <2>1 DEF IndexInv, KeptInv, Stored
  <2>3. HasTxs(b)' /\ HasSpends(b)' /\ HasEntries(b)'
    BY <1>5, <2>1, <2>2
  <2> QED
    BY <2>3 DEF Stored
<1>10. QueueInv'
  BY <1>1 DEF IndexInv, QueueInv, Closed
<1>11. MostWork' = MostWork
  BY <1>1 DEF MostWork
<1>12. LaterInv'
  <2>1. LaterInv
    BY DEF IndexInv
  <2> QED
    BY <1>1, <1>11, <2>1 DEF LaterInv, Overwrites, SpentIn
<1>13. CoverInv'
  <2>1. ASSUME NEW b \in MostWork, b # c, Overwrites(c, b)
        PROVE  b \in ToSet(todo)
    <3>1. \E j \in 2..Len(todo) : todo[j] = b
      BY <1>4, <2>1 DEF IndexInv, LaterInv
    <3>2. ToSet(todo) = {todo[j] : j \in 1..Len(todo)}
      BY <1>3, ListBasics
    <3> QED
      BY <3>1, <3>2
  <2>2. CASE mode = "running"
    <3>1. MostWork \subseteq flagged \cup ToSet(todo) /\ MostWork \cap beaten \subseteq missed \cup ToSet(todo)
      BY <2>2 DEF IndexInv, CoverInv
    <3>2. MostWork \cap beaten' \subseteq missed \cup ToSet(todo)
      BY <1>1, <2>1, <3>1
    <3> QED
      BY <1>1, <1>11, <3>1, <3>2 DEF CoverInv
  <2> QED
    BY <1>1, <2>2 DEF CoverInv
<1> QED
  BY <1>6, <1>7, <1>8, <1>9, <1>10, <1>12, <1>13 DEF IndexInv

\* A write that fails leaves the stores as they are.
LEMMA WriteFailsInv ==
  ASSUME IndexInv, NEW store \in Stores, WriteFails(store)
  PROVE  IndexInv'
<1>1. /\ todo # <<>> /\ written' = written \cup {store} /\ failed' = failed \cup {store}
      /\ UNCHANGED <<tip, flagged, todo, mode, txBlock, spentBy, entries, beaten, missed>>
  BY DEF WriteFails
<1>2. MostWork' = MostWork
  BY <1>1 DEF MostWork
<1>3. IndexTyped'
  BY <1>1 DEF IndexInv, IndexTyped
<1>4. OriginInv' /\ KeptInv'
  BY <1>1, StoresUnseen DEF IndexInv
<1>5. WrittenInv'
  <2>1. written' \ failed' \subseteq written \ failed
    BY <1>1
  <2> QED
    BY <1>1, <2>1 DEF IndexInv, WrittenInv, HasTxs, HasSpends, HasEntries
<1>6. QueueInv'
  BY <1>1 DEF IndexInv, QueueInv, Closed
<1>7. CoverInv'
  BY <1>1, <1>2 DEF IndexInv, CoverInv
<1>8. LaterInv'
  <2>1. LaterInv /\ todo' = todo
    BY <1>1 DEF IndexInv
  <2>2. \A a, b : Overwrites(a, b)' <=> Overwrites(a, b)
    BY DEF Overwrites, SpentIn
  <2> QED
    BY <1>2, <2>1, <2>2 DEF LaterInv
<1> QED
  BY <1>3, <1>4, <1>5, <1>6, <1>7, <1>8 DEF IndexInv

LEMMA FlagInv ==
  ASSUME IndexInv, Flag
  PROVE  IndexInv'
<1> DEFINE c == todo[1]
<1>1. /\ todo # <<>> /\ written = Stores /\ written' = {} /\ failed' = {}
      /\ flagged' = flagged \cup {c}
      /\ todo' = Tail(todo)
      /\ UNCHANGED <<tip, mode, txBlock, spentBy, entries>>
  BY DEF Flag
<1>2. \/ failed = {} /\ beaten' = beaten \ {c} /\ missed' = missed \ {c}
      \/ beaten' = beaten \cup {c} /\ missed' = missed \cup {c}
  BY DEF Flag
<1>3. /\ todo \in Seq(Blocks) /\ flagged \subseteq Blocks /\ Genesis \in flagged /\ beaten \subseteq flagged
      /\ tip \in Blocks /\ mode \in {"loading", "running"} /\ (mode = "loading" => todo = <<>>)
      /\ txBlock \in [Transactions -> Blocks \cup {NoBlock}]
  BY DEF IndexInv, IndexTyped
<1>4. /\ todo' \in Seq(Blocks) /\ Len(todo') = Len(todo) - 1 /\ Len(todo) > 0 /\ Len(todo) \in Nat
      /\ \A i \in 1..(Len(todo) - 1) : todo'[i] = todo[i + 1]
      /\ c \in Blocks
  BY <1>1, <1>3, TailBasics
<1>5. mode = "running" /\ mode' = "running"
  BY <1>1, <1>3
<1>6. ToSet(todo) = {todo[i] : i \in 1..Len(todo)} /\ ToSet(todo') = {todo'[i] : i \in 1..Len(todo')}
  BY <1>3, <1>4, ListBasics
<1>7. ToSet(todo) \subseteq ToSet(todo') \cup {c}
  <2> SUFFICES ASSUME NEW i \in 1..Len(todo), i # 1
               PROVE  todo[i] \in ToSet(todo')
    BY <1>6
  <2>1. i - 1 \in 1..(Len(todo) - 1) /\ (i - 1) + 1 = i /\ i - 1 \in 1..Len(todo')
    BY <1>4
  <2>2. todo'[i - 1] = todo[i]
    BY <1>4, <2>1
  <2> QED
    BY <1>6, <2>1, <2>2
<1>8. IndexTyped'
  <2>1. beaten' \subseteq flagged'
    BY <1>1, <1>2, <1>3
  <2> QED
    BY <1>1, <1>3, <1>4, <1>5, <2>1 DEF IndexTyped
<1>9. OriginInv'
  BY <1>1 DEF IndexInv, OriginInv
<1>10. WrittenInv'
  BY <1>1 DEF WrittenInv
<1>11. KeptInv'
  <2> SUFFICES ASSUME NEW b \in flagged' \ (beaten' \cup {Genesis})
               PROVE  Stored(b)
    BY <1>1 DEF KeptInv, Stored, HasTxs, HasSpends, HasEntries
  <2>1. CASE b = c
    <3>1. failed = {}
      BY <1>2, <2>1
    <3>2. HasTxs(c) /\ HasSpends(c) /\ HasEntries(c)
      BY <1>1, <3>1 DEF IndexInv, WrittenInv, Stores
    <3> QED
      BY <2>1, <3>2 DEF Stored
  <2>2. CASE b # c
    <3>1. b \in flagged \ (beaten \cup {Genesis})
      BY <1>1, <1>2, <2>2
    <3> QED
      BY <3>1 DEF IndexInv, KeptInv
  <2> QED
    BY <2>1, <2>2
<1> HIDE DEF c
<1>12. QueueInv'
  <2>1. QueueInv
    BY DEF IndexInv
  <2>2. Parent[c] \in flagged
    BY <1>4, <2>1 DEF QueueInv, c
  <2>3. Closed(flagged')
    BY <1>1, <2>1, <2>2 DEF QueueInv, Closed
  <2>4. ASSUME NEW i \in 1..Len(todo')
        PROVE  todo'[i] # Genesis /\ Parent[todo'[i]] \in flagged' \cup {todo'[k] : k \in 1..(i - 1)}
    <3>1. i + 1 \in 1..Len(todo) /\ todo'[i] = todo[i + 1] /\ (i + 1) - 1 = i
      BY <1>4
    <3>2. todo[i + 1] # Genesis /\ Parent[todo[i + 1]] \in flagged \cup {todo[k] : k \in 1..i}
      BY <2>1, <3>1 DEF QueueInv
    <3>3. ASSUME NEW k \in 1..i
          PROVE  todo[k] \in {c} \cup {todo'[m] : m \in 1..(i - 1)}
      <4>1. CASE k = 1
        BY <4>1 DEF c
      <4>2. CASE k # 1
        <5>1. k - 1 \in 1..(i - 1) /\ k - 1 \in 1..(Len(todo) - 1) /\ (k - 1) + 1 = k
          BY <1>4, <4>2
        <5>2. todo'[k - 1] = todo[k]
          BY <1>4, <5>1
        <5> QED
          BY <5>1, <5>2
      <4> QED
        BY <4>1, <4>2
    <3> QED
      BY <1>1, <3>1, <3>2, <3>3
  <2> QED
    BY <2>3, <2>4 DEF QueueInv
<1>13. MostWork' = MostWork
  BY <1>1 DEF MostWork
<1>14. CoverInv'
  <2>1. MostWork \subseteq flagged \cup ToSet(todo) /\ MostWork \cap beaten \subseteq missed \cup ToSet(todo)
    BY <1>5 DEF IndexInv, CoverInv
  <2>2. MostWork' \subseteq flagged' \cup ToSet(todo') /\ MostWork' \cap beaten' \subseteq missed' \cup ToSet(todo')
    BY <1>1, <1>2, <1>7, <1>13, <2>1
  <2> QED
    BY <2>2 DEF CoverInv
<1>15. LaterInv'
  <2> SUFFICES ASSUME NEW i \in 1..Len(todo'), NEW b \in MostWork', Overwrites(todo'[i], b)
               PROVE  b = todo'[i] \/ \E j \in (i + 1)..Len(todo') : todo'[j] = b
    BY DEF LaterInv, Overwrites, SpentIn
  <2>1. i + 1 \in 1..Len(todo) /\ todo'[i] = todo[i + 1]
    BY <1>4
  <2>2. b = todo[i + 1] \/ \E j \in ((i + 1) + 1)..Len(todo) : todo[j] = b
    BY <1>13, <2>1 DEF IndexInv, LaterInv
  <2>3. ASSUME NEW j \in ((i + 1) + 1)..Len(todo), todo[j] = b
        PROVE  j - 1 \in (i + 1)..Len(todo') /\ todo'[j - 1] = b
    <3>1. j - 1 \in 1..(Len(todo) - 1) /\ (j - 1) + 1 = j /\ j - 1 \in (i + 1)..Len(todo')
      BY <1>4
    <3> QED
      BY <1>4, <2>3, <3>1
  <2> QED
    BY <2>1, <2>2, <2>3
<1> QED
  BY <1>8, <1>9, <1>10, <1>11, <1>12, <1>14, <1>15 DEF IndexInv

LEMMA IndexStutters ==
  ASSUME IndexInv, UNCHANGED indexVars
  PROVE  IndexInv'
<1>1. UNCHANGED <<tip, flagged, todo, mode, written, failed, txBlock, spentBy, entries, beaten, missed>>
  BY DEF indexVars
<1>2. MostWork' = MostWork
  BY <1>1 DEF MostWork
<1>3. IndexTyped' /\ OriginInv' /\ KeptInv'
  BY <1>1, StoresUnseen DEF IndexInv, IndexTyped
<1>4. WrittenInv' /\ QueueInv'
  BY <1>1 DEF IndexInv, WrittenInv, QueueInv, HasTxs, HasSpends, HasEntries, Closed
<1>5. CoverInv' /\ LaterInv'
  BY <1>1, <1>2 DEF IndexInv, CoverInv, LaterInv, Overwrites, SpentIn
<1> QED
  BY <1>3, <1>4, <1>5 DEF IndexInv

LEMMA IndexStep == IndexInv /\ [IndexNext]_indexVars => IndexInv'
<1> SUFFICES ASSUME IndexInv, [IndexNext]_indexVars
             PROVE  IndexInv'
  OBVIOUS
<1>1. CASE Restart
  BY <1>1, RestartInv
<1>2. CASE StartDownload
  BY <1>2, StartDownloadInv
<1>3. CASE Flag
  BY <1>3, FlagInv
<1>4. ASSUME NEW b \in Blocks, NewHeader(b)
      PROVE  IndexInv'
  BY <1>4, NewHeaderInv
<1>5. ASSUME NEW s \in Stores, Write(s)
      PROVE  IndexInv'
  BY <1>5, WriteInv
<1>6. ASSUME NEW s \in Stores, WriteFails(s)
      PROVE  IndexInv'
  BY <1>6, WriteFailsInv
<1>7. CASE UNCHANGED indexVars
  BY <1>7, IndexStutters
<1> QED
  BY <1>1, <1>2, <1>3, <1>4, <1>5, <1>6, <1>7 DEF IndexNext

---------------------------------------------------------------------------
(* The stores hold the chain. *)

LEMMA IndexInvExact == IndexInv => IndexExact
<1> SUFFICES ASSUME IndexInv, Settled
             PROVE  IndexExact
  BY DEF IndexExact
<1>1. MostWork \subseteq flagged /\ MostWork \cap beaten \subseteq missed
  BY EmptyBasics DEF IndexInv, CoverInv, Settled
<1>2. \A b \in MostWork \ (missed \cup {Genesis}) : Stored(b)
  BY <1>1 DEF IndexInv, KeptInv
<1>3. ASSUME NEW b \in MostWork \ (missed \cup {Genesis})
      PROVE  /\ \A x \in Held(b).txs : TxPage(x) = b
             /\ Held(b).spends \subseteq SpendsShown
             /\ Held(b).entries \subseteq entries
  <2>1. HasTxs(b) /\ HasSpends(b) /\ HasEntries(b)
    BY <1>2 DEF Stored
  <2>2. \A x \in Held(b).txs : TxPage(x) = b
    BY <2>1 DEF Held, TxPage, HasTxs
  <2>3. Held(b).entries \subseteq entries
    BY <2>1 DEF Held, HasEntries
  <2>4. ASSUME NEW x \in TxsOf[b], NEW o \in Spends[x]
        PROVE  [output |-> o, tx |-> x] \in SpendsShown
    <3> DEFINE s == [output |-> o, tx |-> x, block |-> b]
    <3>1. s \in spentBy
      BY <2>1 DEF HasSpends, AllSpends
    <3>2. s.block \in MostWork /\ s.output = o /\ s.tx = x
      OBVIOUS
    <3> HIDE DEF s
    <3> QED
      BY <3>1, <3>2 DEF SpendsShown
  <2>5. Held(b).spends \subseteq SpendsShown
    BY <2>4 DEF Held
  <2> QED
    BY <2>2, <2>3, <2>5
<1>4. OriginInv
  BY DEF IndexInv
<1>5. SpendsShown \subseteq UNION {Held(b).spends : b \in MostWork}
  <2> SUFFICES ASSUME NEW s \in spentBy, s.block \in MostWork
               PROVE  [output |-> s.output, tx |-> s.tx] \in UNION {Held(b).spends : b \in MostWork}
    BY DEF SpendsShown
  <2>1. s \in AllSpends(s.block)
    BY <1>4 DEF OriginInv
  <2>2. s.tx \in TxsOf[s.block] /\ s.output \in Spends[s.tx]
    BY <2>1, SpendFacts
  <2>3. [output |-> s.output, tx |-> s.tx] \in Held(s.block).spends
    BY <2>2 DEF Held
  <2> QED
    BY <2>3
<1>6. {e \in entries : e.block \in MostWork} \subseteq UNION {Held(b).entries : b \in MostWork}
  <2> SUFFICES ASSUME NEW e \in entries, e.block \in MostWork
               PROVE  e \in UNION {Held(b).entries : b \in MostWork}
    OBVIOUS
  <2>1. e \in Held(e.block).entries
    BY <1>4 DEF OriginInv, Held
  <2> QED
    BY <2>1
<1> QED
  BY <1>3, <1>5, <1>6 DEF IndexExact

\* write_analyzed_txs and the chain watcher: through any sequence of forks, of
\* forks back to a branch applied before, of restarts between any two writes
\* and of writes that fail, whenever the queue has run empty the stores give
\* every transaction of the chain its own block, its spends and its address
\* entries, and the readers show nothing of an abandoned branch; but for the
\* blocks a restart passed over and those a write of which failed.
THEOREM IndexIsExact == IndexSpec => []IndexExact
<1>1. IndexInit => IndexInv
  BY IndexInitInv
<1>2. IndexInv /\ [IndexNext]_indexVars => IndexInv'
  BY IndexStep
<1>3. IndexInv => IndexExact
  BY IndexInvExact
<1> QED
  BY <1>1, <1>2, <1>3, PTL DEF IndexSpec

---------------------------------------------------------------------------
(* What is left of a list. *)

\* A list that is not empty is one with an element at its end.
LEMMA FrontAndLast ==
  ASSUME NEW U, NEW s \in Seq(U), NEW n \in Nat, Len(s) = n + 1
  PROVE  \E t \in Seq(U), e \in U :
           /\ s = Append(t, e) /\ Len(t) = n /\ e = s[n + 1]
           /\ \A i \in 1..n : t[i] = s[i]
<1> DEFINE t == SubSeq(s, 1, n)
           u == SubSeq(s, n + 1, Len(s))
           e == s[n + 1]
<1>1. n \in 0..Len(s) /\ n + 1 \in 1..Len(s)
  OBVIOUS
<1>2. e \in U
  BY <1>1, ListBasics
<1>3. t \in Seq(U) /\ u \in Seq(U) /\ Len(t) = n /\ Len(u) = 1 /\ t \o u = s
  BY <1>1, ListSplit
<1> HIDE DEF t, u
<1>4. \A i \in 1..(n + 1) : s[i] = IF i <= n THEN t[i] ELSE u[i - n]
  <2> DEFINE tu == t \o u
  <2>1. \A i \in 1..(Len(t) + Len(u)) : tu[i] = IF i <= Len(t) THEN t[i] ELSE u[i - Len(t)]
    BY <1>3, ConcatProperties
  <2>2. tu = s /\ Len(t) = n /\ Len(u) = 1
    BY <1>3
  <2> HIDE DEF tu
  <2> QED
    BY <2>1, <2>2
<1>5. u[1] = e
  <2>1. n + 1 \in 1..(n + 1) /\ ~(n + 1 <= n) /\ (n + 1) - n = 1
    OBVIOUS
  <2> QED
    BY <1>4, <2>1
<1>6. u = <<e>>
  BY <1>3, <1>5
<1>7. s = Append(t, e)
  BY <1>2, <1>3, <1>6, AppendIsConcat
<1>8. \A i \in 1..n : t[i] = s[i]
  BY <1>4
<1> QED
  BY <1>2, <1>3, <1>7, <1>8

LEMMA FilteredConcat ==
  ASSUME NEW U, NEW s \in Seq(U), NEW t \in Seq(U), NEW S
  PROVE  Filtered(s \o t, S) = Filtered(s, S) \o Filtered(t, S)
<1> DEFINE Splits(x) == Filtered(s \o x, S) = Filtered(s, S) \o Filtered(x, S)
           T == {n \in Nat : \A x \in Seq(U) : Len(x) = n => Splits(x)}
<1>0. Filtered(s, S) \in Seq(U) /\ \A x \in Seq(U) : Filtered(x, S) \in Seq(U)
  BY FilteredType
<1>1. 0 \in T
  <2> SUFFICES ASSUME NEW x \in Seq(U), Len(x) = 0
               PROVE  Splits(x)
    OBVIOUS
  <2>1. x = <<>> /\ s \o x = s
    BY ListBasics, ConcatBasics
  <2>2. Filtered(x, S) = <<>>
    BY <2>1, FilteredEmpty
  <2>3. Filtered(s, S) \o <<>> = Filtered(s, S)
    BY <1>0, ConcatBasics
  <2> QED
    BY <2>1, <2>2, <2>3
<1>2. ASSUME NEW n \in Nat, n \in T
      PROVE  n + 1 \in T
  <2> SUFFICES ASSUME NEW x \in Seq(U), Len(x) = n + 1
               PROVE  Splits(x)
    OBVIOUS
  <2>1. PICK y \in Seq(U), e \in U : /\ x = Append(y, e) /\ Len(y) = n /\ e = x[n + 1]
                                     /\ \A i \in 1..n : y[i] = x[i]
    BY FrontAndLast
  <2>2. Splits(y)
    BY <1>2, <2>1
  <2>3. s \o x = Append(s \o y, e) /\ s \o y \in Seq(U)
    BY <2>1, AppendOfConcat, ConcatBasics
  <2>4. Filtered(s \o x, S) = IF e \in S THEN Append(Filtered(s \o y, S), e) ELSE Filtered(s \o y, S)
    <3> DEFINE sy == s \o y
    <3>1. sy \in Seq(U) /\ s \o x = Append(sy, e)
      BY <2>3
    <3> HIDE DEF sy
    <3>2. Filtered(Append(sy, e), S) = IF e \in S THEN Append(Filtered(sy, S), e) ELSE Filtered(sy, S)
      BY <3>1, FilteredAppend
    <3> QED
      BY <3>1, <3>2 DEF sy
  <2>5. Filtered(x, S) = IF e \in S THEN Append(Filtered(y, S), e) ELSE Filtered(y, S)
    <3>1. Filtered(Append(y, e), S) = IF e \in S THEN Append(Filtered(y, S), e) ELSE Filtered(y, S)
      BY FilteredAppend
    <3> QED
      BY <2>1, <3>1
  <2>6. Filtered(s, S) \o Append(Filtered(y, S), e) = Append(Filtered(s, S) \o Filtered(y, S), e)
    BY <1>0, AppendOfConcat
  <2> QED
    BY <2>2, <2>4, <2>5, <2>6
<1>3. Nat \subseteq T
  <2> HIDE DEF T
  <2> QED
    BY <1>1, <1>2, NaturalsInSet
<1>4. Len(t) \in T
  BY <1>3, ListBasics
<1> QED
  BY <1>4

\* Two sets that agree on a list leave the same of it.
LEMMA FilteredSame ==
  ASSUME NEW U, NEW s \in Seq(U), NEW S, NEW R,
         \A i \in 1..Len(s) : s[i] \in S <=> s[i] \in R
  PROVE  Filtered(s, S) = Filtered(s, R)
<1> DEFINE F == Filtering(s, S)
           G == Filtering(s, R)
           T == {n \in Nat : n <= Len(s) => F[n] = G[n]}
<1>1. Len(s) \in Nat
  BY ListBasics
<1>2. /\ F[0] = <<>>
      /\ \A i \in 1..Len(s) : F[i] = IF s[i] \in S THEN Append(F[i - 1], s[i]) ELSE F[i - 1]
  BY FilteringStep
<1>3. /\ G[0] = <<>>
      /\ \A i \in 1..Len(s) : G[i] = IF s[i] \in R THEN Append(G[i - 1], s[i]) ELSE G[i - 1]
  BY FilteringStep
<1> HIDE DEF F, G
<1>4. 0 \in T
  BY <1>2, <1>3
<1>5. ASSUME NEW n \in Nat, n \in T
      PROVE  n + 1 \in T
  <2> SUFFICES ASSUME n + 1 <= Len(s)
               PROVE  F[n + 1] = G[n + 1]
    OBVIOUS
  <2>1. n + 1 \in 1..Len(s) /\ (n + 1) - 1 = n /\ F[n] = G[n]
    BY <1>1, <1>5
  <2>2. F[n + 1] = IF s[n + 1] \in S THEN Append(F[n], s[n + 1]) ELSE F[n]
    BY <1>2, <2>1
  <2>3. G[n + 1] = IF s[n + 1] \in R THEN Append(G[n], s[n + 1]) ELSE G[n]
    BY <1>3, <2>1
  <2>4. s[n + 1] \in S <=> s[n + 1] \in R
    BY <2>1
  <2> QED
    BY <2>1, <2>2, <2>3, <2>4
<1>6. Nat \subseteq T
  <2> HIDE DEF T
  <2> QED
    BY <1>4, <1>5, NaturalsInSet
<1>7. F[Len(s)] = G[Len(s)]
  BY <1>1, <1>6
<1> QED
  BY <1>7 DEF Filtered, F, G

LEMMA FilteredNone ==
  ASSUME NEW U, NEW s \in Seq(U), NEW S, \A i \in 1..Len(s) : s[i] \notin S
  PROVE  Filtered(s, S) = <<>>
<1> DEFINE F == Filtering(s, S)
           T == {n \in Nat : n <= Len(s) => F[n] = <<>>}
<1>1. Len(s) \in Nat
  BY ListBasics
<1>2. /\ F[0] = <<>>
      /\ \A i \in 1..Len(s) : F[i] = IF s[i] \in S THEN Append(F[i - 1], s[i]) ELSE F[i - 1]
  BY FilteringStep
<1> HIDE DEF F
<1>3. 0 \in T
  BY <1>2
<1>4. ASSUME NEW n \in Nat, n \in T
      PROVE  n + 1 \in T
  <2> SUFFICES ASSUME n + 1 <= Len(s)
               PROVE  F[n + 1] = <<>>
    OBVIOUS
  <2>1. n + 1 \in 1..Len(s) /\ (n + 1) - 1 = n /\ F[n] = <<>>
    BY <1>1, <1>4
  <2> QED
    BY <1>2, <2>1
<1>5. Nat \subseteq T
  <2> HIDE DEF T
  <2> QED
    BY <1>3, <1>4, NaturalsInSet
<1>6. F[Len(s)] = <<>>
  BY <1>1, <1>5
<1> QED
  BY <1>6 DEF Filtered, F

LEMMA FilteredAll ==
  ASSUME NEW U, NEW s \in Seq(U), NEW S, \A i \in 1..Len(s) : s[i] \in S
  PROVE  Filtered(s, S) = s
<1> DEFINE In(x) == \A i \in 1..Len(x) : x[i] \in S
           T == {n \in Nat : \A x \in Seq(U) : Len(x) = n /\ In(x) => Filtered(x, S) = x}
<1>1. 0 \in T
  <2> SUFFICES ASSUME NEW x \in Seq(U), Len(x) = 0
               PROVE  Filtered(x, S) = x
    OBVIOUS
  <2>1. x = <<>>
    BY ListBasics
  <2> QED
    BY <2>1, FilteredEmpty
<1>2. ASSUME NEW n \in Nat, n \in T
      PROVE  n + 1 \in T
  <2> SUFFICES ASSUME NEW x \in Seq(U), Len(x) = n + 1, In(x)
               PROVE  Filtered(x, S) = x
    OBVIOUS
  <2>1. PICK y \in Seq(U), e \in U : /\ x = Append(y, e) /\ Len(y) = n /\ e = x[n + 1]
                                     /\ \A i \in 1..n : y[i] = x[i]
    BY FrontAndLast
  <2>2. In(y) /\ e \in S
    BY <2>1
  <2>3. Filtered(y, S) = y
    BY <1>2, <2>1, <2>2
  <2>4. Filtered(x, S) = IF e \in S THEN Append(Filtered(y, S), e) ELSE Filtered(y, S)
    <3>1. Filtered(Append(y, e), S) = IF e \in S THEN Append(Filtered(y, S), e) ELSE Filtered(y, S)
      BY FilteredAppend
    <3> QED
      BY <2>1, <3>1
  <2> QED
    BY <2>1, <2>2, <2>3, <2>4
<1>3. Nat \subseteq T
  <2> HIDE DEF T
  <2> QED
    BY <1>1, <1>2, NaturalsInSet
<1>4. Len(s) \in T
  BY <1>3, ListBasics
<1> QED
  BY <1>4

\* Where the last element that is left stands.
LastLeft(U, S, s) ==
  \E a \in Seq(U), x \in S \cap U, b \in Seq(U) :
    /\ s = Append(a, x) \o b
    /\ Filtered(s, S) = Filtered(Append(a, x), S)
    /\ Last(Filtered(s, S)) = x

LEMMA FilteredLast ==
  ASSUME NEW U, NEW S
  PROVE  \A s \in Seq(U) : Filtered(s, S) # <<>> => LastLeft(U, S, s)
<1> DEFINE Ends(s) == LastLeft(U, S, s)
           T == {n \in Nat : \A y \in Seq(U) : Len(y) = n /\ Filtered(y, S) # <<>> => Ends(y)}
<1>1. 0 \in T
  <2> SUFFICES ASSUME NEW y \in Seq(U), Len(y) = 0, Filtered(y, S) # <<>>
               PROVE  FALSE
    OBVIOUS
  <2>1. y = <<>>
    BY ListBasics
  <2> QED
    BY <2>1, FilteredEmpty
<1>2. ASSUME NEW n \in Nat, n \in T
      PROVE  n + 1 \in T
  <2> SUFFICES ASSUME NEW y \in Seq(U), Len(y) = n + 1, Filtered(y, S) # <<>>
               PROVE  Ends(y)
    OBVIOUS
  <2>1. PICK z \in Seq(U), e \in U : /\ y = Append(z, e) /\ Len(z) = n /\ e = y[n + 1]
                                     /\ \A i \in 1..n : z[i] = y[i]
    BY FrontAndLast
  <2>2. Filtered(y, S) = IF e \in S THEN Append(Filtered(z, S), e) ELSE Filtered(z, S)
    <3>1. Filtered(Append(z, e), S) = IF e \in S THEN Append(Filtered(z, S), e) ELSE Filtered(z, S)
      BY FilteredAppend
    <3> QED
      BY <2>1, <3>1
  <2>3. CASE e \in S
    <3>1. Filtered(z, S) \in Seq(U)
      BY FilteredType
    <3>2. Last(Filtered(y, S)) = e
      BY <2>2, <2>3, <3>1, AppendBasics
    <3>3. y = Append(z, e) \o <<>> /\ <<>> \in Seq(U)
      BY <2>1, ConcatBasics, EmptyBasics
    <3> QED
      BY <2>1, <2>3, <3>2, <3>3 DEF LastLeft
  <2>4. CASE e \notin S
    <3>1. Filtered(y, S) = Filtered(z, S)
      BY <2>2, <2>4
    <3>2. Ends(z)
      BY <1>2, <2>1, <3>1
    <3>3. PICK a \in Seq(U), x \in S \cap U, b \in Seq(U) :
             /\ z = Append(a, x) \o b
             /\ Filtered(z, S) = Filtered(Append(a, x), S)
             /\ Last(Filtered(z, S)) = x
      BY <3>2 DEF LastLeft
    <3>4. Append(b, e) \in Seq(U) /\ Append(a, x) \in Seq(U)
      BY AppendBasics
    <3>5. y = Append(a, x) \o Append(b, e)
      <4> DEFINE ax == Append(a, x)
      <4>1. ax \in Seq(U) /\ z = ax \o b
        BY <3>3, <3>4
      <4> HIDE DEF ax
      <4>2. ax \o Append(b, e) = Append(ax \o b, e)
        BY <4>1, AppendOfConcat
      <4> QED
        BY <2>1, <4>1, <4>2 DEF ax
    <3> QED
      BY <3>1, <3>3, <3>4, <3>5 DEF LastLeft
  <2> QED
    BY <2>3, <2>4
<1>3. Nat \subseteq T
  <2> HIDE DEF T
  <2> QED
    BY <1>1, <1>2, NaturalsInSet
<1>4. \A s \in Seq(U) : Len(s) \in Nat
  BY ListBasics
<1> QED
  BY <1>3, <1>4

LEMMA ConcatAt ==
  ASSUME NEW U, NEW s \in Seq(U), NEW t \in Seq(U)
  PROVE  /\ \A i \in 1..Len(s) : (s \o t)[i] = s[i]
         /\ \A i \in 1..Len(t) : (s \o t)[Len(s) + i] = t[i]
         /\ Len(s) \in Nat /\ Len(t) \in Nat /\ Len(s \o t) = Len(s) + Len(t)
<1> DEFINE st == s \o t
<1>1. Len(s) \in Nat /\ Len(t) \in Nat
  BY LenProperties
<1>2. /\ Len(st) = Len(s) + Len(t)
      /\ \A i \in 1..(Len(s) + Len(t)) : st[i] = IF i <= Len(s) THEN s[i] ELSE t[i - Len(s)]
  BY ConcatProperties
<1> HIDE DEF st
<1>3. \A i \in 1..Len(s) : st[i] = s[i]
  BY <1>1, <1>2
<1>4. ASSUME NEW i \in 1..Len(t)
      PROVE  st[Len(s) + i] = t[i]
  <2>1. Len(s) + i \in 1..(Len(s) + Len(t)) /\ ~(Len(s) + i <= Len(s)) /\ (Len(s) + i) - Len(s) = i
    BY <1>1
  <2> QED
    BY <1>2, <2>1
<1> QED
  BY <1>1, <1>2, <1>3, <1>4 DEF st

LEMMA TailOfConcat ==
  ASSUME NEW U, NEW x \in U, NEW t \in Seq(U)
  PROVE  <<x>> \o t # <<>> /\ Tail(<<x>> \o t) = t
<1> DEFINE s == <<x>> \o t
           u == Tail(s)
<1>1. <<x>> \in Seq(U) /\ <<x>> # <<>> /\ Len(<<x>>) = 1
  BY SingleBasics
<1>2. s \in Seq(U) /\ s # <<>>
  BY <1>1, ConcatBasics
<1>3. Len(s) = 1 + Len(t) /\ Len(t) \in Nat /\ \A i \in 1..Len(t) : s[1 + i] = t[i]
  <2> DEFINE one == <<x>>
  <2>1. one \in Seq(U) /\ Len(one) = 1
    BY <1>1
  <2> HIDE DEF one
  <2>2. /\ \A i \in 1..Len(t) : (one \o t)[Len(one) + i] = t[i]
        /\ Len(one \o t) = Len(one) + Len(t) /\ Len(t) \in Nat
    BY <2>1, ConcatAt
  <2>3. s = one \o t
    BY DEF one
  <2> HIDE DEF s
  <2> QED
    BY <2>1, <2>2, <2>3
<1> HIDE DEF s
<1>4. /\ u \in Seq(U) /\ Len(u) = Len(s) - 1
      /\ \A i \in 1..(Len(s) - 1) : u[i] = s[i + 1]
  BY <1>2, TailBasics
<1> HIDE DEF u
<1>5. Len(u) = Len(t) /\ \A i \in 1..Len(u) : u[i] = t[i]
  BY <1>3, <1>4
<1>6. u = t
  BY <1>4, <1>5, SeqEqual
<1> QED
  BY <1>2, <1>6 DEF s, u

\* A limit cuts a list in two.
LEMMA FirstSplit ==
  ASSUME NEW U, NEW r \in Seq(U), NEW limit \in Nat \ {0}
  PROVE  \E q \in Seq(U) :
           /\ First(limit, r) \in Seq(U) /\ r = First(limit, r) \o q
           /\ Len(r) < limit => q = <<>>
           /\ Len(r) >= limit => Len(First(limit, r)) = limit
<1>1. Len(r) \in Nat
  BY ListBasics
<1>2. CASE limit >= Len(r)
  <2> DEFINE f == First(limit, r)
             q == <<>>
  <2>1. f = r /\ r = f \o q /\ q \in Seq(U) /\ q = <<>>
    BY <1>2, ConcatBasics, EmptyBasics DEF First
  <2> HIDE DEF f, q
  <2>2. Len(r) >= limit => Len(f) = limit
    BY <1>1, <1>2, <2>1
  <2> QED
    BY <2>1, <2>2 DEF f
<1>3. CASE limit < Len(r)
  <2>1. limit \in 0..Len(r)
    BY <1>1, <1>3
  <2>2. First(limit, r) = SubSeq(r, 1, limit)
    BY <1>1, <1>3 DEF First
  <2>3. /\ SubSeq(r, 1, limit) \in Seq(U) /\ SubSeq(r, limit + 1, Len(r)) \in Seq(U)
        /\ Len(SubSeq(r, 1, limit)) = limit
        /\ SubSeq(r, 1, limit) \o SubSeq(r, limit + 1, Len(r)) = r
    BY <2>1, ListSplit
  <2>4. ~(Len(r) < limit)
    BY <1>1, <1>3
  <2> DEFINE q == SubSeq(r, limit + 1, Len(r))
             p == SubSeq(r, 1, limit)
  <2>5. p \in Seq(U) /\ q \in Seq(U) /\ Len(p) = limit /\ r = p \o q /\ First(limit, r) = p
    BY <2>2, <2>3
  <2> HIDE DEF p, q
  <2> QED
    BY <2>4, <2>5
<1> QED
  BY <1>1, <1>2, <1>3

---------------------------------------------------------------------------
(* Readers of a list of entries in the order of their keys. *)

KeysTyped(U) == \A e \in U : e.key.time \in Nat /\ e.key.tx \in Nat
Parts(s, a, x, b) == s = a \o (<<x>> \o b)
Ordered(s) == \A i, j \in 1..Len(s) : i < j => Before(s[i], s[j])

\* Seeking the key of an entry leads to the entry.
LEMMA SeekFinds ==
  ASSUME NEW U, KeysTyped(U), NEW a \in Seq(U), NEW x \in U, NEW b \in Seq(U),
         NEW all, Parts(all, a, x, b), Ordered(all)
  PROVE  Seek(all, x) = <<x>> \o b
<1> DEFINE S == {e \in ToSet(all) : \/ e.key.time < x.key.time
                                    \/ e.key.time = x.key.time /\ e.key.tx >= x.key.tx}
           one == <<x>>
           xb == one \o b
<1>1. one \in Seq(U) /\ Len(one) = 1 /\ one[1] = x
  BY SingleBasics
<1> HIDE DEF one
<1>2. xb \in Seq(U) /\ Len(xb) = 1 + Len(b) /\ Len(b) \in Nat /\ Len(a) \in Nat
  <2>1. xb \in Seq(U) /\ Len(xb) = Len(one) + Len(b)
    <3>1. one \in Seq(U)
      BY <1>1
    <3> QED
      BY <3>1, ConcatProperties
  <2>2. Len(b) \in Nat /\ Len(a) \in Nat
    BY ListBasics
  <2> QED
    BY <1>1, <2>1, <2>2
<1>3. xb[1] = x /\ \A i \in 1..Len(b) : xb[1 + i] = b[i]
  <2>1. /\ \A i \in 1..Len(one) : (one \o b)[i] = one[i]
        /\ \A i \in 1..Len(b) : (one \o b)[Len(one) + i] = b[i]
    BY <1>1, ConcatAt
  <2>2. 1 \in 1..Len(one)
    BY <1>1
  <2>3. (one \o b)[1] = x /\ \A i \in 1..Len(b) : (one \o b)[1 + i] = b[i]
    BY <1>1, <2>1, <2>2, Zenon
  <2> QED
    BY <2>3
<1>4. all = a \o xb
  BY DEF one, Parts
<1> HIDE DEF xb
<1>5. /\ \A i \in 1..Len(a) : all[i] = a[i]
      /\ \A i \in 1..Len(xb) : all[Len(a) + i] = xb[i]
      /\ Len(all) = Len(a) + Len(xb)
  BY <1>2, <1>4, ConcatAt
<1>6. all \in Seq(U)
  BY <1>2, <1>4, ConcatBasics
<1>7. all[Len(a) + 1] = x /\ Len(a) + 1 \in 1..Len(all)
  BY <1>2, <1>3, <1>5
<1>8. ASSUME NEW i \in 1..Len(a)
      PROVE  a[i] \notin S
  <2>1. i \in 1..Len(all) /\ i < Len(a) + 1
    BY <1>2, <1>5
  <2>2. Before(a[i], x)
    BY <1>5, <1>7, <2>1 DEF Ordered
  <2>3. a[i] \in U
    BY ListBasics
  <2> QED
    BY <2>2, <2>3 DEF Before, KeysTyped
<1>9. ASSUME NEW i \in 1..Len(xb)
      PROVE  xb[i] \in S
  <2>1. xb[i] \in U /\ xb[i] \in ToSet(all)
    <3>1. xb[i] \in U /\ xb[i] \in ToSet(xb)
      BY <1>2, ListBasics
    <3>2. ToSet(all) = ToSet(a) \cup ToSet(xb)
      BY <1>2, <1>4, ConcatBasics
    <3> QED
      BY <3>1, <3>2
  <2>2. CASE i = 1
    BY <1>3, <2>1, <2>2 DEF KeysTyped
  <2>3. CASE i # 1
    <3>1. Len(a) + i \in 1..Len(all) /\ Len(a) + 1 < Len(a) + i
      BY <1>2, <1>5, <2>3
    <3>2. Before(all[Len(a) + 1], all[Len(a) + i])
      BY <1>7, <3>1 DEF Ordered
    <3>3. Before(x, xb[i])
      BY <1>5, <1>7, <3>2
    <3> QED
      BY <2>1, <3>3 DEF Before, KeysTyped
  <2> QED
    BY <2>2, <2>3
<1>10. Seek(all, x) = Filtered(all, S)
  BY DEF Seek
<1> HIDE DEF S
<1>11. Filtered(all, S) = Filtered(a, S) \o Filtered(xb, S)
  BY <1>2, <1>4, FilteredConcat
<1>12. Filtered(a, S) = <<>>
  BY <1>8, FilteredNone
<1>13. Filtered(xb, S) = xb
  BY <1>2, <1>9, FilteredAll
<1>14. <<>> \o xb = xb
  BY <1>2, ConcatBasics
<1> QED
  BY <1>10, <1>11, <1>12, <1>13, <1>14 DEF xb, one

\* The page after an entry begins behind it.
LEMMA ContinueFinds ==
  ASSUME NEW U, KeysTyped(U), NEW a \in Seq(U), NEW x \in U, NEW b \in Seq(U),
         NEW all, Parts(all, a, x, b), Ordered(all), NEW limit \in Nat \ {0}
  PROVE  AddressEntriesContinue(all, x, limit) = First(limit, b)
<1>1. Seek(all, x) = <<x>> \o b
  BY SeekFinds
<1>2. <<x>> \o b # <<>> /\ Tail(<<x>> \o b) = b
  BY TailOfConcat
<1>3. limit # 0
  OBVIOUS
<1> DEFINE rest == Seek(all, x)
<1>4. rest # <<>> /\ Tail(rest) = b
  BY <1>1, <1>2
<1>5. AddressEntriesContinue(all, x, limit) = UpTo(limit, IF rest = <<>> THEN rest ELSE Tail(rest))
  BY DEF AddressEntriesContinue
<1> HIDE DEF rest
<1>6. AddressEntriesContinue(all, x, limit) = UpTo(limit, b)
  BY <1>4, <1>5
<1> QED
  BY <1>3, <1>6 DEF UpTo

LEMMA FilteredSome ==
  ASSUME NEW U, NEW s \in Seq(U), NEW S, Filtered(s, S) = <<>>
  PROVE  \A i \in 1..Len(s) : s[i] \notin S
<1> DEFINE Out(x) == \A i \in 1..Len(x) : x[i] \notin S
           T == {n \in Nat : \A x \in Seq(U) : Len(x) = n /\ Filtered(x, S) = <<>> => Out(x)}
<1>1. 0 \in T
  OBVIOUS
<1>2. ASSUME NEW n \in Nat, n \in T
      PROVE  n + 1 \in T
  <2> SUFFICES ASSUME NEW x \in Seq(U), Len(x) = n + 1, Filtered(x, S) = <<>>
               PROVE  Out(x)
    <3> HIDE DEF Out
    <3> QED
      OBVIOUS
  <2>1. PICK y \in Seq(U), e \in U : /\ x = Append(y, e) /\ Len(y) = n /\ e = x[n + 1]
                                     /\ \A i \in 1..n : y[i] = x[i]
    BY FrontAndLast
  <2>2. Filtered(x, S) = IF e \in S THEN Append(Filtered(y, S), e) ELSE Filtered(y, S)
    <3>1. Filtered(Append(y, e), S) = IF e \in S THEN Append(Filtered(y, S), e) ELSE Filtered(y, S)
      BY FilteredAppend
    <3> QED
      BY <2>1, <3>1
  <2>3. Append(Filtered(y, S), e) # <<>>
    <3>1. Filtered(y, S) \in Seq(U)
      BY FilteredType
    <3> QED
      BY <3>1, AppendBasics
  <2>4. e \notin S /\ Filtered(y, S) = <<>>
    BY <2>2, <2>3
  <2>5. Out(y)
    BY <1>2, <2>1, <2>4
  <2> QED
    BY <2>1, <2>4, <2>5
<1>3. Nat \subseteq T
  <2> HIDE DEF T
  <2> QED
    BY <1>1, <1>2, NaturalsInSet
<1>4. Len(s) \in T
  BY <1>3, ListBasics
<1> QED
  BY <1>4

---------------------------------------------------------------------------
(* A client that walks the pages. *)

OnTop(U) == {e \in U : e.block \in MostWork}

LEMMA OnChainFilters ==
  ASSUME NEW U, NEW s \in Seq(U)
  PROVE  OnChain(s) = Filtered(s, OnTop(U))
<1> DEFINE S == {e \in ToSet(s) : e.block \in MostWork}
           R == OnTop(U)
<1>1. \A i \in 1..Len(s) : s[i] \in U /\ s[i] \in ToSet(s)
  BY ListBasics
<1>2. \A i \in 1..Len(s) : s[i] \in S <=> s[i] \in R
  BY <1>1 DEF OnTop
<1>3. OnChain(s) = Filtered(s, S)
  BY DEF OnChain
<1> HIDE DEF S, R
<1>4. Filtered(s, S) = Filtered(s, R)
  BY <1>2, FilteredSame
<1> QED
  BY <1>3, <1>4 DEF R

\* What a client has after k requests: it was shown the entries of the chain
\* among the first, p, and has the next page of the others, r.
Reached(U, all, limit, w, k) ==
  \E p, r \in Seq(U) :
    /\ all = p \o r
    /\ w.shown = Filtered(p, OnTop(U))
    /\ w.page = Filtered(First(limit, r), OnTop(U))
    /\ w.page = <<>> \/ Len(p) >= k

LEMMA WalkDef ==
  ASSUME NEW all, NEW limit, NEW m \in Nat
  PROVE  Walk(all, limit, m) =
           [n \in 0..m |->
              IF n = 0 THEN [shown |-> <<>>, page |-> OnChain(TopAddressData(all, limit).transactions)]
              ELSE NextPage(all, limit, Walk(all, limit, m)[n - 1])]
<1> DEFINE first == [shown |-> <<>>, page |-> OnChain(TopAddressData(all, limit).transactions)]
           After(w) == NextPage(all, limit, w)
           Value(g, i) == IF i = 0 THEN first ELSE After(g[i - 1])
           Is(n, g) == g = [i \in 0..n |-> Value(g, i)]
           T == {n \in Nat : \E g : Is(n, g)}
<1> HIDE DEF first, After
<1>1. 0 \in T
  <2> DEFINE g == [i \in 0..0 |-> first]
  <2>1. Is(0, g)
    OBVIOUS
  <2> QED
    BY <2>1
<1>2. ASSUME NEW n \in Nat, n \in T
      PROVE  n + 1 \in T
  <2>1. PICK g : Is(n, g)
    BY <1>2
  <2> DEFINE h == [i \in 0..(n + 1) |-> IF i <= n THEN g[i] ELSE After(g[n])]
  <2>2. \A i \in 0..n : g[i] = Value(g, i)
    BY <2>1
  <2>3. ASSUME NEW i \in 0..(n + 1)
        PROVE  h[i] = Value(h, i)
    <3>1. CASE i = 0
      BY <3>1, <2>2
    <3>2. CASE i \in 1..n
      <4>1. i - 1 \in 0..n /\ i - 1 \in 0..(n + 1)
        BY <3>2
      <4>2. h[i] = g[i] /\ h[i - 1] = g[i - 1]
        BY <4>1, <3>2
      <4> QED
        BY <4>2, <2>2, <3>2
    <3>3. CASE i = n + 1
      <4>1. h[n] = g[n] /\ i - 1 = n /\ i # 0 /\ ~(i <= n)
        BY <3>3
      <4> QED
        BY <4>1, <3>3
    <3> QED
      BY <3>1, <3>2, <3>3
  <2>4. h = [i \in 0..(n + 1) |-> h[i]]
    OBVIOUS
  <2> HIDE DEF h
  <2>5. Is(n + 1, h)
    BY <2>3, <2>4
  <2> QED
    BY <2>5
<1>3. Nat \subseteq T
  <2> HIDE DEF T
  <2> QED
    BY <1>1, <1>2, NaturalsInSet
<1>4. \E g : Is(m, g)
  BY <1>3
<1>5. Walk(all, limit, m) = CHOOSE g : Is(m, g)
  BY DEF Walk, first, After
<1>6. Is(m, Walk(all, limit, m))
  <2> HIDE DEF Is
  <2> QED
    BY <1>4, <1>5
<1> QED
  BY <1>6 DEF first, After

LEMMA WalkBegins ==
  ASSUME NEW U, NEW all \in Seq(U), NEW limit \in Nat \ {0}
  PROVE  Reached(U, all, limit,
                 [shown |-> <<>>, page |-> OnChain(TopAddressData(all, limit).transactions)], 0)
<1> DEFINE q == First(limit, all)
           none == <<>>
           C == OnTop(U)
           w == [shown |-> <<>>, page |-> OnChain(TopAddressData(all, limit).transactions)]
<1>1. q \in Seq(U)
  BY FirstSplit
<1>2. TopAddressData(all, limit).transactions = q
  BY DEF TopAddressData
<1>3. w.shown = none /\ w.page = OnChain(q)
  BY <1>2
<1> HIDE DEF q, w
<1>4. OnChain(q) = Filtered(q, C)
  BY <1>1, OnChainFilters
<1>5. none \in Seq(U) /\ all = none \o all /\ Len(none) = 0
  BY ConcatBasics, EmptyBasics
<1>6. Filtered(none, C) = none
  BY FilteredEmpty
<1> HIDE DEF none, C
<1>7. w.shown = Filtered(none, C) /\ w.page = Filtered(First(limit, all), C) /\ Len(none) >= 0
  BY <1>3, <1>4, <1>5, <1>6 DEF q
<1>8. Reached(U, all, limit, w, 0)
  BY <1>5, <1>7 DEF Reached, C
<1> QED
  BY <1>8 DEF w

LEMMA ConcatType ==
  ASSUME NEW U
  PROVE  \A p, s \in Seq(U) : p \o s \in Seq(U)
<1> TAKE p, s \in Seq(U)
<1> QED
  BY ConcatProperties

LEMMA Reassociated ==
  ASSUME NEW U, NEW s \in Seq(U), NEW b \in Seq(U), NEW q \in Seq(U)
  PROVE  (s \o b) \o q = s \o (b \o q)
BY ConcatAssociative

Regroups(p, s, b, q) == p \o ((s \o b) \o q) = (p \o s) \o (b \o q)

LEMMA Regrouped ==
  ASSUME NEW U, NEW p \in Seq(U), NEW s \in Seq(U), NEW b \in Seq(U), NEW q \in Seq(U)
  PROVE  Regroups(p, s, b, q)
<1>1. b \o q \in Seq(U)
  BY ConcatProperties
<1>2. (s \o b) \o q = s \o (b \o q)
  BY ConcatAssociative
<1>3. \A t \in Seq(U) : (p \o s) \o t = p \o (s \o t)
  <2> TAKE t \in Seq(U)
  <2> QED
    BY Reassociated, Z3
<1>4. (p \o s) \o (b \o q) = p \o (s \o (b \o q))
  BY <1>1, <1>3, Zenon
<1> QED
  BY <1>2, <1>4, Zenon DEF Regroups

LEMMA PartsOf ==
  ASSUME NEW U, NEW p \in Seq(U), NEW a \in Seq(U), NEW x \in U, NEW t \in Seq(U)
  PROVE  Parts((p \o Append(a, x)) \o t, p \o a, x, t)
<1> DEFINE one == <<x>>
           pa == p \o a
<1>1. one \in Seq(U) /\ pa \in Seq(U)
  BY SingleBasics, ConcatProperties
<1>2. Append(a, x) = a \o one
  BY AppendIsConcat
<1> HIDE DEF one
<1>3. p \o (a \o one) = pa \o one
  BY <1>1, ConcatAssociative
<1> HIDE DEF pa
<1>4. (pa \o one) \o t = pa \o (one \o t)
  <2>1. t \in Seq(U) /\ one \in Seq(U) /\ pa \in Seq(U)
    BY <1>1
  <2> QED
    BY <2>1, Reassociated, Z3
<1>5. (p \o Append(a, x)) \o t = pa \o (one \o t)
  BY <1>2, <1>3, <1>4
<1> QED
  BY <1>5 DEF Parts, pa, one

\* The entries p are done, and f is the page after them: x is the last entry
\* shown of it, and s all entries up to x.
PageEnd(U, C, p, r, f) ==
  \E s \in Seq(U), a \in Seq(U), x \in U, t \in Seq(U) :
    /\ Parts(p \o r, a, x, t)
    /\ p \o r = s \o t
    /\ Last(Filtered(f, C)) = x
    /\ Filtered(s, C) = Filtered(p, C) \o Filtered(f, C)
    /\ Len(s) > Len(p)

LEMMA PageEnds ==
  ASSUME NEW U, NEW C, NEW p \in Seq(U), NEW r \in Seq(U), NEW limit \in Nat \ {0}
  PROVE  Filtered(First(limit, r), C) # <<>> => PageEnd(U, C, p, r, First(limit, r))
<1> DEFINE f == First(limit, r)
<1>1. PICK q \in Seq(U) : f \in Seq(U) /\ r = f \o q
  BY FirstSplit
<1> HIDE DEF f
<1>2. \A s \in Seq(U) : Filtered(s, C) # <<>> => LastLeft(U, C, s)
  BY FilteredLast
<1>3. \A z, b \in Seq(U) : Regroups(p, z, b, q)
  BY Regrouped
<1>4. \A z \in Seq(U) : Filtered(p \o z, C) = Filtered(p, C) \o Filtered(z, C)
  BY FilteredConcat
<1>5. \A z \in Seq(U) : p \o z \in Seq(U) /\ Len(p \o z) = Len(p) + Len(z)
  BY ConcatProperties
<1>6. ASSUME Filtered(f, C) # <<>>
      PROVE  PageEnd(U, C, p, r, f)
  <2>1. PICK a \in Seq(U), x \in C \cap U, b \in Seq(U) :
           /\ f = Append(a, x) \o b
           /\ Filtered(f, C) = Filtered(Append(a, x), C)
           /\ Last(Filtered(f, C)) = x
    BY <1>1, <1>2, <1>6, Zenon DEF LastLeft
  <2> DEFINE ax == Append(a, x)
             t == b \o q
             s == p \o ax
             pa == p \o a
  <2>2. ax \in Seq(U) /\ Len(ax) = Len(a) + 1 /\ Len(a) \in Nat /\ Len(p) \in Nat
    BY AppendProperties, LenProperties
  <2>3. t \in Seq(U) /\ pa \in Seq(U)
    BY ConcatType, Zenon
  <2>4. s \in Seq(U) /\ Len(s) = Len(p) + Len(ax)
    BY <1>5, <2>2, Zenon
  <2>5. Len(s) > Len(p)
    <3> HIDE DEF s, ax
    <3> QED
      BY <2>2, <2>4
  <2>6. p \o r = s \o t
    <3>1. p \o r = p \o ((ax \o b) \o q)
      BY <1>1, <2>1
    <3> QED
      BY <1>3, <2>2, <3>1, Zenon DEF Regroups
  <2>7. Parts(p \o r, pa, x, t)
    <3>1. \A z \in Seq(U) : Parts((p \o Append(a, x)) \o z, p \o a, x, z)
      BY PartsOf
    <3>2. Parts(s \o t, pa, x, t)
      BY <2>3, <3>1, Zenon
    <3> QED
      BY <2>6, <3>2, Zenon
  <2>8. Filtered(s, C) = Filtered(p, C) \o Filtered(f, C)
    BY <1>4, <2>1, <2>2, Zenon
  <2>9. Last(Filtered(f, C)) = x /\ x \in U
    BY <2>1
  <2> HIDE DEF s, t, pa, ax
  <2> QED
    BY <2>3, <2>4, <2>5, <2>6, <2>7, <2>8, <2>9, Zenon DEF PageEnd
<1> QED
  BY <1>6 DEF f

\* A page that is not empty ends with the last entry of the chain in it; the
\* next one begins behind that entry.
LEMMA WalkGoesOn ==
  ASSUME NEW U, KeysTyped(U), NEW all \in Seq(U), Ordered(all), NEW limit \in Nat \ {0},
         NEW w, NEW k \in Nat, Reached(U, all, limit, w, k)
  PROVE  Reached(U, all, limit, NextPage(all, limit, w), k + 1)
<1> DEFINE C == OnTop(U)
           next == NextPage(all, limit, w)
<1>1. PICK p \in Seq(U), r \in Seq(U) :
         /\ all = p \o r
         /\ w.shown = Filtered(p, C)
         /\ w.page = Filtered(First(limit, r), C)
         /\ w.page = <<>> \/ Len(p) >= k
  BY DEF Reached
<1>2. CASE w.page = <<>>
  <2>1. next = w
    BY <1>2 DEF NextPage
  <2> HIDE DEF next
  <2> QED
    BY <1>1, <1>2, <2>1 DEF Reached, next
<1>3. CASE w.page # <<>>
  <2>1. PICK s \in Seq(U), a \in Seq(U), x \in U, t \in Seq(U) :
           /\ Parts(p \o r, a, x, t)
           /\ p \o r = s \o t
           /\ Last(Filtered(First(limit, r), C)) = x
           /\ Filtered(s, C) = Filtered(p, C) \o Filtered(First(limit, r), C)
           /\ Len(s) > Len(p)
    <3> HIDE DEF C
    <3>1. Filtered(First(limit, r), C) # <<>>
      BY <1>1, <1>3
    <3>2. PageEnd(U, C, p, r, First(limit, r))
      BY <3>1, PageEnds
    <3> QED
      BY <3>2 DEF PageEnd
  <2>2. Parts(all, a, x, t) /\ all = s \o t
    BY <1>1, <2>1
  <2>3. AddressEntriesContinue(all, x, limit) = First(limit, t)
    BY <2>2, ContinueFinds
  <2>4. First(limit, t) \in Seq(U)
    BY FirstSplit
  <2>5. OnChain(First(limit, t)) = Filtered(First(limit, t), C)
    BY <2>4, OnChainFilters
  <2> DEFINE after == OnChain(AddressEntriesContinue(all, Last(w.page), limit))
             shown == w.shown \o w.page
  <2>6. next = [shown |-> shown, page |-> after]
    BY <1>3 DEF NextPage
  <2> HIDE DEF next, after, shown, C
  <2>7. next.shown = shown /\ next.page = after
    BY <2>6
  <2>8. next.page = Filtered(First(limit, t), C)
    BY <1>1, <2>1, <2>3, <2>5, <2>7 DEF after
  <2>9. next.shown = Filtered(s, C)
    BY <1>1, <2>1, <2>7 DEF shown
  <2>10. Len(s) >= k + 1
    <3>1. Len(p) \in Nat /\ Len(s) \in Nat
      BY ListBasics
    <3> QED
      BY <1>1, <1>3, <2>1, <3>1
  <2> QED
    BY <2>2, <2>8, <2>9, <2>10 DEF Reached, C, next
<1> QED
  BY <1>2, <1>3

LEMMA WalkReaches ==
  ASSUME NEW U, KeysTyped(U), NEW all \in Seq(U), Ordered(all), NEW limit \in Nat \ {0},
         NEW m \in Nat
  PROVE  Reached(U, all, limit, Walk(all, limit, m)[m], m)
<1> DEFINE W == Walk(all, limit, m)
           first == [shown |-> <<>>, page |-> OnChain(TopAddressData(all, limit).transactions)]
           After(w) == NextPage(all, limit, w)
           At(w, k) == Reached(U, all, limit, w, k)
           T == {n \in Nat : n <= m => At(W[n], n)}
<1>1. W = [n \in 0..m |-> IF n = 0 THEN first ELSE After(W[n - 1])]
  BY WalkDef
<1>2. At(first, 0)
  BY WalkBegins
<1>3. \A w : \A k \in Nat : At(w, k) => At(After(w), k + 1)
  BY WalkGoesOn
<1> HIDE DEF W, first, After, At
<1>4. W[0] = first /\ \A n \in 1..m : W[n] = After(W[n - 1])
  BY <1>1
<1>5. 0 \in T
  BY <1>2, <1>4
<1>6. ASSUME NEW n \in Nat, n \in T
      PROVE  n + 1 \in T
  <2> SUFFICES ASSUME n + 1 <= m
               PROVE  At(W[n + 1], n + 1)
    OBVIOUS
  <2>1. n + 1 \in 1..m /\ (n + 1) - 1 = n /\ At(W[n], n)
    BY <1>6
  <2>2. W[n + 1] = After(W[n])
    BY <1>4, <2>1
  <2> QED
    BY <1>3, <2>1, <2>2
<1>7. Nat \subseteq T
  <2> HIDE DEF T
  <2> QED
    BY <1>5, <1>6, NaturalsInSet
<1>8. At(W[m], m)
  BY <1>7
<1> QED
  BY <1>8 DEF W, At

LEMMA PrefixOf ==
  ASSUME NEW U, NEW s \in Seq(U), NEW t \in Seq(U)
  PROVE  IsPrefix(s, s \o t)
<1> DEFINE st == s \o t
           u == SubSeq(st, 1, Len(s))
           v == SubSeq(s, 1, Len(s))
<1>1. /\ \A i \in 1..Len(s) : st[i] = s[i]
      /\ Len(s) \in Nat /\ Len(t) \in Nat /\ Len(st) = Len(s) + Len(t)
  BY ConcatAt
<1>2. st \in Seq(U)
  BY ConcatType
<1> HIDE DEF st
<1>3. u \in Seq(U) /\ Len(u) = Len(s) /\ \A i \in 1..Len(s) : u[i] = st[i]
  <2>1. 1 \in 1..(Len(s) + 1) /\ Len(s) \in 0..Len(st)
    BY <1>1
  <2> QED
    BY <1>1, <1>2, <2>1, SubSeqProperties
<1>4. v \in Seq(U) /\ Len(v) = Len(s) /\ \A i \in 1..Len(s) : v[i] = s[i]
  BY <1>1, SubSeqProperties
<1> HIDE DEF u, v
<1>5. u = v
  BY <1>1, <1>3, <1>4, SeqEqual
<1>6. Len(s) <= Len(st)
  BY <1>1
<1> QED
  BY <1>5, <1>6 DEF IsPrefix, u, v, st

\* Where a walk ends, with nothing or with abandoned entries ahead.
LEMMA WalkIsComplete ==
  ASSUME NEW U, KeysTyped(U), NEW all \in Seq(U), Ordered(all), NEW limit \in Nat \ {0}
  PROVE  WalkComplete(all, limit)
<1> DEFINE m == Len(all) + 1
           w == Walk(all, limit, m)[m]
           C == OnTop(U)
           shown == OnChain(all)
           gap == \E i \in 1 .. Len(all) - limit + 1 :
                    \A j \in i .. i + limit - 1 : all[j].block \notin MostWork
<1>1. Len(all) \in Nat /\ m \in Nat
  BY ListBasics
<1>2. Reached(U, all, limit, w, m)
  <2> HIDE DEF m
  <2> QED
    BY <1>1, WalkReaches
<1>3. shown = Filtered(all, C)
  BY OnChainFilters
<1> HIDE DEF w, shown, C
<1>4. PICK p \in Seq(U), r \in Seq(U) :
         /\ all = p \o r
         /\ w.shown = Filtered(p, C)
         /\ w.page = Filtered(First(limit, r), C)
         /\ w.page = <<>> \/ Len(p) >= m
  BY <1>2 DEF Reached, C
<1> DEFINE f == First(limit, r)
<1>5. PICK q \in Seq(U) :
         /\ f \in Seq(U) /\ r = f \o q
         /\ Len(r) < limit => q = <<>>
         /\ Len(r) >= limit => Len(f) = limit
  BY FirstSplit
<1>6. /\ \A i \in 1..Len(p) : (p \o r)[i] = p[i]
      /\ \A i \in 1..Len(r) : (p \o r)[Len(p) + i] = r[i]
      /\ Len(p) \in Nat /\ Len(r) \in Nat /\ Len(p \o r) = Len(p) + Len(r)
  BY ConcatAt
<1>7. /\ \A i \in 1..Len(r) : all[Len(p) + i] = r[i]
      /\ Len(all) = Len(p) + Len(r)
  BY <1>4, <1>6
<1>8. Filtered(f, C) = <<>>
  <2>1. ~(Len(p) >= m)
    BY <1>6, <1>7
  <2> QED
    BY <1>4, <2>1
<1>9. shown = Filtered(p, C) \o Filtered(r, C) /\ Filtered(p, C) \in Seq(U) /\ Filtered(r, C) \in Seq(U)
  <2>1. Filtered(p \o r, C) = Filtered(p, C) \o Filtered(r, C)
    BY FilteredConcat
  <2>2. Filtered(p, C) \in Seq(U) /\ Filtered(r, C) \in Seq(U)
    BY FilteredType
  <2> QED
    BY <1>3, <1>4, <2>1, <2>2
<1>10. IsPrefix(w.shown, shown)
  <2> DEFINE x == Filtered(p, C)
             y == Filtered(r, C)
  <2>1. x \in Seq(U) /\ y \in Seq(U) /\ shown = x \o y /\ w.shown = x
    BY <1>4, <1>9
  <2> HIDE DEF x, y
  <2>2. IsPrefix(x, x \o y)
    BY <2>1, PrefixOf
  <2> QED
    BY <2>1, <2>2
<1>11. ASSUME Len(r) < limit
       PROVE  w.shown = shown
  <2>1. r = f
    <3>1. q = <<>> /\ f \in Seq(U) /\ r = f \o q
      BY <1>5, <1>11
    <3> HIDE DEF f
    <3>2. f \o <<>> = f
      BY <3>1, ConcatBasics
    <3> QED
      BY <3>1, <3>2
  <2>2. shown = Filtered(p, C) \o <<>>
    BY <1>8, <1>9, <2>1
  <2>3. Filtered(p, C) \o <<>> = Filtered(p, C)
    BY <1>9, ConcatBasics
  <2> QED
    BY <1>4, <2>2, <2>3
<1>12. ASSUME Len(r) >= limit
       PROVE  gap
  <2>1. Len(f) = limit /\ f \in Seq(U)
    BY <1>5, <1>12
  <2>2. \A i \in 1..limit : f[i] \notin C /\ f[i] \in U
    <3> HIDE DEF f
    <3>1. \A i \in 1..Len(f) : f[i] \notin C
      BY <1>8, <2>1, FilteredSome
    <3>2. \A i \in 1..Len(f) : f[i] \in U
      BY <2>1, ListBasics
    <3> QED
      BY <2>1, <3>1, <3>2
  <2>3. \A i \in 1..limit : r[i] = f[i]
    <3> HIDE DEF f
    <3>1. \A i \in 1..Len(f) : (f \o q)[i] = f[i]
      BY <2>1, ConcatAt
    <3> QED
      BY <1>5, <2>1, <3>1 DEF f
  <2>4. \A i \in 1..limit : all[Len(p) + i].block \notin MostWork
    <3>1. \A i \in 1..limit : i \in 1..Len(r)
      BY <1>6, <1>12
    <3>2. \A i \in 1..limit : all[Len(p) + i] = f[i]
      BY <1>7, <2>3, <3>1
    <3> QED
      BY <2>2, <3>2 DEF C, OnTop
  <2>5. gap
    <3> DEFINE i == Len(p) + 1
    <3>1. i \in 1 .. Len(all) - limit + 1
      BY <1>6, <1>7, <1>12
    <3>2. ASSUME NEW j \in i .. i + limit - 1
          PROVE  all[j].block \notin MostWork
      <4>1. j - Len(p) \in 1..limit /\ Len(p) + (j - Len(p)) = j
        BY <1>6
      <4> QED
        BY <2>4, <4>1
    <3> QED
      BY <3>1, <3>2
  <2> QED
    BY <2>5
<1>13. ~gap => w.shown = shown
  BY <1>6, <1>11, <1>12
<1> QED
  BY <1>10, <1>13 DEF WalkComplete, w, shown

---------------------------------------------------------------------------
(* Entries of a period. *)

Within(U, from, to) == {e \in U : from < e.key.time /\ e.key.time <= to}

LEMMA PeriodFilters ==
  ASSUME NEW U, NEW s \in Seq(U), NEW from, NEW to
  PROVE  AddressEntries(s, from, to, 0) = Filtered(s, Within(U, from, to))
<1> DEFINE S == {e \in ToSet(s) : from < e.key.time /\ e.key.time <= to}
           R == Within(U, from, to)
<1>1. \A i \in 1..Len(s) : s[i] \in U /\ s[i] \in ToSet(s)
  BY ListBasics
<1>2. \A i \in 1..Len(s) : s[i] \in S <=> s[i] \in R
  BY <1>1 DEF Within
<1>3. AddressEntries(s, from, to, 0) = Filtered(s, S)
  BY DEF AddressEntries, UpTo
<1> HIDE DEF S, R
<1>4. Filtered(s, S) = Filtered(s, R)
  BY <1>2, FilteredSame
<1> QED
  BY <1>3, <1>4 DEF R

\* The entries newer than a time come before the others.
CutAt(U, all, p, r, mid) ==
  /\ p \in Seq(U) /\ r \in Seq(U) /\ all = p \o r
  /\ \A i \in 1..Len(p) : p[i].key.time > mid
  /\ \A i \in 1..Len(r) : r[i].key.time <= mid

LEMMA CutAtTime ==
  ASSUME NEW U, KeysTyped(U), NEW all \in Seq(U), Ordered(all), NEW mid \in Nat
  PROVE  \E p, r : CutAt(U, all, p, r, mid)
<1> DEFINE T == {n \in 0..Len(all) : \A i \in (n + 1)..Len(all) : all[i].key.time <= mid}
<1>1. Len(all) \in Nat /\ \A i \in 1..Len(all) : all[i] \in U
  BY ListBasics
<1>2. \A i \in 1..Len(all) : all[i].key.time \in Nat /\ all[i].key.tx \in Nat
  BY <1>1 DEF KeysTyped
<1>3. T # {} /\ T \subseteq Nat
  <2>1. Len(all) \in T
    BY <1>1
  <2> QED
    BY <1>1, <2>1
<1>4. PICK n \in T : \A k \in T : n <= k
  <2> HIDE DEF T
  <2> QED
    BY <1>3, LeastNatural
<1>5. n \in 0..Len(all) /\ n \in Nat /\ \A i \in (n + 1)..Len(all) : all[i].key.time <= mid
  BY <1>1, <1>4
<1>6. ASSUME NEW i \in 1..n
      PROVE  all[i].key.time > mid
  <2> SUFFICES ASSUME all[i].key.time <= mid
               PROVE  FALSE
    BY <1>2, <1>5
  <2>1. i - 1 \in 0..Len(all) /\ i \in 1..Len(all) /\ (i - 1) + 1 = i
    BY <1>1, <1>5
  <2>2. ASSUME NEW j \in i..Len(all)
        PROVE  all[j].key.time <= mid
    <3>1. CASE j = i
      BY <3>1
    <3>2. CASE j # i
      <4>1. i < j /\ j \in 1..Len(all)
        BY <1>1, <2>1, <3>2
      <4>2. Before(all[i], all[j])
        BY <2>1, <4>1 DEF Ordered
      <4>3. all[i].key.time \in Nat /\ all[j].key.time \in Nat
        BY <1>2, <2>1, <4>1
      <4> QED
        BY <4>2, <4>3 DEF Before
    <3> QED
      BY <3>1, <3>2
  <2>3. i - 1 \in T
    BY <2>1, <2>2
  <2>4. n <= i - 1
    <3> HIDE DEF T
    <3> QED
      BY <1>4, <2>3
  <2> QED
    BY <1>5, <2>4
<1> DEFINE p == SubSeq(all, 1, n)
           r == SubSeq(all, n + 1, Len(all))
<1>7. p \in Seq(U) /\ r \in Seq(U) /\ Len(p) = n /\ Len(r) = Len(all) - n /\ p \o r = all
  BY <1>5, ListSplit
<1> HIDE DEF p, r, T
<1>8. /\ \A i \in 1..Len(p) : (p \o r)[i] = p[i]
      /\ \A i \in 1..Len(r) : (p \o r)[Len(p) + i] = r[i]
  <2>1. p \in Seq(U) /\ r \in Seq(U)
    BY <1>7
  <2> QED
    BY <2>1, ConcatAt
<1>9. \A i \in 1..Len(p) : p[i].key.time > mid
  BY <1>6, <1>7, <1>8
<1>10. ASSUME NEW i \in 1..Len(r)
       PROVE  r[i].key.time <= mid
  <2>1. n + i \in (n + 1)..Len(all)
    BY <1>1, <1>5, <1>7
  <2>2. r[i] = all[n + i]
    BY <1>7, <1>8
  <2> QED
    BY <1>5, <2>1, <2>2
<1>11. CutAt(U, all, p, r, mid)
  BY <1>7, <1>9, <1>10 DEF CutAt
<1> QED
  BY <1>11

LEMMA PeriodsMeet ==
  ASSUME NEW U, KeysTyped(U), NEW all \in Seq(U), Ordered(all),
         NEW from \in Nat, NEW mid \in Nat, NEW to \in Nat, from <= mid, mid <= to
  PROVE  AddressEntries(all, mid, to, 0) \o AddressEntries(all, from, mid, 0)
           = AddressEntries(all, from, to, 0)
<1> DEFINE A == Within(U, mid, to)
           B == Within(U, from, mid)
           W == Within(U, from, to)
<1>1. /\ AddressEntries(all, mid, to, 0) = Filtered(all, A)
      /\ AddressEntries(all, from, mid, 0) = Filtered(all, B)
      /\ AddressEntries(all, from, to, 0) = Filtered(all, W)
  BY PeriodFilters
<1>2. PICK p, r : CutAt(U, all, p, r, mid)
  BY CutAtTime
<1>3. p \in Seq(U) /\ r \in Seq(U)
  BY <1>2 DEF CutAt
<1>4. /\ \A i \in 1..Len(p) : p[i] \in U /\ p[i].key.time \in Nat /\ p[i].key.time > mid
      /\ \A i \in 1..Len(r) : r[i] \in U /\ r[i].key.time \in Nat /\ r[i].key.time <= mid
  <2>1. (\A i \in 1..Len(p) : p[i] \in U) /\ (\A i \in 1..Len(r) : r[i] \in U)
    BY <1>3, ListBasics
  <2> QED
    BY <1>2, <2>1 DEF CutAt, KeysTyped
<1>5. /\ \A i \in 1..Len(p) : p[i] \in A <=> p[i] \in W
      /\ \A i \in 1..Len(p) : p[i] \notin B
      /\ \A i \in 1..Len(r) : r[i] \in B <=> r[i] \in W
      /\ \A i \in 1..Len(r) : r[i] \notin A
  BY <1>4 DEF Within
<1>6. \A S : Filtered(all, S) = Filtered(p, S) \o Filtered(r, S)
  <2> TAKE S
  <2>1. Filtered(p \o r, S) = Filtered(p, S) \o Filtered(r, S)
    BY <1>3, FilteredConcat
  <2> QED
    BY <1>2, <2>1 DEF CutAt
<1> HIDE DEF A, B, W
<1>7. Filtered(p, A) = Filtered(p, W) /\ Filtered(r, B) = Filtered(r, W)
  BY <1>3, <1>5, FilteredSame
<1>8. Filtered(p, B) = <<>> /\ Filtered(r, A) = <<>>
  BY <1>3, <1>5, FilteredNone
<1>9. Filtered(p, W) \in Seq(U) /\ Filtered(r, W) \in Seq(U)
  BY <1>3, FilteredType
<1>10. Filtered(all, A) = Filtered(p, W)
  <2>1. Filtered(p, W) \o <<>> = Filtered(p, W)
    BY <1>9, ConcatBasics
  <2> QED
    BY <1>6, <1>7, <1>8, <2>1
<1>11. Filtered(all, B) = Filtered(r, W)
  <2>1. <<>> \o Filtered(r, W) = Filtered(r, W)
    BY <1>9, ConcatBasics
  <2> QED
    BY <1>6, <1>7, <1>8, <2>1
<1>12. Filtered(all, W) = Filtered(p, W) \o Filtered(r, W)
  BY <1>6
<1> QED
  BY <1>1, <1>10, <1>11, <1>12

LEMMA PeriodsAreJoined ==
  ASSUME NEW U, KeysTyped(U), NEW all \in Seq(U), Ordered(all),
         \A e \in U : e.key.time > 0 /\ \E b \in Blocks : e.key.time = Time[b]
  PROVE  PeriodsJoin(all)
<1> DEFINE Times == {Time[b] : b \in Blocks}
<1>1. Times \subseteq Nat
  BY PagesAssumption
<1>2. \A e \in U : e.key.time > 0 /\ e.key.time \in Times
  OBVIOUS
<1> HIDE DEF Times
<1>3. ASSUME NEW from \in Times, NEW mid \in Times, NEW to \in Times, from <= mid, mid <= to
      PROVE  AddressEntries(all, mid, to, 0) \o AddressEntries(all, from, mid, 0)
               = AddressEntries(all, from, to, 0)
  <2>1. from \in Nat /\ mid \in Nat /\ to \in Nat
    BY <1>1
  <2> QED
    BY <1>3, <2>1, PeriodsMeet
<1>4. ASSUME NEW to \in Times, \A time \in Times : time <= to
      PROVE  AddressEntries(all, 0, to, 0) = all
  <2> DEFINE W == Within(U, 0, to)
  <2>1. AddressEntries(all, 0, to, 0) = Filtered(all, W)
    BY PeriodFilters
  <2>2. \A i \in 1..Len(all) : all[i] \in W
    <3>1. \A i \in 1..Len(all) : all[i] \in U
      BY ListBasics
    <3> QED
      BY <1>2, <1>4, <3>1 DEF Within
  <2> HIDE DEF W
  <2>3. Filtered(all, W) = all
    BY <2>2, FilteredAll
  <2> QED
    BY <2>1, <2>3
<1> QED
  BY <1>3, <1>4 DEF PeriodsJoin, Times

---------------------------------------------------------------------------
(* The entries of an address in order. *)

\* Keys of one address that differ, differ in the time or the transaction.
KeysDiffer(U) ==
  \A e, f \in U : e # f => e.key.time # f.key.time \/ e.key.tx # f.key.tx

Rank(U, e) == Cardinality({f \in U : Before(f, e)})
Ranked(U) == [i \in 1..Cardinality(U) |-> CHOOSE e \in U : Rank(U, e) = i - 1]

LEMMA RankBound ==
  ASSUME NEW U, IsFiniteSet(U), KeysTyped(U), NEW e \in U
  PROVE  Rank(U, e) \in 0..(Cardinality(U) - 1) /\ Cardinality(U) \in Nat
<1> DEFINE T == {f \in U : Before(f, e)}
           V == U \ {e}
<1>1. T \subseteq V
  BY DEF Before, KeysTyped
<1>2. IsFiniteSet(V) /\ Cardinality(V) = Cardinality(U) - 1 /\ Cardinality(U) \in Nat
  BY FS_RemoveElement, FS_CardinalityType
<1>3. Rank(U, e) = Cardinality(T)
  BY DEF Rank
<1> HIDE DEF T, V
<1>4. IsFiniteSet(T) /\ Cardinality(T) <= Cardinality(V) /\ Cardinality(T) \in Nat
  BY <1>1, <1>2, FS_Subset, FS_CardinalityType
<1> QED
  BY <1>2, <1>3, <1>4

LEMMA RankGrows ==
  ASSUME NEW U, IsFiniteSet(U), KeysTyped(U), NEW e \in U, NEW f \in U, Before(e, f)
  PROVE  Rank(U, e) < Rank(U, f)
<1> DEFINE S == {g \in U : Before(g, e)}
           T == {g \in U : Before(g, f)}
<1>1. S \subseteq U /\ T \subseteq U /\ e \notin S
  BY DEF Before, KeysTyped
<1>2. S \cup {e} \subseteq T
  <2>1. ASSUME NEW g \in S
        PROVE  g \in T
    BY <2>1 DEF Before, KeysTyped
  <2> QED
    BY <2>1
<1>3. Rank(U, e) = Cardinality(S) /\ Rank(U, f) = Cardinality(T)
  BY DEF Rank
<1> HIDE DEF S, T
<1>4. IsFiniteSet(S) /\ IsFiniteSet(T) /\ Cardinality(S) \in Nat /\ Cardinality(T) \in Nat
  BY <1>1, FS_Subset, FS_CardinalityType
<1>5. Cardinality(S \cup {e}) = Cardinality(S) + 1
  BY <1>1, <1>4, FS_AddElement
<1>6. Cardinality(S \cup {e}) <= Cardinality(T)
  <2> DEFINE R == S \cup {e}
  <2>1. R \in SUBSET T
    BY <1>2
  <2> HIDE DEF R
  <2>2. Cardinality(R) <= Cardinality(T)
    BY <1>4, <2>1, FS_Subset
  <2> QED
    BY <2>2 DEF R
<1> QED
  BY <1>3, <1>4, <1>5, <1>6

LEMMA RankedFacts ==
  ASSUME NEW U, IsFiniteSet(U), KeysTyped(U), KeysDiffer(U)
  PROVE  Ranked(U) \in Seq(U) /\ ToSet(Ranked(U)) = U /\ Ordered(Ranked(U))
<1> DEFINE n == Cardinality(U)
           N == 0..(n - 1)
           rank == [e \in U |-> Rank(U, e)]
           s == Ranked(U)
<1>1. n \in Nat
  BY FS_CardinalityType
<1>2. \A e, f \in U : e # f => Before(e, f) \/ Before(f, e)
  BY DEF Before, KeysTyped, KeysDiffer
<1>3. \A e \in U : Rank(U, e) \in N
  BY RankBound
<1>4. \A e, f \in U : Before(e, f) => Rank(U, e) < Rank(U, f)
  BY RankGrows
<1>5. \A e, f \in U : Rank(U, e) = Rank(U, f) => e = f
  <2> SUFFICES ASSUME NEW e \in U, NEW f \in U, Rank(U, e) = Rank(U, f), e # f
               PROVE  FALSE
    OBVIOUS
  <2>1. Rank(U, e) \in Nat /\ Rank(U, f) \in Nat
    BY <1>3
  <2>2. Rank(U, e) < Rank(U, f) \/ Rank(U, f) < Rank(U, e)
    BY <1>2, <1>4
  <2> QED
    BY <2>1, <2>2
<1>6. rank \in Injection(U, N)
  BY <1>3, <1>5 DEF Injection, IsInjective
<1>7. IsFiniteSet(N) /\ Cardinality(N) = n
  BY <1>1, FS_Interval
<1> HIDE DEF N, rank
<1>8. rank \in Surjection(U, N)
  <2> HIDE DEF n
  <2>1. Cardinality(U) = Cardinality(N)
    BY <1>7 DEF n
  <2> QED
    BY <1>6, <1>7, <2>1, FS_Injection
<1>9. \A k \in N : \E e \in U : Rank(U, e) = k
  BY <1>8 DEF Surjection, rank
<1>10. ASSUME NEW i \in 1..n
       PROVE  s[i] \in U /\ Rank(U, s[i]) = i - 1
  <2>1. \E e \in U : Rank(U, e) = i - 1
    <3>1. i - 1 \in N
      BY <1>1 DEF N
    <3> QED
      BY <1>9, <3>1
  <2>2. s[i] = CHOOSE e \in U : Rank(U, e) = i - 1
    BY DEF Ranked
  <2> HIDE DEF s
  <2> QED
    BY <2>1, <2>2
<1>11. s = [i \in 1..n |-> s[i]]
  BY DEF Ranked
<1> HIDE DEF s, n
<1>12. s \in Seq(U) /\ Len(s) = n
  BY <1>1, <1>10, <1>11
<1>13. ToSet(s) = U
  <2>1. ToSet(s) = {s[i] : i \in 1..n}
    BY <1>12, ListBasics
  <2>2. ASSUME NEW e \in U
        PROVE  \E i \in 1..n : s[i] = e
    <3>1. Rank(U, e) \in N
      BY <1>3
    <3> DEFINE i == Rank(U, e) + 1
    <3>2. i \in 1..n /\ i - 1 = Rank(U, e)
      BY <1>1, <3>1 DEF N
    <3> HIDE DEF i
    <3>3. s[i] \in U /\ Rank(U, s[i]) = Rank(U, e)
      BY <1>10, <3>2
    <3>4. s[i] = e
      BY <1>5, <3>3
    <3> QED
      BY <3>2, <3>4
  <2> QED
    BY <1>10, <2>1, <2>2
<1>14. Ordered(s)
  <2> SUFFICES ASSUME NEW i \in 1..n, NEW j \in 1..n, i < j
               PROVE  Before(s[i], s[j])
    BY <1>12 DEF Ordered
  <2>1. s[i] \in U /\ s[j] \in U /\ Rank(U, s[i]) = i - 1 /\ Rank(U, s[j]) = j - 1
    BY <1>10
  <2>2. s[i] # s[j]
    BY <1>1, <2>1
  <2>3. ~Before(s[j], s[i])
    <3> SUFFICES ASSUME Before(s[j], s[i])
                 PROVE  FALSE
      OBVIOUS
    <3>1. j - 1 < i - 1
      BY <1>4, <2>1
    <3> QED
      BY <1>1, <3>1
  <2> QED
    BY <1>2, <2>1, <2>2, <2>3
<1> QED
  BY <1>12, <1>13, <1>14 DEF s

---------------------------------------------------------------------------
(* The entries that are stored. *)

\* ADDRESSES_DB keeps one value per key.
KeysUnique == \A e, f \in entries : e.key = f.key => e = f

AmendOf(b, e, x, a) ==
  /\ e.key = [account |-> a, time |-> Time[b], tx |-> x]
  /\ e.key.account = a /\ e.key.time = Time[b] /\ e.key.tx = x
  /\ e = [key |-> Key(a, b, x), block |-> b, delta |-> Net(a, x)]

LEMMA AmendShape ==
  ASSUME NEW b
  PROVE  \A e \in AllAmends(b) : \E x \in TxsOf[b] : \E a : AmendOf(b, e, x, a)
<1> SUFFICES ASSUME NEW x \in TxsOf[b], NEW e \in Amends(b, x)
             PROVE  \E a : AmendOf(b, e, x, a)
  BY DEF AllAmends
<1>1. PICK a : e = [key |-> Key(a, b, x), block |-> b, delta |-> Net(a, x)]
  BY DEF Amends
<1>2. e.key = Key(a, b, x)
  BY <1>1
<1>3. e.key = [account |-> a, time |-> Time[b], tx |-> x]
  BY <1>2 DEF Key
<1>4. e.key.account = a /\ e.key.time = Time[b] /\ e.key.tx = x
  BY <1>3
<1> QED
  BY <1>1, <1>3, <1>4 DEF AmendOf

LEMMA AmendKeys ==
  ASSUME NEW b, NEW e \in AllAmends(b), NEW f \in AllAmends(b), e.key = f.key
  PROVE  e = f
<1>1. PICK x \in TxsOf[b] : \E a : AmendOf(b, e, x, a)
  BY AmendShape
<1>2. PICK y \in TxsOf[b] : \E c : AmendOf(b, f, y, c)
  BY AmendShape
<1>a. PICK a : AmendOf(b, e, x, a)
  BY <1>1
<1>c. PICK c : AmendOf(b, f, y, c)
  BY <1>2
<1>3. x = y /\ a = c
  BY <1>a, <1>c DEF AmendOf
<1> QED
  BY <1>a, <1>c, <1>3 DEF AmendOf

LEMMA KeysStayUnique ==
  KeysUnique /\ [IndexNext]_indexVars => KeysUnique'
<1> SUFFICES ASSUME KeysUnique, [IndexNext]_indexVars
             PROVE  KeysUnique'
  OBVIOUS
<1>1. CASE UNCHANGED entries
  BY <1>1 DEF KeysUnique
<1>2. ASSUME NEW b, WriteAddresses(b)
      PROVE  KeysUnique'
  <2> DEFINE new == AllAmends(b)
             old == {e \in entries : \A n \in new : n.key # e.key}
  <2>1. entries' = new \cup old
    BY <1>2 DEF WriteAddresses
  <2>2. \A e, f \in new : e.key = f.key => e = f
    BY AmendKeys
  <2>3. \A e, f \in old : e.key = f.key => e = f
    BY DEF KeysUnique
  <2>4. \A e \in new, f \in old : e.key # f.key
    OBVIOUS
  <2> HIDE DEF new, old
  <2> QED
    BY <2>1, <2>2, <2>3, <2>4 DEF KeysUnique
<1>3. CASE Restart \/ StartDownload \/ Flag \/ UNCHANGED indexVars
  BY <1>1, <1>3 DEF Restart, StartDownload, Flag, indexVars
<1>4. ASSUME NEW b \in Blocks, NewHeader(b)
      PROVE  KeysUnique'
  BY <1>1, <1>4 DEF NewHeader
<1>5. ASSUME NEW s \in Stores, Write(s)
      PROVE  KeysUnique'
  <2>1. UNCHANGED entries \/ WriteAddresses(todo[1])
    BY <1>5 DEF Write
  <2> QED
    BY <1>1, <1>2, <2>1
<1>6. ASSUME NEW s \in Stores, WriteFails(s)
      PROVE  KeysUnique'
  BY <1>1, <1>6 DEF WriteFails
<1> QED
  BY <1>3, <1>4, <1>5, <1>6 DEF IndexNext

LEMMA ImageFinite ==
  ASSUME NEW f, IsFiniteSet(DOMAIN f)
  PROVE  IsFiniteSet({f[x] : x \in DOMAIN f})
<1> DEFINE S == DOMAIN f
           T == {f[x] : x \in S}
           g == [x \in S |-> f[x]]
<1>1. g \in Surjection(S, T)
  BY DEF Surjection
<1>2. IsFiniteSet(S)
  OBVIOUS
<1> HIDE DEF S, T, g
<1>3. IsFiniteSet(T)
  BY <1>1, <1>2, FS_Surjection
<1> QED
  BY <1>3 DEF S, T

LEMMA AmendsFinite ==
  ASSUME NEW b \in Blocks
  PROVE  IsFiniteSet(AllAmends(b))
<1>1. ASSUME NEW x \in TxsOf[b]
      PROVE  IsFiniteSet(Amends(b, x))
  <2> DEFINE Entry(a) == [key |-> Key(a, b, x), block |-> b, delta |-> Net(a, x)]
             who == [i \in DOMAIN Pays[x] |-> Pays[x][i][1]]
             A == {who[i] : i \in DOMAIN who}
             f == [a \in A |-> Entry(a)]
  <2>1. IsFiniteSet(DOMAIN who)
    BY PagesAssumption
  <2>2. A = {Pays[x][i][1] : i \in DOMAIN Pays[x]}
    OBVIOUS
  <2>3. Amends(b, x) = {Entry(a) : a \in A}
    BY <2>2 DEF Amends
  <2> HIDE DEF who, Entry
  <2>4. IsFiniteSet(A)
    BY <2>1, ImageFinite
  <2> HIDE DEF A
  <2>5. DOMAIN f = A /\ {f[a] : a \in DOMAIN f} = {Entry(a) : a \in A}
    OBVIOUS
  <2> HIDE DEF f
  <2>6. IsFiniteSet({f[a] : a \in DOMAIN f})
    BY <2>4, <2>5, ImageFinite
  <2> QED
    BY <2>3, <2>5, <2>6
<1> DEFINE f == [x \in TxsOf[b] |-> Amends(b, x)]
           F == {f[x] : x \in DOMAIN f}
<1>2. IsFiniteSet(DOMAIN f)
  BY PagesAssumption
<1>3. AllAmends(b) = UNION F
  BY DEF AllAmends
<1>4. \A T \in F : IsFiniteSet(T)
  BY <1>1
<1>5. IsFiniteSet(F)
  <2> HIDE DEF f
  <2> QED
    BY <1>2, ImageFinite
<1> HIDE DEF F
<1>6. IsFiniteSet(UNION F)
  BY <1>4, <1>5, FS_UNION
<1> QED
  BY <1>3, <1>6

LEMMA EntriesFinite == OriginInv => IsFiniteSet(entries)
<1> SUFFICES ASSUME OriginInv
             PROVE  IsFiniteSet(entries)
  OBVIOUS
<1> DEFINE f == [b \in Blocks |-> AllAmends(b)]
           F == {f[b] : b \in DOMAIN f}
<1>1. IsFiniteSet(DOMAIN f)
  BY TreeAssumption
<1>2. \A T \in F : IsFiniteSet(T)
  BY AmendsFinite
<1>3. entries \subseteq UNION F
  BY DEF OriginInv
<1>4. IsFiniteSet(F)
  <2> HIDE DEF f
  <2> QED
    BY <1>1, ImageFinite
<1> HIDE DEF F
<1>5. IsFiniteSet(UNION F)
  BY <1>2, <1>4, FS_UNION
<1> DEFINE W == UNION F
<1>6. entries \in SUBSET W /\ IsFiniteSet(W)
  BY <1>3, <1>5
<1> HIDE DEF W
<1> QED
  BY <1>6, FS_Subset

LEMMA OwnFacts ==
  ASSUME OriginInv, KeysUnique, NEW account
  PROVE  LET own == {e \in entries : e.key.account = account}
         IN  /\ IsFiniteSet(own) /\ KeysTyped(own) /\ KeysDiffer(own)
             /\ \A e \in own : e.key.time > 0 /\ \E b \in Blocks : e.key.time = Time[b]
<1> DEFINE own == {e \in entries : e.key.account = account}
<1>1. ASSUME NEW e \in own
      PROVE  /\ e.key = [account |-> account, time |-> e.key.time, tx |-> e.key.tx]
             /\ e.key.time \in Nat /\ e.key.time > 0 /\ e.key.tx \in Nat
             /\ \E b \in Blocks : e.key.time = Time[b]
  <2> DEFINE b == e.block
  <2>1. b \in Blocks /\ e \in AllAmends(b)
    BY DEF OriginInv
  <2> HIDE DEF b
  <2>x. PICK x \in TxsOf[b] : \E a : AmendOf(b, e, x, a)
    BY <2>1, AmendShape
  <2>2. PICK a : AmendOf(b, e, x, a)
    BY <2>x
  <2>3. x \in Nat /\ Time[b] \in Nat /\ Time[b] > 0
    BY <2>1, PagesAssumption
  <2>4. /\ e.key = [account |-> a, time |-> Time[b], tx |-> x]
        /\ a = account /\ e.key.time = Time[b] /\ e.key.tx = x
    BY <2>2 DEF AmendOf
  <2> QED
    BY <2>1, <2>3, <2>4
<1>2. IsFiniteSet(own)
  <2>1. own \in SUBSET entries /\ IsFiniteSet(entries)
    BY EntriesFinite
  <2> HIDE DEF own
  <2> QED
    BY <2>1, FS_Subset
<1>3. own \subseteq entries
  OBVIOUS
<1> HIDE DEF own
<1>4. KeysTyped(own)
  BY <1>1 DEF KeysTyped
<1>5. KeysDiffer(own)
  <2> SUFFICES ASSUME NEW e \in own, NEW f \in own,
                      e.key.time = f.key.time, e.key.tx = f.key.tx
               PROVE  e = f
    BY DEF KeysDiffer
  <2>1. e.key = f.key
    BY <1>1
  <2> QED
    BY <1>3, <2>1 DEF KeysUnique
<1>6. \A e \in own : e.key.time > 0 /\ \E b \in Blocks : e.key.time = Time[b]
  BY <1>1
<1> QED
  BY <1>2, <1>4, <1>5, <1>6 DEF own

LEMMA PagesAreRead == OriginInv /\ KeysUnique => PagesComplete
<1> SUFFICES ASSUME OriginInv, KeysUnique, NEW account
             PROVE  LET all == Sorted(account)
                    IN  /\ ToSet(all) = {e \in entries : e.key.account = account}
                        /\ PeriodsJoin(all)
                        /\ \A limit \in PageSizes : WalkComplete(all, limit)
  BY DEF PagesComplete
<1> DEFINE own == {e \in entries : e.key.account = account}
           all == Sorted(account)
<1>1. /\ IsFiniteSet(own) /\ KeysTyped(own) /\ KeysDiffer(own)
      /\ \A e \in own : e.key.time > 0 /\ \E b \in Blocks : e.key.time = Time[b]
  BY OwnFacts
<1>2. all = Ranked(own)
  BY DEF Sorted, Ranked, Rank
<1> HIDE DEF own, all
<1>3. all \in Seq(own) /\ ToSet(all) = own /\ Ordered(all)
  BY <1>1, <1>2, RankedFacts
<1>4. PeriodsJoin(all)
  BY <1>1, <1>3, PeriodsAreJoined
<1>5. \A limit \in PageSizes : WalkComplete(all, limit)
  <2>1. PageSizes \subseteq Nat \ {0}
    BY PagesAssumption
  <2> QED
    BY <1>1, <1>3, <2>1, WalkIsComplete
<1> QED
  BY <1>3, <1>4, <1>5 DEF own, all

\* The pages of an address (get_address_entires, get_address_entires_continue
\* and the handlers of api/address.rs), at any moment and for every page size:
\* the periods of an address join without an overlap or a hole, and a client
\* that follows the pages sees each entry of the chain once and in order, up
\* to the first page that holds nothing but entries of abandoned branches.
THEOREM PagesAreComplete == IndexSpec => []PagesComplete
<1>1. IndexInit => KeysUnique
  BY DEF IndexInit, KeysUnique
<1>2. IndexInit => IndexInv
  BY IndexInitInv
<1>3. IndexInv => OriginInv
  BY DEF IndexInv
<1> QED
  BY <1>1, <1>2, <1>3, IndexStep, KeysStayUnique, PagesAreRead, PTL DEF IndexSpec
=============================================================================

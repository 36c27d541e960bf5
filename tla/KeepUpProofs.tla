----------------------------- MODULE KeepUpProofs -----------------------------
(***************************************************************************)
(* For every tree of headers and every order of announcements: the hash    *)
(* set of the most-work chain follows the top; and, provided that the      *)
(* program was not restarted with a recent top header whose body is        *)
(* missing (run keepup_behind shows why), a block whose parent is not on   *)
(* disk is put there only if the parent was lost by a task that failed, no *)
(* other block of the most-work chain is ever forgotten, and the counter   *)
(* of downloaded blocks is exact but for those lost ones.                  *)
(*                                                                         *)
(* The first part holds of every tree of headers: the ancestors of a       *)
(* header form a chain with one header at each height, and the walks of    *)
(* module HeaderChain find on it what they look for.  Ancestors[h] is      *)
(* defined as the least set that contains h and is closed under Parent, so *)
(* a fact about all ancestors is proved by naming such a set.              *)
(***************************************************************************)
EXTENDS KeepUp, SequenceTheorems, FunctionTheorems, FiniteSetTheorems, TLAPS

---------------------------------------------------------------------------
(* The tree of headers. *)

\* A header is its own ancestor, and the parent of an ancestor is one too.
LEMMA AncestorsBasic ==
  ASSUME NEW h \in Headers
  PROVE  /\ Ancestors[h] \subseteq Headers
         /\ h \in Ancestors[h]
         /\ \A a \in Ancestors[h] : Parent[a] \in Ancestors[h]
<1>1. Ancestors[h] \subseteq Headers /\ h \in Ancestors[h]
  BY DEF Ancestors
<1>2. ASSUME NEW a \in Ancestors[h]
      PROVE  Parent[a] \in Ancestors[h]
  <2>1. Parent[a] \in Headers
    BY <1>1, TreeAssumption
  <2>2. ASSUME NEW S \in SUBSET Headers, h \in S, ClosedUnderParent(S)
        PROVE  Parent[a] \in S
    <3>1. a \in S
      BY <2>2 DEF Ancestors
    <3> QED
      BY <3>1, <2>2 DEF ClosedUnderParent
  <2> QED
    BY <2>1, <2>2 DEF Ancestors
<1> QED
  BY <1>1, <1>2

\* The induction principle: a set with h that is closed under Parent holds
\* every ancestor of h.
LEMMA AncestorsLeast ==
  ASSUME NEW h \in Headers, NEW S \in SUBSET Headers,
         h \in S, ClosedUnderParent(S)
  PROVE  Ancestors[h] \subseteq S
BY DEF Ancestors

\* Being an ancestor is transitive.
LEMMA AncestorsTrans ==
  ASSUME NEW h \in Headers, NEW a \in Ancestors[h]
  PROVE  Ancestors[a] \subseteq Ancestors[h]
<1>1. ClosedUnderParent(Ancestors[h])
  BY AncestorsBasic DEF ClosedUnderParent
<1>2. Ancestors[h] \in SUBSET Headers /\ a \in Headers
  BY AncestorsBasic
<1> QED
  BY <1>1, <1>2, AncestorsLeast

\* The ancestors of a header are the header and its parent's ancestors.
LEMMA AncestorsStep ==
  ASSUME NEW h \in Headers
  PROVE  Ancestors[h] = {h} \cup Ancestors[Parent[h]]
<1>1. Parent[h] \in Headers /\ Parent[h] \in Ancestors[h] /\ h \in Ancestors[h]
  BY AncestorsBasic, TreeAssumption
<1>2. Ancestors[Parent[h]] \subseteq Ancestors[h]
  BY <1>1, AncestorsTrans
<1>3. Ancestors[h] \subseteq {h} \cup Ancestors[Parent[h]]
  <2> DEFINE S == {h} \cup Ancestors[Parent[h]]
  <2>1. S \in SUBSET Headers /\ h \in S
    BY <1>1, AncestorsBasic
  <2>2. ClosedUnderParent(S)
    BY <1>1, AncestorsBasic DEF ClosedUnderParent
  <2> QED
    BY <2>1, <2>2, AncestorsLeast
<1> QED
  BY <1>1, <1>2, <1>3

\* Only the header itself is as high as the header.
LEMMA AncestorsLower ==
  ASSUME NEW h \in Headers, NEW a \in Ancestors[h]
  PROVE  Number[a] <= Number[h] /\ (Number[a] = Number[h] => a = h)
<1> DEFINE S == {x \in Headers : x = h \/ Number[x] < Number[h]}
<1>1. h \in S /\ S \in SUBSET Headers
  OBVIOUS
<1>2. ASSUME NEW x \in S
      PROVE  Parent[x] \in S
  <2>1. CASE x = Genesis
    BY <2>1, TreeAssumption
  <2>2. CASE x # Genesis
    <3>1. Number[x] = Number[Parent[x]] + 1 /\ Parent[x] \in Headers
      BY <2>2, TreeAssumption
    <3>2. Number[x] \in Nat /\ Number[Parent[x]] \in Nat /\ Number[h] \in Nat
      BY <3>1, TreeAssumption
    <3> QED
      BY <3>1, <3>2
  <2> QED
    BY <2>1, <2>2
<1>3. a \in S
  BY <1>1, <1>2, AncestorsLeast DEF ClosedUnderParent
<1>4. Number[a] \in Nat /\ Number[h] \in Nat
  BY <1>3, TreeAssumption
<1> QED
  BY <1>3, <1>4

\* Of two ancestors of a header, one is an ancestor of the other.
LEMMA AncestorsLinear ==
  ASSUME NEW h \in Headers, NEW a \in Ancestors[h], NEW b \in Ancestors[h]
  PROVE  a \in Ancestors[b] \/ b \in Ancestors[a]
<1> DEFINE S == {x \in Ancestors[h] :
                   \A y \in Ancestors[h] : x \in Ancestors[y] \/ y \in Ancestors[x]}
<1>1. h \in S /\ S \in SUBSET Headers
  BY AncestorsBasic
<1>2. ASSUME NEW x \in S
      PROVE  Parent[x] \in S
  <2>1. x \in Headers /\ Parent[x] \in Ancestors[h]
    BY <1>1, AncestorsBasic
  <2>2. ASSUME NEW y \in Ancestors[h]
        PROVE  Parent[x] \in Ancestors[y] \/ y \in Ancestors[Parent[x]]
    <3>1. y \in Headers
      BY AncestorsBasic
    <3>2. CASE x \in Ancestors[y]
      BY <3>1, <3>2, AncestorsBasic
    <3>3. CASE y \in Ancestors[x]
      BY <3>3, <2>1, AncestorsStep, AncestorsBasic
    <3> QED
      BY <3>2, <3>3
  <2> QED
    BY <2>1, <2>2
<1>3. a \in S
  BY <1>1, <1>2, AncestorsLeast DEF ClosedUnderParent
<1> QED
  BY <1>3

\* A header has one ancestor at each height up to its own: get_ancestor finds
\* it, and its parent is the one at the height below.
LEMMA AncestorAtHeight ==
  ASSUME NEW h \in Headers, NEW n \in 0..Number[h]
  PROVE  /\ AncestorAt(h, n) \in Ancestors[h]
         /\ Number[AncestorAt(h, n)] = n
         /\ \A a \in Ancestors[h] : Number[a] = n => a = AncestorAt(h, n)
<1> DEFINE S == {x \in Ancestors[h] : \A m \in Number[x]..Number[h] :
                                        \E a \in Ancestors[h] : Number[a] = m}
<1>1. Number[h] \in Nat /\ h \in Ancestors[h]
  BY TreeAssumption, AncestorsBasic
<1>2. h \in S /\ S \in SUBSET Headers
  BY <1>1, AncestorsBasic
<1>3. ASSUME NEW x \in S
      PROVE  Parent[x] \in S
  <2>1. x \in Headers /\ Parent[x] \in Ancestors[h] /\ Parent[x] \in Headers
    BY <1>2, AncestorsBasic
  <2>2. CASE x = Genesis
    BY <2>2, TreeAssumption
  <2>3. CASE x # Genesis
    <3>1. /\ Number[x] = Number[Parent[x]] + 1
          /\ Number[x] \in Nat /\ Number[Parent[x]] \in Nat
      BY <2>1, <2>3, TreeAssumption
    <3>2. ASSUME NEW m \in Number[Parent[x]]..Number[h]
          PROVE  \E a \in Ancestors[h] : Number[a] = m
      <4>1. CASE m = Number[Parent[x]]
        BY <4>1, <2>1
      <4>2. CASE m # Number[Parent[x]]
        <5>1. m \in Number[x]..Number[h]
          BY <4>2, <3>1, <1>1
        <5> QED
          BY <5>1
      <4> QED
        BY <4>1, <4>2
    <3> QED
      BY <3>2, <2>1
  <2> QED
    BY <2>2, <2>3
<1>4. Genesis \in S
  BY <1>2, <1>3, AncestorsLeast, RootedAssumption DEF ClosedUnderParent
<1>5. \E a \in Ancestors[h] : Number[a] = n
  BY <1>4, TreeAssumption
<1>6. AncestorAt(h, n) \in Ancestors[h] /\ Number[AncestorAt(h, n)] = n
  BY <1>5 DEF AncestorAt
<1>7. ASSUME NEW a \in Ancestors[h], Number[a] = n
      PROVE  a = AncestorAt(h, n)
  <2>1. a \in Headers /\ AncestorAt(h, n) \in Headers
    BY <1>6, AncestorsBasic
  <2>2. a \in Ancestors[AncestorAt(h, n)] \/ AncestorAt(h, n) \in Ancestors[a]
    BY <1>6, AncestorsLinear
  <2> QED
    BY <2>1, <2>2, <1>6, <1>7, AncestorsLower
<1> QED
  BY <1>6, <1>7

\* The parent of the ancestor at height n is the ancestor at height n - 1.
LEMMA AncestorAtParent ==
  ASSUME NEW h \in Headers, NEW n \in 1..Number[h]
  PROVE  Parent[AncestorAt(h, n)] = AncestorAt(h, n - 1)
<1> DEFINE a == AncestorAt(h, n)
<1>1. Number[h] \in Nat
  BY TreeAssumption
<1>2. n \in 0..Number[h] /\ n - 1 \in 0..Number[h] /\ n # 0
  BY <1>1
<1>3. a \in Ancestors[h] /\ a \in Headers /\ Number[a] = n
  BY <1>2, AncestorAtHeight, AncestorsBasic
<1>4. a # Genesis
  BY <1>3, <1>2, TreeAssumption
<1>5. Parent[a] \in Headers /\ Number[Parent[a]] \in Nat /\ n = Number[Parent[a]] + 1
  BY <1>3, <1>4, TreeAssumption
<1>6. Number[Parent[a]] = n - 1 /\ Parent[a] \in Ancestors[h]
  BY <1>5, <1>3, <1>2, AncestorsBasic
<1> QED
  BY <1>6, <1>2, AncestorAtHeight

\* A walk back from a header meets the highest of any ancestors first.
LEMMA HighestExists ==
  ASSUME NEW h \in Headers, NEW T \in SUBSET Ancestors[h], T # {}
  PROVE  Highest(T) \in T /\ \A g \in T : Number[g] <= Number[Highest(T)]
<1> DEFINE S == {x \in Ancestors[h] : T \subseteq Ancestors[x]}
<1>1. h \in S /\ S \in SUBSET Headers
  BY AncestorsBasic
<1>2. \E x \in T : \A g \in T : Number[g] <= Number[x]
  <2>1. CASE ClosedUnderParent(S)
    <3>1. Genesis \in S
      BY <2>1, <1>1, AncestorsLeast, RootedAssumption
    <3>2. \A g \in T : g \in Ancestors[Genesis]
      BY <3>1
    <3>3. \A g \in T : Number[g] <= Number[Genesis] /\ Number[g] \in Nat
      BY <3>2, AncestorsLower, AncestorsBasic, TreeAssumption
    <3> QED
      BY <3>3, TreeAssumption
  <2>2. CASE ~ClosedUnderParent(S)
    <3>1. PICK x \in S : Parent[x] \notin S
      BY <2>2 DEF ClosedUnderParent
    <3>2. x \in Headers /\ Parent[x] \in Ancestors[h]
      BY <3>1, <1>1, AncestorsBasic
    <3>3. PICK y \in T : y \notin Ancestors[Parent[x]]
      BY <3>1, <3>2
    <3>4. y = x
      BY <3>1, <3>2, <3>3, AncestorsStep
    <3>5. \A g \in T : Number[g] <= Number[x]
      BY <3>1, <3>2, AncestorsLower
    <3> QED
      BY <3>3, <3>4, <3>5
  <2> QED
    BY <2>1, <2>2
<1> QED
  BY <1>2 DEF Highest

-----------------------------------------------------------------------------
(* A new header that becomes the top.                                       *)

\* The chain of a known header is known.
LEMMA KnownAncestors ==
  ASSUME NEW S \in SUBSET Headers, ClosedUnderParent(S), NEW h \in S
  PROVE  Ancestors[h] \subseteq S
BY AncestorsLeast

\* The walks back from a new header and from the old top meet.
LEMMA ForkPointExists ==
  ASSUME top_header \in Headers, NEW h \in Headers, h \notin Ancestors[top_header]
  PROVE  /\ ForkPoint(h) \in Ancestors[h]
         /\ ForkPoint(h) \in Ancestors[top_header]
         /\ Number[ForkPoint(h)] \in 0..(Number[h] - 1)
<1> DEFINE S == Ancestors[h] \ Ancestors[top_header]
<1>1. h \in S /\ S \in SUBSET Headers /\ Genesis \notin S
  BY AncestorsBasic, RootedAssumption
<1>2. PICK x \in S : Parent[x] \notin S
  BY <1>1, AncestorsLeast, RootedAssumption DEF ClosedUnderParent
<1>3. Parent[x] \in Ancestors[h] \cap Ancestors[top_header]
  BY <1>2, AncestorsBasic
<1>4. /\ ForkPoint(h) \in Ancestors[h] \cap Ancestors[top_header]
      /\ \E y \in S : Parent[y] = ForkPoint(h)
  BY <1>2, <1>3 DEF ForkPoint
<1>5. ForkPoint(h) \in Headers /\ ForkPoint(h) # h
  BY <1>4, AncestorsBasic
<1>6. Number[ForkPoint(h)] \in Nat /\ Number[h] \in Nat
  BY <1>5, TreeAssumption
<1>7. Number[ForkPoint(h)] <= Number[h] /\ Number[ForkPoint(h)] # Number[h]
  BY <1>4, <1>5, AncestorsLower
<1> QED
  BY <1>4, <1>6, <1>7

\* added_blocks is the new chain above the fork point, oldest to newest: the
\* first block's parent is on the old chain, every other block's parent is
\* the block before it, and with the old chain they are all of the new one.
LEMMA AddedBlocksPath ==
  ASSUME top_header \in Headers, NEW h \in Headers, h \notin Ancestors[top_header]
  PROVE  /\ AddedBlocks(h) \in Seq([hash : Headers, number : Nat])
         /\ Len(AddedBlocks(h)) = Number[h] - Number[ForkPoint(h)]
         /\ Len(AddedBlocks(h)) >= 1
         /\ AddedBlocks(h)[Len(AddedBlocks(h))].hash = h
         /\ Parent[AddedBlocks(h)[1].hash] \in Ancestors[top_header]
         /\ \A k \in 2..Len(AddedBlocks(h)) :
              Parent[AddedBlocks(h)[k].hash] = AddedBlocks(h)[k - 1].hash
         /\ \A a \in Ancestors[h] :
              \/ a \in Ancestors[top_header]
              \/ \E k \in 1..Len(AddedBlocks(h)) : AddedBlocks(h)[k].hash = a
         /\ \A k \in 1..Len(AddedBlocks(h)) : AddedBlocks(h)[k].hash \in Ancestors[h]
<1> DEFINE p    == ForkPoint(h)
           base == Number[p]
           len  == Number[h] - base
           A    == AddedBlocks(h)
<1>1. p \in Ancestors[h] /\ p \in Ancestors[top_header] /\ base \in 0..(Number[h] - 1)
  BY ForkPointExists
<1>2. Number[h] \in Nat /\ base \in Nat /\ len \in Nat /\ len >= 1
  BY <1>1, TreeAssumption
<1> HIDE DEF p, base, len
<1>3. A = [k \in 1..len |->
             [hash   |-> AncestorAt(h, base + k),
              number |-> IF k = len THEN base + k ELSE base + k + 1]]
  BY DEF AddedBlocks, p, base, len
<1>4. base + len = Number[h]
  BY <1>2 DEF len
<1>5. \A k \in 1..len : base + k \in 1..Number[h] /\ base + k \in 0..Number[h]
  BY <1>2, <1>4
<1>6. \A k \in 1..len : AncestorAt(h, base + k) \in Ancestors[h]
  BY <1>5, AncestorAtHeight
<1>7. \A k \in 1..len : A[k].hash = AncestorAt(h, base + k) /\ A[k].hash \in Headers
  BY <1>3, <1>6, AncestorsBasic
<1>8. A \in Seq([hash : Headers, number : Nat]) /\ Len(A) = len
  <2>1. ASSUME NEW k \in 1..len
        PROVE  A[k] \in [hash : Headers, number : Nat]
    <3>1. (IF k = len THEN base + k ELSE base + k + 1) \in Nat
      BY <1>2
    <3>2. AncestorAt(h, base + k) \in Headers
      BY <1>7
    <3>3. A[k] = [hash   |-> AncestorAt(h, base + k),
                  number |-> IF k = len THEN base + k ELSE base + k + 1]
      BY <1>3
    <3> HIDE DEF A
    <3> QED
      BY <3>1, <3>2, <3>3
  <2>2. A \in [1..len -> [hash : Headers, number : Nat]]
    BY <2>1, <1>3
  <2> HIDE DEF A
  <2>3. A \in Seq([hash : Headers, number : Nat])
    BY <2>2, <1>2, SeqDef
  <2>4. Len(A) = len
    BY <2>2, <2>3, <1>2, LenProperties
  <2> QED
    BY <2>3, <2>4
<1>9. A[len].hash = h
  <2>1. AncestorAt(h, Number[h]) = h
    BY <1>2, AncestorAtHeight, AncestorsBasic
  <2> QED
    BY <2>1, <1>7, <1>4, <1>2
<1>10. Parent[A[1].hash] = p
  <2>1. base + 1 \in 1..Number[h] /\ base \in 0..Number[h] /\ (base + 1) - 1 = base
    BY <1>2, <1>4
  <2>2. Parent[AncestorAt(h, base + 1)] = AncestorAt(h, base)
    BY <2>1, AncestorAtParent
  <2>3. AncestorAt(h, base) = p
    BY <2>1, <1>1, AncestorAtHeight DEF base
  <2> QED
    BY <2>2, <2>3, <1>7, <1>2
<1>11. ASSUME NEW k \in 2..len
       PROVE  Parent[A[k].hash] = A[k - 1].hash
  <2>1. k \in 1..len /\ k - 1 \in 1..len /\ (base + k) - 1 = base + (k - 1)
    BY <1>2
  <2>2. Parent[AncestorAt(h, base + k)] = AncestorAt(h, (base + k) - 1)
    BY <2>1, <1>5, AncestorAtParent
  <2> QED
    BY <2>1, <2>2, <1>7
<1>12. ASSUME NEW a \in Ancestors[h]
       PROVE  a \in Ancestors[top_header] \/ \E k \in 1..len : A[k].hash = a
  <2>1. a \in Headers /\ p \in Headers /\ Number[a] \in Nat /\ Number[a] <= Number[h]
    BY <1>1, AncestorsBasic, AncestorsLower, TreeAssumption
  <2>2. CASE Number[a] > base
    <3> DEFINE k == Number[a] - base
    <3>1. k \in 1..len /\ base + k = Number[a] /\ Number[a] \in 0..Number[h]
      BY <2>1, <2>2, <1>2, <1>4
    <3>2. a = AncestorAt(h, Number[a])
      BY <3>1, AncestorAtHeight
    <3> QED
      BY <3>1, <3>2, <1>7
  <2>3. CASE ~(Number[a] > base)
    <3>1. a \in Ancestors[p]
      <4>1. CASE a \in Ancestors[p]
        BY <4>1
      <4>2. CASE p \in Ancestors[a]
        <5>1. base <= Number[a] /\ (base = Number[a] => p = a)
          BY <4>2, <2>1, AncestorsLower DEF base
        <5>2. p = a
          BY <5>1, <2>1, <2>3, <1>2
        <5> QED
          BY <5>2, <2>1, AncestorsBasic
      <4> QED
        BY <4>1, <4>2, <1>1, AncestorsLinear
    <3> QED
      BY <3>1, <1>1, AncestorsTrans
  <2> QED
    BY <2>2, <2>3
<1>13. \A k \in 1..len : A[k].hash \in Ancestors[h]
  BY <1>6, <1>7
<1> QED
  BY <1>1, <1>2, <1>8, <1>9, <1>10, <1>11, <1>12, <1>13 DEF p, base, len

\* Taking removed_blocks out of the old top's chain and putting added_blocks
\* in gives the new top's chain, however far down the fork is.
LEMMA ChainSwitched ==
  ASSUME top_header \in Headers, NEW h \in Headers, h \notin Ancestors[top_header]
  PROVE  (Ancestors[top_header] \ RemovedBlocks(h))
           \cup {AddedBlocks(h)[k].hash : k \in DOMAIN AddedBlocks(h)} = Ancestors[h]
<1> DEFINE A == AddedBlocks(h)
<1>1. /\ A \in Seq([hash : Headers, number : Nat])
      /\ \A a \in Ancestors[h] :
           a \in Ancestors[top_header] \/ \E k \in 1..Len(A) : A[k].hash = a
      /\ \A k \in 1..Len(A) : A[k].hash \in Ancestors[h]
  BY AddedBlocksPath
<1> HIDE DEF A
<1>2. DOMAIN A = 1..Len(A)
  BY <1>1, LenProperties
<1>3. (Ancestors[top_header] \ RemovedBlocks(h)) \cup {A[k].hash : k \in DOMAIN A}
        = Ancestors[h]
  BY <1>1, <1>2 DEF RemovedBlocks
<1> QED
  BY <1>3 DEF A

-----------------------------------------------------------------------------
(* Counting the downloaded part of a chain.                                 *)

\* A chain has as many headers as its top is high, and genesis: heights and
\* ancestors correspond one to one.
LEMMA AncestorsCount ==
  ASSUME NEW h \in Headers
  PROVE  Cardinality(Ancestors[h]) = Number[h] + 1
<1> DEFINE D == 0..Number[h]
           f == [n \in D |-> AncestorAt(h, n)]
<1>1. Number[h] \in Nat
  BY TreeAssumption
<1>2. \A n \in D : f[n] \in Ancestors[h] /\ Number[f[n]] = n
  BY AncestorAtHeight
<1>3. \A a \in Ancestors[h] : Number[a] \in D /\ f[Number[a]] = a
  <2>1. ASSUME NEW a \in Ancestors[h]
        PROVE  Number[a] \in D /\ f[Number[a]] = a
    <3>1. Number[a] \in D
      BY <1>1, AncestorsBasic, AncestorsLower, TreeAssumption
    <3> QED
      BY <3>1, AncestorAtHeight
  <2> QED
    BY <2>1
<1>4. f \in [D -> Ancestors[h]]
  BY <1>2
<1> HIDE DEF f, D
<1>5. f \in Bijection(D, Ancestors[h])
  <2>1. \A m, n \in D : f[m] = f[n] => m = n
    BY <1>2
  <2>2. f \in Injection(D, Ancestors[h])
    BY <2>1, <1>4, Fun_IsInj
  <2>3. f \in Surjection(D, Ancestors[h])
    BY <1>3, <1>4, Fun_IsSurj
  <2> QED
    BY <2>2, <2>3 DEF Bijection
<1>6. ExistsBijection(D, Ancestors[h])
  BY <1>5 DEF ExistsBijection
<1>7. IsFiniteSet(D) /\ Cardinality(D) = Number[h] + 1
  BY <1>1, FS_Interval DEF D
<1> QED
  BY <1>6, <1>7, FS_Bijection

\* What the walk back counts, from the fetched blocks of the chain it is on.
CountOf(seen) == IF seen = {} THEN 0 ELSE Number[Highest(seen)] + 1

\* With a flag of the top that is not stale, that is what it counts.
LEMMA CountIsOfSeen ==
  ASSUME NEW top \in Headers, NEW fetched \in SUBSET Headers,
         NEW flag \in BOOLEAN, flag <=> top \in fetched
  PROVE  calculate_downloaded_blocks(top, flag, fetched)
           = CountOf(Ancestors[top] \cap fetched)
<1>1. SeenFetched(top, flag, fetched) = Ancestors[top] \cap fetched
  BY DEF SeenFetched
<1> QED
  BY <1>1 DEF calculate_downloaded_blocks, CountOf

\* If blocks are on disk only above ones that are on disk or lost, the walk
\* back to the first fetched header counts exactly the chain's fetched blocks
\* and the lost ones below them.
LEMMA CountIsExact ==
  ASSUME NEW top \in Headers, NEW fetched \in SUBSET Headers,
         lost \in SUBSET Headers, ClosedUnderParent(fetched \cup lost),
         NEW seen, seen = Ancestors[top] \cap fetched
  PROVE  CountOf(seen) = Cardinality(seen \cup LostBelow(seen))
<1> DEFINE best == Highest(seen)
<1>2. CASE seen = {}
  <2>1. seen \cup LostBelow(seen) = {}
    BY <1>2 DEF LostBelow
  <2> QED
    BY <2>1, <1>2, FS_EmptySet DEF CountOf
<1>3. CASE seen # {}
  <2>1. best \in seen /\ \A g \in seen : Number[g] <= Number[best]
    BY <1>3, HighestExists
  <2>2. best \in Headers /\ best \in Ancestors[top] /\ best \in fetched
    BY <2>1, AncestorsBasic
  <2>3. Ancestors[best] \subseteq seen \cup LostBelow(seen)
    <3>1. fetched \cup lost \in SUBSET Headers /\ best \in fetched \cup lost
      BY <2>2
    <3>2. Ancestors[best] \subseteq fetched \cup lost
      BY <3>1, KnownAncestors
    <3>3. Ancestors[best] \subseteq Ancestors[top]
      BY <2>2, AncestorsTrans
    <3> QED
      BY <3>2, <3>3, <2>1 DEF LostBelow
  <2>4. ASSUME NEW g \in seen
        PROVE  g \in Ancestors[best]
    <3>1. g \in Headers /\ g \in Ancestors[top] /\ Number[g] <= Number[best]
      BY <2>1, AncestorsBasic
    <3>2. CASE best \in Ancestors[g]
      <4>1. Number[best] <= Number[g] /\ (Number[best] = Number[g] => best = g)
        BY <3>1, <3>2, AncestorsLower
      <4>2. Number[best] \in Nat /\ Number[g] \in Nat
        BY <3>1, <2>2, TreeAssumption
      <4>3. best = g
        BY <4>1, <4>2, <3>1
      <4> QED
        BY <4>3, <2>2, AncestorsBasic
    <3> QED
      BY <3>1, <3>2, <2>2, AncestorsLinear
  <2>5. LostBelow(seen) \subseteq Ancestors[best]
    BY <2>2, <2>4, AncestorsTrans DEF LostBelow
  <2>6. seen \cup LostBelow(seen) = Ancestors[best]
    BY <2>3, <2>4, <2>5
  <2>7. Cardinality(Ancestors[best]) = Number[best] + 1
    BY <2>2, AncestorsCount
  <2> QED
    BY <2>6, <2>7, <1>3 DEF CountOf
<1> QED
  BY <1>2, <1>3

---------------------------------------------------------------------------
(* The startup, the header sync and the chain watcher. *)

\* What is on disk, or was lost.
Settled == fetched_full \cup lost

\* What is settled, is going to be by the startup task's plan, or is on its
\* way there in apply_block.
InHand ==
  Settled \cup missing \cup (IF applying = Nothing THEN {} ELSE {applying.hash})

\* The invariant, part by part.
TreeInv ==
  /\ ClosedUnderParent(known_headers)
  /\ top_fetched => top_header \in fetched_full

\* Connections let nothing through before the startup task has its plan, and
\* no block while part of the plan is still to be written.
GateInv ==
  /\ phase \in {"start", "headers"} =>
       /\ missing = {} /\ queue = <<>> /\ applying = Nothing
       /\ headers_in = {} /\ blocks_in = {}
  /\ phase = "headers" => SYNCING_HEADERS
  /\ missing # {} => /\ blocks_in = {} /\ applying = Nothing
                     /\ SYNCING_HEADERS \/ SYNCING_BODIES

\* Neither old nor behind: the top of a restarted node is downloaded.
StartInv ==
  phase = "start" =>
    \/ NeedIhd(top_header)
    \/ top_header \in fetched_full /\ DOWNLOADED_BLOCKS > Number[top_header]

\* Every block that somebody is after comes after its parent.
OrderInv ==
  /\ \A m \in missing : Parent[m] \in Settled \cup missing
  /\ applying # Nothing => Parent[applying.hash] \in Settled \cup missing
  /\ \A i \in 1..Len(queue) :
       Parent[queue[i].hash] \in InHand \cup {queue[j].hash : j \in 1..(i - 1)}

\* NothingForgotten, in terms of InHand.
CoverInv ==
  phase \notin {"start", "headers"} =>
    \A h \in Ancestors[top_header] : h \in InHand \cup Queued

IInv ==
  /\ TypeOK
  /\ TreeInv
  /\ GateInv
  /\ StartInv
  /\ FetchedClosed
  /\ OrderInv
  /\ CoverInv

-----------------------------------------------------------------------------
\* The counter is a natural number, and it exceeds the top's height only if
\* the top is downloaded.
LEMMA DownloadedBlocksCount ==
  ASSUME NEW top \in Headers, NEW flag \in BOOLEAN, NEW fetched \in SUBSET Headers
  PROVE  /\ calculate_downloaded_blocks(top, flag, fetched) \in Nat
         /\ calculate_downloaded_blocks(top, flag, fetched) > Number[top] <=> flag
<1> DEFINE seen == SeenFetched(top, flag, fetched)
           best == Highest(seen)
<1>1. seen \in SUBSET Ancestors[top] /\ (flag <=> top \in seen)
  BY AncestorsBasic DEF SeenFetched
<1>2. Number[top] \in Nat
  BY TreeAssumption
<1>3. CASE seen = {}
  BY <1>1, <1>2, <1>3 DEF calculate_downloaded_blocks
<1>4. CASE seen # {}
  <2>1. best \in seen /\ \A g \in seen : Number[g] <= Number[best]
    BY <1>1, <1>4, HighestExists
  <2>2. best \in Headers /\ Number[best] \in Nat
    BY <2>1, <1>1, AncestorsBasic, TreeAssumption
  <2>3. Number[best] <= Number[top] /\ (Number[best] = Number[top] => best = top)
    BY <2>1, <1>1, AncestorsLower
  <2>4. calculate_downloaded_blocks(top, flag, fetched) = Number[best] + 1
    BY <1>4 DEF calculate_downloaded_blocks
  <2> QED
    BY <2>1, <2>2, <2>3, <2>4, <1>1, <1>2
<1> QED
  BY <1>3, <1>4

\* Nothing that is settled gets unsettled.
LEMMA LoseSettles ==
  ASSUME NEW blocks, Lose(blocks)
  PROVE  Settled' = fetched_full' \cup lost \cup blocks
BY DEF Lose, Settled

\* The queue gets one entry per added block, in their order.
LEMMA QueueEntriesOrder ==
  ASSUME NEW h \in Headers,
         NEW added \in Seq([hash : Headers, number : Nat]),
         Len(added) >= 1, added[Len(added)].hash = h
  PROVE  /\ QueueEntries(h, added) \in Seq(Entry)
         /\ Len(QueueEntries(h, added)) = Len(added)
         /\ \A k \in 1..Len(added) : QueueEntries(h, added)[k].hash = added[k].hash
<1> DEFINE len == Len(added)
           Q   == QueueEntries(h, added)
<1>1. len \in Nat /\ Number[h] \in Nat /\ U64 \in Nat \ {0}
  BY TreeAssumption, LenProperties, KeepUpAssumption
<1>2. \A x \in Int : x % U64 \in 0..(U64 - 1)
  BY <1>1
<1>3. CASE len = 1
  <2>1. Q = << [hash |-> h, number |-> Number[h] % U64, strat |-> "append"] >>
    BY <1>3 DEF QueueEntries
  <2> DEFINE e == [hash |-> h, number |-> Number[h] % U64, strat |-> "append"]
  <2>2. Number[h] % U64 \in 0..(U64 - 1)
    <3>1. Number[h] \in Int
      BY <1>1
    <3> QED
      BY <3>1, <1>2, Zenon
  <2>3. e \in Entry /\ e.hash = h
    BY <2>2 DEF Entry
  <2> HIDE DEF Q, e
  <2>4. Q = << e >> /\ Q \in Seq(Entry) /\ Len(Q) = 1 /\ Q[1] = e
    BY <2>1, <2>3 DEF e
  <2>5. \A k \in 1..len : Q[k].hash = added[k].hash
    BY <2>3, <2>4, <1>3
  <2> QED
    BY <2>4, <2>5, <1>3 DEF Q
<1>4. CASE len # 1
  <2> DEFINE num(i) == (Number[h] - len - 1 + (i - 1)) % U64
             st(i)  == IF i = 1 THEN "regenerate" ELSE "append"
  <2>1. Q = [i \in 1..len |-> [hash |-> added[i].hash, number |-> num(i), strat |-> st(i)]]
    BY <1>4 DEF QueueEntries
  <2>2. ASSUME NEW i \in 1..len
        PROVE  /\ [hash |-> added[i].hash, number |-> num(i), strat |-> st(i)] \in Entry
               /\ Q[i].hash = added[i].hash
    <3>1. num(i) \in 0..(U64 - 1)
      <4>1. Number[h] - len - 1 + (i - 1) \in Int
        BY <1>1
      <4> QED
        BY <4>1, <1>2
    <3>2. added[i] \in [hash : Headers, number : Nat]
      BY ElementOfSeq
    <3>3. st(i) \in {"append", "regenerate"} /\ added[i].hash \in Headers
      BY <3>2
    <3>4. Q[i] = [hash |-> added[i].hash, number |-> num(i), strat |-> st(i)]
      BY <2>1
    <3> HIDE DEF num, st, Q
    <3> QED
      BY <3>1, <3>3, <3>4 DEF Entry
  <2> HIDE DEF num, st, Q
  <2>3. Q \in [1..len -> Entry]
    BY <2>1, <2>2
  <2>4. Q \in Seq(Entry)
    BY <2>3, <1>1, SeqDef
  <2>5. Len(Q) = len
    BY <2>3, <2>4, <1>1, LenProperties
  <2>6. \A i \in 1..len : Q[i].hash = added[i].hash
    BY <2>2
  <2> QED
    BY <2>4, <2>5, <2>6 DEF Q
<1> QED
  BY <1>3, <1>4

\* The regenerated index holds headers.
LEMMA GeneratedIndexType ==
  ASSUME NEW top \in Headers
  PROVE  generate_number_to_hash(top) \in [Numbers -> Headers \cup {NoHash}]
<1>1. ASSUME NEW n \in Numbers, n <= Number[top]
      PROVE  AncestorAt(top, n) \in Headers
  <2>1. n \in 0..Number[top]
    BY <1>1, TreeAssumption DEF Numbers
  <2> QED
    BY <2>1, AncestorAtHeight, AncestorsBasic
<1> QED
  BY <1>1 DEF generate_number_to_hash

\* A header that becomes the top leaves the chain's structures well formed.
LEMMA MoveTopType ==
  ASSUME ChainTypeOK, NEW h \in Headers, h \notin Ancestors[top_header], MoveTop(h)
  PROVE  ChainTypeOK'
<1> DEFINE A == AddedBlocks(h)
           base == Number[ForkPoint(h)]
           len == Number[h] - base
<1>1. top_header \in Headers
  BY DEF ChainTypeOK
<1>2. A \in Seq([hash : Headers, number : Nat]) /\ Len(A) = len
  BY <1>1, AddedBlocksPath
<1>3. base \in 0..(Number[h] - 1) /\ Number[h] \in Nat
  BY <1>1, ForkPointExists, TreeAssumption
<1>4. \A k \in 1..len : A[k].number = IF k = len THEN base + k ELSE base + k + 1
  BY DEF AddedBlocks
<1>5. DOMAIN A = 1..len /\ \A k \in 1..len : A[k].hash \in Headers
  <2>1. DOMAIN A = 1..len /\ \A k \in 1..len : A[k] \in [hash : Headers, number : Nat]
    BY <1>2, LenProperties, ElementOfSeq
  <2> QED
    BY <2>1
<1> HIDE DEF A, base
<1>6. most_work_chain' \subseteq Headers
  BY <1>5 DEF MoveTop, UpdateMostWorkChain, ChainTypeOK, A
<1>7. ASSUME NEW n \in Numbers
      PROVE  number_to_hash'[n] \in Headers \cup {NoHash}
  <2> DEFINE at == {k \in DOMAIN A : A[k].number = n}
             last == CHOOSE k \in at : \A j \in at : j <= k
  <2>1. number_to_hash'[n] = IF at = {} THEN number_to_hash[n] ELSE A[last].hash
    BY DEF MoveTop, UpdateMostWorkChain, A
  <2>2. CASE at = {}
    BY <2>1, <2>2 DEF ChainTypeOK
  <2>3. CASE at # {}
    <3>1. \E k \in at : \A j \in at : j <= k
      <4>1. len \in Nat
        BY <1>3
      <4>2. CASE len \in at
        BY <4>2, <4>1, <1>5
      <4>3. CASE len \notin at
        <5>1. PICK k \in at : TRUE
          BY <2>3
        <5>2. \A j \in at : j \in 1..len /\ j # len /\ base + j + 1 = n
          BY <4>3, <1>4, <1>5
        <5> QED
          BY <5>1, <5>2, <1>3
      <4> QED
        BY <4>2, <4>3
    <3>2. last \in at
      BY <3>1
    <3> HIDE DEF last
    <3> QED
      BY <3>2, <2>1, <2>3, <1>5
  <2> QED
    BY <2>2, <2>3
<1>8. number_to_hash' \in [Numbers -> Headers \cup {NoHash}]
  <2>1. number_to_hash' = [n \in Numbers |-> number_to_hash'[n]]
    BY DEF MoveTop, UpdateMostWorkChain
  <2> QED
    BY <2>1, <1>7
<1>9. DOWNLOADED_BLOCKS' \in Nat
  <2>1. fetched_full \in SUBSET Headers /\ FALSE \in BOOLEAN
    BY DEF ChainTypeOK
  <2>2. calculate_downloaded_blocks(h, FALSE, fetched_full) \in Nat
    BY <2>1, DownloadedBlocksCount
  <2> QED
    BY <2>2 DEF MoveTop, ChainTypeOK
<1>10. /\ known_headers' \subseteq Headers /\ fetched_full' \subseteq Headers
       /\ top_header' \in known_headers' /\ top_fetched' \in BOOLEAN
       /\ poisoned' \in BOOLEAN
  BY DEF MoveTop, ChainTypeOK
<1> QED
  BY <1>6, <1>8, <1>9, <1>10 DEF ChainTypeOK

\* So does marking blocks as downloaded.
LEMMA MarkType ==
  ASSUME ChainTypeOK, NEW blocks \in SUBSET Headers, mark_as_downloaded(blocks)
  PROVE  /\ ChainTypeOK'
         /\ top_fetched' => top_header' \in fetched_full'
<1>1. /\ fetched_full \cup blocks \in SUBSET Headers
      /\ TopFlag(fetched_full \cup blocks) \in BOOLEAN
      /\ top_header \in Headers
  BY DEF ChainTypeOK, TopFlag
<1>2. DOWNLOADED_BLOCKS' \in Nat
  BY <1>1, DownloadedBlocksCount DEF mark_as_downloaded
<1> QED
  BY <1>1, <1>2 DEF ChainTypeOK, mark_as_downloaded, TopFlag

\* The headers that handle_new_header and the header sync accept are new, and
\* not below the top.
LEMMA AcceptableIsNew ==
  ASSUME ChainTypeOK, ClosedUnderParent(known_headers), NEW h \in Headers, Acceptable(h)
  PROVE  /\ h \notin Ancestors[top_header]
         /\ ClosedUnderParent(known_headers \cup {h})
BY KnownAncestors DEF ChainTypeOK, Acceptable, ClosedUnderParent

-----------------------------------------------------------------------------
\* The invariant holds of every restart but those with a recent top header
\* whose body is missing.
LEMMA InitInv ==
  ASSUME "behind" \notin Startups, Init
  PROVE  IInv
<1>1. PICK known \in SUBSET Headers, fetched \in SUBSET Headers, top \in Headers :
        /\ LoadHeaders(known, fetched, top)
        /\ StartupKind(top, fetched) \in Startups
        /\ shown = CountedUpTo(get_top_synced_header_hash(top, fetched))
  BY DEF Init
<1>2. /\ known_headers = known /\ fetched_full = fetched /\ top_header = top
      /\ top \in known /\ fetched \subseteq known
      /\ ClosedUnderParent(known) /\ ClosedUnderParent(fetched)
      /\ top_fetched = (top \in fetched /\ top # Genesis)
      /\ most_work_chain = Ancestors[top]
      /\ number_to_hash = generate_number_to_hash(top)
      /\ DOWNLOADED_BLOCKS = calculate_downloaded_blocks(top, top_fetched, fetched)
      /\ poisoned = FALSE
  BY <1>1 DEF LoadHeaders
<1>3. top_fetched \in BOOLEAN
  BY <1>2
<1>4. /\ DOWNLOADED_BLOCKS \in Nat
      /\ DOWNLOADED_BLOCKS > Number[top] <=> top_fetched
  BY <1>2, <1>3, DownloadedBlocksCount
<1>5. shown \subseteq Headers
  <2> DEFINE seen == Ancestors[top] \cap fetched
  <2>1. seen \in SUBSET Ancestors[top]
    OBVIOUS
  <2>2. seen # {} => Highest(seen) \in Headers
    BY <2>1, HighestExists, AncestorsBasic
  <2>3. get_top_synced_header_hash(top, fetched) \in Headers \cup {NoHash}
    BY <2>2 DEF get_top_synced_header_hash
  <2> QED
    BY <2>3, <1>1, AncestorsBasic DEF CountedUpTo
<1>6. ChainTypeOK
  BY <1>2, <1>3, <1>4, GeneratedIndexType, AncestorsBasic DEF ChainTypeOK
<1>7. /\ SYNCING_HEADERS = FALSE /\ SYNCING_BODIES = FALSE /\ phase = "start"
      /\ missing = {} /\ lost = {} /\ queue = <<>> /\ applying = Nothing
      /\ watching = TRUE /\ headers_in = {} /\ blocks_in = {}
  BY DEF Init
<1>8. StartInv
  <2>1. NeedIhd(top) \/ top \in fetched
    BY <1>1 DEF StartupKind
  <2>2. ~NeedIhd(top) => top # Genesis
    BY KeepUpAssumption DEF NeedIhd
  <2> QED
    BY <2>1, <2>2, <1>2, <1>4 DEF StartInv
<1>9. TypeOK
  BY <1>5, <1>6, <1>7, EmptySeq DEF TypeOK
<1>10. TreeInv /\ GateInv /\ FetchedClosed
  BY <1>2, <1>7 DEF TreeInv, GateInv, FetchedClosed, ClosedUnderParent
<1>11. OrderInv /\ CoverInv
  BY <1>7 DEF OrderInv, CoverInv
<1> QED
  BY <1>8, <1>9, <1>10, <1>11 DEF IInv

-----------------------------------------------------------------------------
(* The startup task.                                                        *)

\* Nothing is missing when the top of a restarted node is recent.
LEMMA StartRecentInv ==
  ASSUME IInv, StartRecent
  PROVE  IInv'
<1>1. /\ top_header \in fetched_full /\ DOWNLOADED_BLOCKS > Number[top_header]
      /\ missing = {} /\ queue = <<>> /\ applying = Nothing
      /\ headers_in = {} /\ blocks_in = {}
  BY DEF IInv, StartInv, GateInv, StartRecent
<1>2. missing' = {} /\ phase' = "frontpage"
  BY <1>1 DEF StartRecent, PlanDownload, get_block_hashes_to_download
<1>3. UNCHANGED <<chainVars, flagVars, lost, watcherVars, netVars>>
  BY DEF StartRecent
<1>4. TypeOK' /\ TreeInv' /\ GateInv' /\ StartInv' /\ FetchedClosed'
  BY <1>1, <1>2, <1>3 DEF IInv, TypeOK, ChainTypeOK, TreeInv, GateInv, StartInv,
     FetchedClosed, ClosedUnderParent, chainVars, flagVars, watcherVars, netVars
<1>5. OrderInv'
  BY <1>1, <1>2, <1>3 DEF OrderInv, watcherVars
<1>6. Ancestors[top_header] \subseteq Settled
  BY <1>1, KnownAncestors DEF IInv, TypeOK, ChainTypeOK, FetchedClosed, Settled
<1>7. CoverInv'
  BY <1>3, <1>6 DEF CoverInv, InHand, Settled, chainVars
<1> QED
  BY <1>4, <1>5, <1>7 DEF IInv

\* While headers are synced, nothing else goes on.
LEMMA StartSyncingHeadersInv ==
  ASSUME IInv, start_syncing_headers
  PROVE  IInv'
<1>1. phase' = "headers" /\ SYNCING_HEADERS' = TRUE
  BY DEF start_syncing_headers
<1>2. UNCHANGED <<chainVars, SYNCING_BODIES, missing, lost, watcherVars, netVars>>
  BY DEF start_syncing_headers
<1>3. /\ missing = {} /\ queue = <<>> /\ applying = Nothing
      /\ headers_in = {} /\ blocks_in = {}
  BY DEF IInv, GateInv, start_syncing_headers
<1>4. TypeOK' /\ TreeInv' /\ GateInv' /\ StartInv' /\ FetchedClosed'
  BY <1>1, <1>2, <1>3 DEF IInv, TypeOK, ChainTypeOK, TreeInv, GateInv, StartInv,
     FetchedClosed, ClosedUnderParent, chainVars, watcherVars, netVars
<1>5. OrderInv' /\ CoverInv'
  BY <1>1, <1>2, <1>3 DEF OrderInv, CoverInv, watcherVars
<1> QED
  BY <1>4, <1>5 DEF IInv

LEMMA ValidateAndApplyHeadersInv ==
  ASSUME IInv, NEW h \in Headers, validate_and_apply_headers(h)
  PROVE  IInv'
<1>1. phase = "headers" /\ Acceptable(h)
  BY DEF validate_and_apply_headers
<1>2. UNCHANGED <<flagVars, startupVars, watcherVars, netVars>>
  BY DEF validate_and_apply_headers
<1>3. /\ missing = {} /\ queue = <<>> /\ applying = Nothing
      /\ headers_in = {} /\ blocks_in = {}
  BY <1>1 DEF IInv, GateInv
<1>4. /\ known_headers' = known_headers \cup {h}
      /\ \/ top_header' = top_header /\ top_fetched' = top_fetched
         \/ top_header' = h /\ top_fetched' = FALSE
      /\ UNCHANGED <<fetched_full, most_work_chain, number_to_hash,
                     DOWNLOADED_BLOCKS, poisoned>>
  BY DEF validate_and_apply_headers, InsertHeader, MoveTopDuringHeadersync
<1>5. ClosedUnderParent(known_headers')
  BY <1>1, <1>4, AcceptableIsNew DEF IInv, TypeOK, TreeInv
<1>6. TypeOK' /\ TreeInv' /\ FetchedClosed'
  <2>1. ChainTypeOK'
    BY <1>4 DEF IInv, TypeOK, ChainTypeOK
  <2>2. TypeOK'
    BY <1>2, <2>1 DEF IInv, TypeOK, flagVars, startupVars, watcherVars, netVars
  <2>3. ClosedUnderParent(known_headers)' /\ FetchedClosed'
    BY <1>2, <1>4, <1>5 DEF IInv, FetchedClosed, ClosedUnderParent, startupVars
  <2> QED
    BY <2>2, <2>3, <1>4 DEF IInv, TreeInv
<1>7. GateInv' /\ StartInv' /\ OrderInv' /\ CoverInv'
  BY <1>1, <1>2, <1>3 DEF IInv, GateInv, StartInv, OrderInv, CoverInv, flagVars,
     startupVars, watcherVars, netVars
<1> QED
  BY <1>6, <1>7 DEF IInv

\* The plan covers the whole chain of the top the header sync ended with.
LEMMA FinishHeadersInv ==
  ASSUME IInv, FinishHeaders
  PROVE  IInv'
<1> DEFINE D == calculate_downloaded_blocks(top_header, top_fetched, fetched_full)
<1>1. /\ phase = "headers" /\ phase' = "frontpage"
      /\ DOWNLOADED_BLOCKS' = D
      /\ most_work_chain' = Ancestors[top_header]
      /\ number_to_hash' = generate_number_to_hash(top_header)
      /\ missing' = get_block_hashes_to_download(top_header, fetched_full, D)
  BY DEF FinishHeaders, PlanDownload
<1>2. UNCHANGED <<known_headers, fetched_full, top_header, top_fetched, poisoned,
                  flagVars, lost, watcherVars, netVars>>
  BY DEF FinishHeaders
<1>3. /\ queue = <<>> /\ applying = Nothing /\ headers_in = {} /\ blocks_in = {}
      /\ SYNCING_HEADERS
  BY <1>1 DEF IInv, GateInv
<1>4. /\ top_header \in Headers /\ top_fetched \in BOOLEAN
      /\ fetched_full \in SUBSET Headers /\ fetched_full \subseteq Settled
      /\ Settled \in SUBSET Headers /\ ClosedUnderParent(Settled)
      /\ top_fetched => top_header \in fetched_full
  BY DEF IInv, TypeOK, ChainTypeOK, TreeInv, FetchedClosed, Settled
<1>5. D \in Nat /\ (D > Number[top_header] <=> top_fetched)
  BY <1>4, DownloadedBlocksCount
<1> HIDE DEF D
<1>6. missing' \subseteq Ancestors[top_header]
  BY <1>1, <1>4, AncestorsBasic DEF get_block_hashes_to_download
<1>7. ASSUME NEW a \in Ancestors[top_header]
      PROVE  a \in Settled \cup missing'
  <2>1. CASE top_fetched
    BY <2>1, <1>4, KnownAncestors
  <2>2. CASE ~top_fetched
    <3>1. CASE a \in missing'
      BY <3>1
    <3>2. CASE a \notin missing'
      <4>1. PICK g \in Ancestors[top_header] : a \in Ancestors[g] /\ g \in fetched_full
        BY <3>2, <2>2, <1>1, <1>5 DEF get_block_hashes_to_download
      <4> QED
        BY <4>1, <1>4, KnownAncestors
    <3> QED
      BY <3>1, <3>2
  <2> QED
    BY <2>1, <2>2, <1>4
<1>8. ChainTypeOK'
  BY <1>1, <1>2, <1>4, <1>5, GeneratedIndexType, AncestorsBasic
     DEF IInv, TypeOK, ChainTypeOK
<1>9. TypeOK'
  BY <1>1, <1>2, <1>4, <1>6, <1>8, AncestorsBasic
     DEF IInv, TypeOK, flagVars, watcherVars, netVars
<1>10. TreeInv' /\ GateInv' /\ StartInv' /\ FetchedClosed'
  BY <1>1, <1>2, <1>3 DEF IInv, TreeInv, GateInv, StartInv,
     FetchedClosed, ClosedUnderParent, flagVars, watcherVars, netVars
<1>11. \A m \in missing' : Parent[m] \in Settled \cup missing'
  BY <1>6, <1>7, <1>4, AncestorsBasic
<1>12. OrderInv'
  BY <1>2, <1>3, <1>11 DEF OrderInv, Settled, watcherVars
<1>13. CoverInv'
  BY <1>2, <1>7 DEF CoverInv, InHand, Settled
<1> QED
  BY <1>9, <1>10, <1>12, <1>13 DEF IInv

LEMMA FinishFrontpageInv ==
  ASSUME IInv, FinishFrontpage
  PROVE  IInv'
<1>1. /\ phase = "frontpage" /\ phase' \in {"synced", "bodies"}
      /\ SYNCING_BODIES' = (missing # {}) /\ SYNCING_HEADERS' = FALSE
  BY DEF FinishFrontpage, SwitchToBodies
<1>2. UNCHANGED <<chainVars, missing, lost, watcherVars, netVars>>
  BY DEF FinishFrontpage
<1>3. TypeOK' /\ TreeInv' /\ GateInv' /\ StartInv' /\ FetchedClosed'
  BY <1>1, <1>2 DEF IInv, TypeOK, ChainTypeOK, TreeInv, GateInv, StartInv,
     FetchedClosed, ClosedUnderParent, chainVars, watcherVars, netVars
<1>4. OrderInv' /\ CoverInv'
  BY <1>1, <1>2 DEF IInv, OrderInv, CoverInv, InHand, Settled, Queued, chainVars, watcherVars
<1> QED
  BY <1>3, <1>4 DEF IInv

\* The plan is dropped, be it that generate_frontpage_data panicked or that
\* sync_blocks returned early: what was planned is lost, and what was to come
\* after it may come.
LEMMA PlanDropped ==
  ASSUME IInv, phase \in {"frontpage", "bodies"}, phase' \in {"synced", "dead"},
         missing' = {}, UNCHANGED <<chainVars, SYNCING_HEADERS, watcherVars, netVars>>,
         SYNCING_BODIES' \in BOOLEAN, Lose(missing)
  PROVE  IInv'
<1>1. Settled' = Settled \cup missing
  BY LoseSettles DEF Settled, chainVars
<1>2. lost' \subseteq Headers
  BY DEF IInv, TypeOK, Lose
<1>3. TypeOK' /\ TreeInv' /\ GateInv' /\ StartInv'
  BY <1>2 DEF IInv, TypeOK, ChainTypeOK, TreeInv, GateInv, StartInv,
     ClosedUnderParent, chainVars, watcherVars, netVars
<1>4. FetchedClosed'
  BY <1>1 DEF IInv, OrderInv, FetchedClosed, ClosedUnderParent, Settled
<1>5. InHand' = InHand
  BY <1>1 DEF InHand, watcherVars
<1>6. OrderInv' /\ CoverInv'
  BY <1>1, <1>5 DEF IInv, OrderInv, CoverInv, Queued, chainVars, watcherVars
<1> QED
  BY <1>3, <1>4, <1>6 DEF IInv

\* A batch of the lowest missing blocks goes to disk after what is below it.
LEMMA WriteBatchInv ==
  ASSUME IInv, NEW batch \in SUBSET missing, WriteBatch(batch)
  PROVE  IInv'
<1>1. /\ phase = "bodies" /\ IsBatch(batch) /\ mark_as_downloaded(batch)
      /\ missing' = missing \ batch /\ shown' = shown \cup batch
  BY DEF WriteBatch
<1>2. UNCHANGED <<flagVars, phase, queue, applying, watching, netVars>>
  BY DEF WriteBatch
<1>3. /\ fetched_full' = fetched_full \cup batch
      /\ UNCHANGED <<known_headers, top_header>>
  BY <1>1 DEF mark_as_downloaded
<1>4. missing \subseteq Headers /\ applying = Nothing
  BY <1>1 DEF IInv, TypeOK, GateInv, IsBatch
<1>5. ChainTypeOK' /\ (top_fetched' => top_header' \in fetched_full')
  BY <1>1, <1>4, MarkType DEF IInv, TypeOK
<1>11. Settled' = Settled \cup batch /\ lost' \subseteq Headers
  BY <1>3, LoseSettles DEF WriteBatch, Settled, Lose, IInv, TypeOK
<1>6. TypeOK' /\ TreeInv' /\ GateInv' /\ StartInv'
  BY <1>1, <1>2, <1>3, <1>4, <1>5, <1>11 DEF IInv, TypeOK, TreeInv, GateInv, StartInv,
     ClosedUnderParent, flagVars, netVars
<1>7. FetchedClosed'
  <2>1. ASSUME NEW b \in batch
        PROVE  Parent[b] \in Settled \cup batch
    <3>1. Parent[b] \in Settled \cup missing /\ b \in Headers
      BY <1>4 DEF IInv, OrderInv
    <3>2. CASE b = Genesis
      BY <3>2, TreeAssumption
    <3>3. CASE b # Genesis
      <4>1. Number[Parent[b]] < Number[b]
        BY <3>1, <3>3, TreeAssumption
      <4> QED
        BY <4>1, <3>1, <1>1 DEF IsBatch
    <3> QED
      BY <3>2, <3>3
  <2> QED
    BY <2>1, <1>11 DEF IInv, FetchedClosed, ClosedUnderParent, Settled
<1>8. Settled' \cup missing' = Settled \cup missing
  BY <1>1, <1>11
<1>9. InHand' = InHand
  BY <1>2, <1>8 DEF InHand
<1>10. OrderInv' /\ CoverInv'
  BY <1>1, <1>2, <1>3, <1>8, <1>9 DEF IInv, OrderInv, CoverInv, Queued
<1> QED
  BY <1>6, <1>7, <1>10 DEF IInv

LEMMA StopSyncingBlocksInv ==
  ASSUME IInv, stop_syncing_blocks \/ FrontpagePanics
  PROVE  IInv'
<1>1. /\ phase \in {"frontpage", "bodies"} /\ phase' \in {"synced", "dead"}
      /\ missing' = {} /\ Lose(missing) /\ SYNCING_BODIES' \in BOOLEAN
      /\ UNCHANGED <<chainVars, SYNCING_HEADERS, watcherVars, netVars>>
  BY DEF stop_syncing_blocks, FrontpagePanics, flagVars, IInv, TypeOK
<1> QED
  BY <1>1, PlanDropped

-----------------------------------------------------------------------------
(* The connections.                                                         *)

LEMMA ReceiveHeaderInv ==
  ASSUME IInv, NEW h \in Headers, ReceiveHeader(h)
  PROVE  IInv'
<1>1. /\ phase # "start" /\ ~SYNCING_HEADERS
      /\ headers_in' = headers_in \cup News(h)
  BY DEF ReceiveHeader, should_process_headers
<1>2. UNCHANGED <<chainVars, flagVars, startupVars, watcherVars, blocks_in>>
  BY DEF ReceiveHeader
<1>3. TypeOK' /\ TreeInv' /\ GateInv' /\ StartInv' /\ FetchedClosed'
  BY <1>1, <1>2 DEF IInv, TypeOK, ChainTypeOK, TreeInv, GateInv, StartInv, News,
     FetchedClosed, ClosedUnderParent, chainVars, flagVars, startupVars, watcherVars
<1>4. OrderInv' /\ CoverInv'
  BY <1>2 DEF IInv, OrderInv, CoverInv, InHand, Settled, Queued, chainVars, startupVars, watcherVars
<1> QED
  BY <1>3, <1>4 DEF IInv

\* A connection that lets a block through saw both flags down.
LEMMA ReceiveBlockInv ==
  ASSUME IInv, NEW b \in Packet, ReceiveBlock(b)
  PROVE  IInv'
<1>1. /\ phase # "start" /\ ~SYNCING_HEADERS /\ ~SYNCING_BODIES
      /\ headers_in' = headers_in \cup News(b.hash)
      /\ blocks_in' = blocks_in \cup {b}
  BY DEF ReceiveBlock, should_process_blocks, should_process_headers
<1>2. UNCHANGED <<chainVars, flagVars, startupVars, watcherVars>>
  BY DEF ReceiveBlock
<1>3. b.hash \in Headers
  BY DEF Packet
<1>4. missing = {}
  BY <1>1 DEF IInv, GateInv
<1>5. TypeOK' /\ TreeInv' /\ GateInv' /\ StartInv' /\ FetchedClosed'
  BY <1>1, <1>2, <1>3, <1>4 DEF IInv, TypeOK, ChainTypeOK, TreeInv, GateInv,
     StartInv, News, FetchedClosed, ClosedUnderParent, chainVars, flagVars,
     startupVars, watcherVars
<1>6. OrderInv' /\ CoverInv'
  BY <1>2 DEF IInv, OrderInv, CoverInv, InHand, Settled, Queued, chainVars, startupVars, watcherVars
<1> QED
  BY <1>5, <1>6 DEF IInv

-----------------------------------------------------------------------------
(* The chain watcher.                                                       *)

LEMMA IgnoreHeaderInv ==
  ASSUME IInv, NEW h \in Headers, IgnoreHeader(h)
  PROVE  IInv'
<1>1. headers_in' = headers_in \ {h}
  BY DEF IgnoreHeader
<1>2. UNCHANGED <<chainVars, flagVars, startupVars, watcherVars, blocks_in>>
  BY DEF IgnoreHeader
<1>3. TypeOK' /\ TreeInv' /\ GateInv' /\ StartInv' /\ FetchedClosed'
  BY <1>1, <1>2 DEF IInv, TypeOK, ChainTypeOK, TreeInv, GateInv, StartInv,
     FetchedClosed, ClosedUnderParent, chainVars, flagVars, startupVars, watcherVars
<1>4. OrderInv' /\ CoverInv'
  BY <1>2 DEF IInv, OrderInv, CoverInv, InHand, Settled, Queued, chainVars, startupVars, watcherVars
<1> QED
  BY <1>3, <1>4 DEF IInv

LEMMA IgnoreBlockInv ==
  ASSUME IInv, NEW b \in Packet, IgnoreBlock(b)
  PROVE  IInv'
<1>1. blocks_in' = blocks_in \ {b}
  BY DEF IgnoreBlock
<1>2. UNCHANGED <<chainVars, flagVars, startupVars, watcherVars, headers_in>>
  BY DEF IgnoreBlock
<1>3. TypeOK' /\ TreeInv' /\ GateInv' /\ StartInv' /\ FetchedClosed'
  BY <1>1, <1>2 DEF IInv, TypeOK, ChainTypeOK, TreeInv, GateInv, StartInv,
     FetchedClosed, ClosedUnderParent, chainVars, flagVars, startupVars, watcherVars
<1>4. OrderInv' /\ CoverInv'
  BY <1>2 DEF IInv, OrderInv, CoverInv, InHand, Settled, Queued, chainVars, startupVars, watcherVars
<1> QED
  BY <1>3, <1>4 DEF IInv

\* A new top queues what separates it from the old one, oldest first: the
\* first block's parent is on the old chain, which CoverInv accounts for.
LEMMA HandleNewHeaderInv ==
  ASSUME IInv, NEW h \in Headers, handle_new_header(h)
  PROVE  IInv'
<1>1. /\ applying = Nothing /\ h \in headers_in /\ Acceptable(h)
      /\ headers_in' = headers_in \ {h}
  BY DEF handle_new_header, WatcherIdle
<1>2. UNCHANGED <<flagVars, startupVars, applying, watching, shown, blocks_in>>
  BY DEF handle_new_header
<1>3. phase \notin {"start", "headers"}
  BY <1>1 DEF IInv, GateInv
<1>4. /\ h \notin Ancestors[top_header]
      /\ ClosedUnderParent(known_headers \cup {h})
  BY <1>1, AcceptableIsNew DEF IInv, TypeOK, TreeInv
<1>5. ASSUME ChainTypeOK', queue' \in Seq(Entry), fetched_full' = fetched_full,
             known_headers' = known_headers \cup {h},
             top_fetched' => top_header' \in fetched_full'
      PROVE  TypeOK' /\ TreeInv' /\ GateInv' /\ StartInv' /\ FetchedClosed'
  <2>1. TypeOK'
    BY <1>1, <1>2, <1>5 DEF IInv, TypeOK, flagVars, startupVars
  <2>2. ClosedUnderParent(known_headers)' /\ FetchedClosed'
    BY <1>2, <1>4, <1>5 DEF IInv, FetchedClosed, ClosedUnderParent, startupVars
  <2>3. TreeInv'
    BY <2>2, <1>5 DEF TreeInv
  <2>4. GateInv' /\ StartInv'
    BY <1>1, <1>2, <1>3 DEF IInv, GateInv, StartInv, flagVars, startupVars
  <2> QED
    BY <2>1, <2>2, <2>3, <2>4
<1>6. CASE (InsertHeader(h) \/ PanicInWalk(h)) /\ UNCHANGED queue
  <2>1. /\ known_headers' = known_headers \cup {h}
        /\ poisoned' \in BOOLEAN
        /\ UNCHANGED <<fetched_full, top_header, top_fetched, most_work_chain,
                       number_to_hash, DOWNLOADED_BLOCKS, queue>>
    BY <1>6 DEF InsertHeader, PanicInWalk, IInv, TypeOK, ChainTypeOK
  <2>2. ChainTypeOK' /\ queue' \in Seq(Entry) /\ (top_fetched' => top_header' \in fetched_full')
    BY <2>1 DEF IInv, TypeOK, ChainTypeOK, TreeInv
  <2>3. OrderInv' /\ CoverInv'
    BY <2>1, <1>2 DEF IInv, OrderInv, CoverInv, InHand, Settled, Queued, startupVars
  <2> QED
    BY <2>1, <2>2, <2>3, <1>5 DEF IInv
<1>7. CASE MoveTop(h) /\ queue' = queue \o QueueEntries(h, AddedBlocks(h))
  <2> DEFINE A == AddedBlocks(h)
             Q == QueueEntries(h, A)
             n == Len(queue)
             m == Len(A)
  <2>1. /\ known_headers' = known_headers \cup {h} /\ top_header' = h
        /\ top_fetched' = FALSE /\ fetched_full' = fetched_full
    BY <1>7 DEF MoveTop
  <2>2. ChainTypeOK'
    BY <1>4, <1>7, MoveTopType DEF IInv, TypeOK
  <2>3. top_header \in Headers /\ queue \in Seq(Entry) /\ n \in Nat
    BY LenProperties DEF IInv, TypeOK, ChainTypeOK
  <2>4. /\ A \in Seq([hash : Headers, number : Nat]) /\ m >= 1 /\ A[m].hash = h
        /\ Parent[A[1].hash] \in Ancestors[top_header]
        /\ \A k \in 2..m : Parent[A[k].hash] = A[k - 1].hash
        /\ \A a \in Ancestors[h] : a \in Ancestors[top_header] \/ \E k \in 1..m : A[k].hash = a
    BY <1>4, <2>3, AddedBlocksPath
  <2> HIDE DEF A
  <2>5. /\ Q \in Seq(Entry) /\ Len(Q) = m
        /\ \A k \in 1..m : Q[k].hash = A[k].hash
    BY <2>4, QueueEntriesOrder
  <2>6. m \in Nat
    BY <2>4, LenProperties
  <2>7. queue' = queue \o Q
    BY <1>7 DEF A
  <2> HIDE DEF Q, n, m
  <2>8. /\ queue' \in Seq(Entry) /\ Len(queue') = n + m
        /\ \A i \in 1..n : queue'[i] = queue[i]
        /\ \A k \in 1..m : queue'[n + k] = Q[k]
    <3>1. /\ queue \o Q \in Seq(Entry) /\ Len(queue \o Q) = n + m
          /\ \A i \in 1..(n + m) :
               (queue \o Q)[i] = IF i <= n THEN queue[i] ELSE Q[i - n]
      BY <2>3, <2>5, ConcatProperties DEF n
    <3>2. \A k \in 1..m : n + k \in 1..(n + m) /\ ~(n + k <= n) /\ (n + k) - n = k
      BY <2>3, <2>6
    <3>3. \A i \in 1..n : i \in 1..(n + m) /\ i <= n
      BY <2>3, <2>6
    <3> QED
      BY <3>1, <3>2, <3>3, <2>7
  <2>9. \A a \in Ancestors[top_header] : a \in InHand \cup Queued
    BY <1>3 DEF IInv, CoverInv
  <2>10. /\ InHand' = InHand /\ missing' = missing /\ applying' = applying
         /\ Settled' = Settled
    BY <1>2, <2>1 DEF InHand, Settled, startupVars
  <2>11. Queued \subseteq {queue'[j].hash : j \in 1..n}
    BY <2>8 DEF Queued, n
  <2>12. OrderInv'
    <3>1. ASSUME NEW i \in 1..(n + m)
          PROVE  Parent[queue'[i].hash] \in InHand \cup {queue'[j].hash : j \in 1..(i - 1)}
      <4>1. CASE i \in 1..n
        <5>1. Parent[queue[i].hash] \in InHand \cup {queue[j].hash : j \in 1..(i - 1)}
          BY <4>1 DEF IInv, OrderInv, n
        <5>2. \A j \in 1..(i - 1) : j \in 1..n
          BY <4>1, <2>3
        <5> QED
          BY <5>1, <5>2, <4>1, <2>8
      <4>2. CASE i \notin 1..n
        <5> DEFINE k == i - n
        <5>1. k \in 1..m /\ i = n + k /\ \A j \in 1..n : j \in 1..(i - 1)
          BY <4>2, <2>3, <2>6
        <5>2. queue'[i].hash = A[k].hash
          BY <5>1, <2>8, <2>5
        <5>3. CASE k = 1
          <6>1. Parent[queue'[i].hash] \in InHand \cup Queued
            BY <5>2, <5>3, <2>4, <2>9
          <6> QED
            BY <6>1, <5>1, <2>11
        <5>4. CASE k # 1
          <6>1. k \in 2..m /\ k - 1 \in 1..m /\ n + (k - 1) \in 1..(i - 1)
            BY <5>1, <5>4, <2>3, <2>6
          <6>2. queue'[n + (k - 1)].hash = A[k - 1].hash
            BY <6>1, <2>5, <2>8
          <6>3. Parent[queue'[i].hash] = queue'[n + (k - 1)].hash
            BY <6>1, <6>2, <5>2, <2>4
          <6> HIDE DEF k
          <6> QED
            BY <6>1, <6>3
        <5> QED
          BY <5>3, <5>4
      <4> QED
        BY <4>1, <4>2
    <3> QED
      BY <3>1, <2>1, <2>8, <2>10, <1>1 DEF IInv, OrderInv
  <2>13. CoverInv'
    <3>1. ASSUME NEW a \in Ancestors[h]
          PROVE  a \in InHand' \cup Queued'
      <4>1. Queued' = {queue'[j].hash : j \in 1..(n + m)}
        BY <2>8 DEF Queued
      <4>2. \A j \in 1..n : j \in 1..(n + m)
        BY <2>3, <2>6
      <4>3. \A k \in 1..m : n + k \in 1..(n + m) /\ queue'[n + k].hash = A[k].hash
        BY <2>3, <2>5, <2>6, <2>8
      <4>4. CASE a \in Ancestors[top_header]
        BY <4>1, <4>2, <4>4, <2>9, <2>10, <2>11
      <4>5. CASE \E k \in 1..m : A[k].hash = a
        BY <4>1, <4>3, <4>5
      <4> QED
        BY <4>4, <4>5, <2>4
    <3> QED
      BY <3>1, <2>1 DEF CoverInv
  <2> QED
    BY <2>1, <2>2, <2>8, <2>12, <2>13, <1>5 DEF IInv
<1> QED
  BY <1>6, <1>7 DEF handle_new_header

\* The head of the queue has its parent in hand; a block is in flight only
\* when the plan is done, so that this means on disk.
LEMMA HandleNewBlockInv ==
  ASSUME IInv, NEW b \in Packet, handle_new_block(b)
  PROVE  IInv'
<1>1. /\ applying = Nothing /\ b \in blocks_in /\ queue # <<>>
      /\ b.hash = queue[1].hash
      /\ blocks_in' = blocks_in \ {b}
      /\ applying' = [queue[1] EXCEPT !.hash = b.hash]
      /\ queue' = Tail(queue)
  BY DEF handle_new_block, WatcherIdle, IsNext
<1>2. UNCHANGED <<chainVars, flagVars, startupVars, watching, shown, headers_in>>
  BY DEF handle_new_block
<1>3. queue \in Seq(Entry) /\ Len(queue) \in Nat \ {0}
  BY <1>1, EmptySeq DEF IInv, TypeOK
<1>4. queue[1] \in Entry
  BY <1>3, ElementOfSeq
<1>5. applying' = queue[1] /\ applying' # Nothing
  <2>1. applying' = queue[1]
    BY <1>1, <1>4 DEF Entry
  <2>2. queue[1] # Nothing
    BY <1>4, SMT DEF Entry, Nothing
  <2> QED
    BY <2>1, <2>2
<1>6. /\ Tail(queue) \in Seq(Entry) /\ Len(Tail(queue)) = Len(queue) - 1
      /\ \A i \in 1..(Len(queue) - 1) : Tail(queue)[i] = queue[i + 1]
  BY <1>1, <1>3, HeadTailProperties
<1>7. missing = {} /\ phase \notin {"start", "headers"}
  BY <1>1 DEF IInv, GateInv
<1>8. TypeOK'
  BY <1>1, <1>2, <1>4, <1>5, <1>6 DEF IInv, TypeOK, ChainTypeOK, chainVars,
     flagVars, startupVars
<1>9. TreeInv' /\ GateInv' /\ StartInv' /\ FetchedClosed'
  BY <1>2, <1>7 DEF IInv, TreeInv, GateInv, StartInv, FetchedClosed,
     ClosedUnderParent, chainVars, flagVars, startupVars
<1>10. InHand' = InHand \cup {queue[1].hash}
  BY <1>1, <1>2, <1>5 DEF InHand, Settled, chainVars, startupVars
<1>11. Parent[queue[1].hash] \in Settled \cup missing
  <2>1. 1 \in 1..Len(queue) /\ 1..(1 - 1) = {}
    BY <1>3
  <2>2. Parent[queue[1].hash] \in InHand \cup {queue[j].hash : j \in 1..(1 - 1)}
    BY <2>1 DEF IInv, OrderInv
  <2> QED
    BY <2>1, <2>2, <1>1 DEF InHand
<1>12. ASSUME NEW i \in 1..Len(queue')
       PROVE  Parent[queue'[i].hash] \in InHand' \cup {queue'[j].hash : j \in 1..(i - 1)}
  <2>1. i \in 1..(Len(queue) - 1) /\ i + 1 \in 1..Len(queue) /\ (i + 1) - 1 = i
    BY <1>1, <1>3, <1>6
  <2>2. queue'[i] = queue[i + 1]
    BY <2>1, <1>1, <1>6
  <2>3. Parent[queue[i + 1].hash] \in InHand \cup {queue[j].hash : j \in 1..i}
    BY <2>1 DEF IInv, OrderInv
  <2>4. ASSUME NEW j \in 1..i
        PROVE  queue[j].hash \in InHand' \cup {queue'[x].hash : x \in 1..(i - 1)}
    <3>1. CASE j = 1
      BY <3>1, <1>10
    <3>2. CASE j # 1
      <4>1. j - 1 \in 1..(i - 1) /\ j - 1 \in 1..(Len(queue) - 1) /\ (j - 1) + 1 = j
        BY <3>2, <2>1, <1>3
      <4>2. queue'[j - 1] = queue[j]
        BY <4>1, <1>1, <1>6
      <4> QED
        BY <4>1, <4>2
    <3> QED
      BY <3>1, <3>2
  <2> QED
    BY <2>2, <2>3, <2>4, <1>10
<1>13. OrderInv'
  BY <1>2, <1>5, <1>7, <1>11, <1>12 DEF IInv, OrderInv, Settled, chainVars, startupVars
<1>14. Queued \subseteq Queued' \cup {queue[1].hash}
  <2>1. ASSUME NEW j \in 1..Len(queue), j # 1
        PROVE  queue[j].hash \in Queued'
    <3>1. j - 1 \in 1..(Len(queue) - 1) /\ (j - 1) + 1 = j
      BY <2>1, <1>3
    <3>2. queue'[j - 1] = queue[j] /\ j - 1 \in 1..Len(queue')
      BY <3>1, <1>1, <1>6
    <3> QED
      BY <3>2 DEF Queued
  <2> QED
    BY <2>1 DEF Queued
<1>15. CoverInv'
  BY <1>2, <1>7, <1>10, <1>14 DEF IInv, CoverInv, chainVars, startupVars
<1> QED
  BY <1>8, <1>9, <1>13, <1>15 DEF IInv

\* A block is applied when its parent is settled; if it is given up, it is
\* settled itself.
LEMMA ApplyingNext ==
  ASSUME IInv, applying # Nothing
  PROVE  /\ applying \in Entry /\ applying.hash \in Headers
         /\ missing = {} /\ phase \notin {"start", "headers"}
         /\ Parent[applying.hash] \in Settled
BY DEF IInv, TypeOK, GateInv, OrderInv, Entry

LEMMA ApplyBlockInv ==
  ASSUME IInv, apply_block
  PROVE  IInv'
<1> DEFINE h == applying.hash
<1>1. applying # Nothing
  BY DEF apply_block
<1>2. /\ applying \in Entry /\ h \in Headers
      /\ missing = {} /\ phase \notin {"start", "headers"}
      /\ Parent[h] \in Settled
  BY <1>1, ApplyingNext
<1>5. /\ mark_as_downloaded({h})
      /\ Lose({})
      /\ shown' = IF applying.strat = "append" THEN shown \cup {h} ELSE Ancestors[h]
      /\ applying' = Nothing
      /\ UNCHANGED <<flagVars, phase, missing, queue, watching, netVars>>
  BY DEF apply_block, Shown
<1>6. /\ fetched_full' = fetched_full \cup {h}
      /\ UNCHANGED <<known_headers, top_header>>
  BY <1>5 DEF mark_as_downloaded
<1>7. ChainTypeOK' /\ (top_fetched' => top_header' \in fetched_full')
  BY <1>2, <1>5, MarkType DEF IInv, TypeOK
<1>3. Settled' = Settled \cup {h} /\ lost' \subseteq Headers
  BY <1>5, <1>6, LoseSettles DEF Settled, Lose, IInv, TypeOK
<1>8. TypeOK'
  BY <1>2, <1>3, <1>5, <1>7, AncestorsBasic DEF IInv, TypeOK, flagVars, netVars
<1>9. TreeInv' /\ GateInv' /\ StartInv'
  BY <1>2, <1>5, <1>6, <1>7 DEF IInv, TreeInv, GateInv, StartInv,
     ClosedUnderParent, flagVars, netVars
<1>10. FetchedClosed'
  BY <1>2, <1>3 DEF IInv, FetchedClosed, ClosedUnderParent, Settled
<1>11. InHand' = InHand
  BY <1>1, <1>3, <1>5 DEF InHand
<1>12. OrderInv' /\ CoverInv'
  BY <1>2, <1>5, <1>6, <1>11 DEF IInv, OrderInv, CoverInv, Queued
<1> QED
  BY <1>8, <1>9, <1>10, <1>12 DEF IInv

LEMMA ApplyBlockReturnsInv ==
  ASSUME IInv, apply_block_Returns
  PROVE  IInv'
<1> DEFINE h == applying.hash
<1>1. /\ applying # Nothing /\ applying' = Nothing /\ Lose({h})
      /\ UNCHANGED <<chainVars, flagVars, phase, missing, queue, watching, shown, netVars>>
  BY DEF apply_block_Returns
<1>2. /\ h \in Headers /\ missing = {} /\ phase \notin {"start", "headers"}
      /\ Parent[h] \in Settled
  BY <1>1, ApplyingNext
<1>3. Settled' = Settled \cup {h} /\ lost' \subseteq Headers
  BY <1>1, <1>2, LoseSettles DEF Settled, Lose, IInv, TypeOK, chainVars
<1>4. TypeOK' /\ TreeInv' /\ GateInv' /\ StartInv'
  BY <1>1, <1>2, <1>3 DEF IInv, TypeOK, ChainTypeOK, TreeInv, GateInv, StartInv,
     ClosedUnderParent, chainVars, flagVars, netVars
<1>5. FetchedClosed'
  BY <1>2, <1>3 DEF IInv, FetchedClosed, ClosedUnderParent, Settled
<1>6. InHand' = InHand
  BY <1>1, <1>3 DEF InHand
<1>7. OrderInv' /\ CoverInv'
  BY <1>1, <1>2, <1>6 DEF IInv, OrderInv, CoverInv, Queued, chainVars
<1> QED
  BY <1>4, <1>5, <1>7 DEF IInv

\* With the watcher the whole queue is settled, its head first.
LEMMA WatcherPanicsInv ==
  ASSUME IInv, WatcherPanics
  PROVE  IInv'
<1> DEFINE h == applying.hash
<1>1. /\ applying # Nothing /\ applying' = Nothing /\ queue' = <<>>
      /\ watching' = FALSE /\ headers_in' = {} /\ blocks_in' = {}
      /\ Lose(Queued \cup {h})
      /\ UNCHANGED <<flagVars, phase, missing>>
  BY DEF WatcherPanics
<1>2. /\ applying \in Entry /\ h \in Headers
      /\ missing = {} /\ phase \notin {"start", "headers"}
      /\ Parent[h] \in Settled
  BY <1>1, ApplyingNext
<1>3. /\ ChainTypeOK' /\ (top_fetched' => top_header' \in fetched_full')
      /\ UNCHANGED <<known_headers, top_header>>
      /\ fetched_full \subseteq fetched_full' /\ fetched_full' \subseteq fetched_full \cup {h}
  <2>1. CASE UNCHANGED chainVars
    BY <2>1 DEF chainVars, IInv, TypeOK, ChainTypeOK, TreeInv
  <2>2. CASE mark_as_downloaded({h})
    <3>1. ChainTypeOK' /\ (top_fetched' => top_header' \in fetched_full')
      BY <1>2, <2>2, MarkType DEF IInv, TypeOK
    <3> QED
      BY <3>1, <2>2 DEF mark_as_downloaded
  <2> QED
    BY <2>1, <2>2 DEF WatcherPanics
<1>4. /\ queue \in Seq(Entry) /\ shown \subseteq Headers
      /\ Queued \subseteq Headers
  <2>1. queue \in Seq(Entry) /\ shown \subseteq Headers
    BY DEF IInv, TypeOK
  <2>2. \A i \in 1..Len(queue) : queue[i] \in Entry
    BY <2>1, ElementOfSeq
  <2> QED
    BY <2>1, <2>2 DEF Queued, Entry
<1>5. shown' \subseteq Headers
  BY <1>2, <1>4, AncestorsBasic DEF WatcherPanics, Shown
<1>6. Settled' = Settled \cup Queued \cup {h} /\ lost' \subseteq Headers
  <2>1. Settled' = fetched_full' \cup lost \cup (Queued \cup {h})
    BY <1>1, LoseSettles
  <2> QED
    BY <2>1, <1>1, <1>2, <1>3, <1>4 DEF Settled, Lose, IInv, TypeOK
<1>7. TypeOK'
  BY <1>1, <1>3, <1>5, <1>6, EmptySeq DEF IInv, TypeOK, flagVars
<1>8. TreeInv' /\ GateInv' /\ StartInv'
  BY <1>1, <1>2, <1>3 DEF IInv, TreeInv, GateInv, StartInv, ClosedUnderParent, flagVars
<1>9. ASSUME NEW i \in 1..Len(queue)
      PROVE  Parent[queue[i].hash] \in Settled'
  <2>1. Parent[queue[i].hash] \in InHand \cup {queue[j].hash : j \in 1..(i - 1)}
    BY DEF IInv, OrderInv
  <2>2. InHand = Settled \cup {h}
    BY <1>1, <1>2 DEF InHand
  <2>3. \A j \in 1..(i - 1) : queue[j].hash \in Queued
    <3>1. \A j \in 1..(i - 1) : j \in 1..Len(queue)
      BY <1>4, LenProperties
    <3> QED
      BY <3>1 DEF Queued
  <2> QED
    BY <2>1, <2>2, <2>3, <1>6
<1>10. FetchedClosed'
  <2>1. ClosedUnderParent(Settled)
    BY DEF IInv, FetchedClosed, Settled
  <2>2. \A x \in Queued : Parent[x] \in Settled'
    BY <1>9 DEF Queued
  <2>3. ClosedUnderParent(Settled')
    BY <2>1, <2>2, <1>2, <1>6 DEF ClosedUnderParent
  <2> QED
    BY <2>3 DEF FetchedClosed, Settled
<1>11. OrderInv'
  BY <1>1, <1>2 DEF OrderInv
<1>12. CoverInv'
  <2>1. InHand \cup Queued \subseteq InHand'
    BY <1>1, <1>2, <1>6 DEF InHand
  <2> QED
    BY <2>1, <1>1, <1>2, <1>3 DEF IInv, CoverInv
<1> QED
  BY <1>7, <1>8, <1>10, <1>11, <1>12 DEF IInv

-----------------------------------------------------------------------------
\* The invariant holds in every reachable state.
LEMMA Invariant ==
  ASSUME "behind" \notin Startups
  PROVE  Spec => []IInv
<1>1. Init => IInv
  BY InitInv
<1>2. IInv /\ [Next]_vars => IInv'
  <2>1. ASSUME IInv, Startup
        PROVE  IInv'
    BY <2>1, StartRecentInv, StartSyncingHeadersInv, ValidateAndApplyHeadersInv,
       FinishHeadersInv, FinishFrontpageInv, WriteBatchInv, StopSyncingBlocksInv
       DEF Startup
  <2>2. ASSUME IInv, Network
        PROVE  IInv'
    BY <2>2, ReceiveHeaderInv, ReceiveBlockInv DEF Network
  <2>3. ASSUME IInv, Watcher
        PROVE  IInv'
    BY <2>3, IgnoreHeaderInv, HandleNewHeaderInv, IgnoreBlockInv, HandleNewBlockInv,
       ApplyBlockInv, ApplyBlockReturnsInv, WatcherPanicsInv DEF Watcher, Apply
  <2>4. ASSUME IInv, UNCHANGED vars
        PROVE  IInv'
    BY <2>4 DEF IInv, TypeOK, ChainTypeOK, TreeInv, GateInv, StartInv, FetchedClosed,
       OrderInv, CoverInv, InHand, Settled, Queued, ClosedUnderParent, vars, chainVars,
       flagVars, startupVars, watcherVars, netVars
  <2> QED
    BY <2>1, <2>2, <2>3, <2>4 DEF Next
<1> QED
  BY <1>1, <1>2, PTL DEF Spec

\* Every variable keeps its domain, on every tree.
THEOREM KeepUpTypeCorrect ==
  ASSUME "behind" \notin Startups
  PROVE  Spec => []TypeOK
<1>1. IInv => TypeOK
  BY DEF IInv
<1> QED
  BY <1>1, Invariant, PTL

\* "Blocks are applied sequentially": whatever headers and blocks arrive in
\* whatever order, during startup or after it, and wherever sync_blocks stops,
\* the front page panics or apply_block gives up, every downloaded block's
\* parent is downloaded, or was lost in one of these ways; and so is every
\* lost block's.
THEOREM AppliedSequentially ==
  ASSUME "behind" \notin Startups
  PROVE  Spec => []FetchedClosed
<1>1. IInv => FetchedClosed
  BY DEF IInv
<1> QED
  BY <1>1, Invariant, PTL

\* Every block of the most-work chain is downloaded, or somebody is after it,
\* or it was dropped when a task failed at it or before it: the reorganisations
\* and the hand-over from the startup task to the watcher drop none.
THEOREM NoBlockForgotten ==
  ASSUME "behind" \notin Startups
  PROVE  Spec => []NothingForgotten
<1>1. IInv => NothingForgotten
  BY DEF IInv, CoverInv, InHand, Settled, NothingForgotten
<1> QED
  BY <1>1, Invariant, PTL

-----------------------------------------------------------------------------
(* The hash set of the most-work chain, for every kind of restart.          *)

\* The watcher gets headers only once the header sync, which moves the top
\* alone, is over; and the chain of the top is known to the last header.
HashSetInv ==
  /\ known_headers \subseteq Headers
  /\ top_header \in known_headers
  /\ ClosedUnderParent(known_headers)
  /\ phase \in {"start", "headers"} => headers_in = {}
  /\ phase = "headers" => SYNCING_HEADERS
  /\ MostWorkExact

LEMMA HandleNewHeaderHashSet ==
  ASSUME HashSetInv, NEW h \in Headers, handle_new_header(h)
  PROVE  HashSetInv'
<1>1. /\ h \in headers_in /\ h \notin known_headers /\ Parent[h] \in known_headers
      /\ headers_in' = headers_in \ {h}
      /\ UNCHANGED <<flagVars, startupVars>>
      /\ known_headers' = known_headers \cup {h}
  BY DEF handle_new_header, Acceptable, InsertHeader, MoveTop, PanicInWalk
<1>2. phase \notin {"start", "headers"} /\ phase' = phase
  BY <1>1 DEF HashSetInv, startupVars
<1>3. most_work_chain = Ancestors[top_header]
  BY <1>2 DEF HashSetInv, MostWorkExact
<1>4. top_header \in Headers /\ h \notin Ancestors[top_header]
  BY <1>1, KnownAncestors DEF HashSetInv
<1>5. top_header' \in known_headers' /\ most_work_chain' = Ancestors[top_header']
  <2>1. CASE InsertHeader(h) \/ PanicInWalk(h)
    BY <2>1, <1>1, <1>3 DEF InsertHeader, PanicInWalk, HashSetInv
  <2>2. CASE MoveTop(h)
    <3>1. /\ top_header' = h
          /\ most_work_chain' = (most_work_chain \ RemovedBlocks(h))
               \cup {AddedBlocks(h)[k].hash : k \in DOMAIN AddedBlocks(h)}
      BY <2>2 DEF MoveTop, UpdateMostWorkChain
    <3> QED
      BY <3>1, <1>1, <1>3, <1>4, ChainSwitched
  <2> QED
    BY <2>1, <2>2 DEF handle_new_header
<1>6. known_headers' \subseteq Headers /\ ClosedUnderParent(known_headers)'
  BY <1>1 DEF HashSetInv, ClosedUnderParent
<1> QED
  BY <1>1, <1>2, <1>5, <1>6 DEF HashSetInv, MostWorkExact, flagVars

\* The other steps that change a variable of the invariant.
LEMMA HashSetStep ==
  ASSUME HashSetInv, [Next]_vars
  PROVE  HashSetInv'
<1> DEFINE Tree == <<known_headers, top_header, most_work_chain>>
<1>1. ASSUME UNCHANGED Tree, phase' = phase \/ phase \notin {"start", "headers"},
             phase' \in {"start", "headers"} => phase \in {"start", "headers"},
             phase \in {"start", "headers"} => headers_in' \subseteq headers_in,
             phase = "headers" => SYNCING_HEADERS' = SYNCING_HEADERS
      PROVE  HashSetInv'
  BY <1>1 DEF HashSetInv, MostWorkExact, ClosedUnderParent
<1>2. CASE StartRecent
  BY <1>2 DEF StartRecent, PlanDownload, HashSetInv, MostWorkExact, ClosedUnderParent,
     chainVars, flagVars, netVars
<1>3. CASE start_syncing_headers
  BY <1>3 DEF start_syncing_headers, HashSetInv, MostWorkExact, ClosedUnderParent,
     chainVars, netVars
<1>4. ASSUME NEW h \in Headers, validate_and_apply_headers(h)
      PROVE  HashSetInv'
  <2>1. /\ phase = "headers" /\ phase' = phase
        /\ UNCHANGED <<SYNCING_HEADERS, headers_in>>
    BY <1>4 DEF validate_and_apply_headers, startupVars, flagVars, netVars
  <2>2. /\ Parent[h] \in known_headers /\ known_headers' = known_headers \cup {h}
        /\ top_header' \in {top_header, h}
    BY <1>4 DEF validate_and_apply_headers, Acceptable, InsertHeader,
       MoveTopDuringHeadersync
  <2> QED
    BY <2>1, <2>2 DEF HashSetInv, MostWorkExact, ClosedUnderParent
<1>5. CASE FinishHeaders
  BY <1>5 DEF FinishHeaders, PlanDownload, HashSetInv, MostWorkExact,
     ClosedUnderParent, flagVars, netVars
<1>6. CASE FinishFrontpage
  BY <1>1, <1>6 DEF FinishFrontpage, chainVars, netVars
<1>7. ASSUME NEW batch \in SUBSET missing, WriteBatch(batch)
      PROVE  HashSetInv'
  BY <1>1, <1>7 DEF WriteBatch, mark_as_downloaded, flagVars, netVars
<1>8. CASE stop_syncing_blocks \/ FrontpagePanics
  BY <1>1, <1>8 DEF stop_syncing_blocks, FrontpagePanics, chainVars, flagVars, netVars
<1>9. CASE Network
  <2>1. /\ phase # "start" /\ ~SYNCING_HEADERS
        /\ UNCHANGED <<chainVars, flagVars, startupVars>>
    BY <1>9 DEF Network, ReceiveHeader, ReceiveBlock, should_process_headers,
       should_process_blocks
  <2>2. phase \notin {"start", "headers"}
    BY <2>1 DEF HashSetInv
  <2> QED
    BY <1>1, <2>1, <2>2 DEF chainVars, startupVars
<1>10. ASSUME NEW h \in Headers, IgnoreHeader(h)
       PROVE  HashSetInv'
  BY <1>1, <1>10 DEF IgnoreHeader, chainVars, flagVars, startupVars
<1>11. ASSUME NEW b \in Packet, IgnoreBlock(b) \/ handle_new_block(b)
       PROVE  HashSetInv'
  BY <1>1, <1>11 DEF IgnoreBlock, handle_new_block, chainVars, flagVars, startupVars
<1>12. CASE Apply
  <2>1. UNCHANGED <<Tree, phase, SYNCING_HEADERS>> /\ headers_in' \subseteq headers_in
    BY <1>12 DEF Apply, apply_block, apply_block_Returns, WatcherPanics,
       mark_as_downloaded, chainVars, flagVars, netVars
  <2> QED
    BY <1>1, <2>1
<1>13. CASE UNCHANGED vars
  BY <1>1, <1>13 DEF vars, chainVars, flagVars, startupVars, netVars
<1> HIDE DEF Tree
<1> QED
  BY <1>2, <1>3, <1>4, <1>5, <1>6, <1>7, <1>8, <1>9, <1>10, <1>11, <1>12, <1>13,
     HandleNewHeaderHashSet DEF Next, Startup, Watcher

\* Whatever the program is restarted with and however the top moves, the hash
\* set that filters transactions and answers getheaders is the top's chain:
\* no removed block stays in it and no added one is left out.
THEOREM HashSetIsTheChain == Spec => []MostWorkExact
<1>1. Init => HashSetInv
  BY DEF Init, LoadHeaders, HashSetInv, MostWorkExact
<1>2. HashSetInv /\ [Next]_vars => HashSetInv'
  BY HashSetStep
<1>3. HashSetInv => MostWorkExact
  BY DEF HashSetInv
<1> QED
  BY <1>1, <1>2, <1>3, PTL DEF Spec

-----------------------------------------------------------------------------
(* The counter of downloaded blocks.                                        *)

\* Only known blocks are after being downloaded, so a new header is not; and
\* the copy of the top's flag is not stale, except for genesis, whose row
\* never replaces the copy.  The counter is what the walk would count now.
CountInv ==
  /\ InHand \cup Queued \subseteq known_headers
  /\ top_header # Genesis => (top_fetched <=> top_header \in fetched_full)
  /\ phase = "start" =>
       DOWNLOADED_BLOCKS =
         calculate_downloaded_blocks(top_header, top_fetched, fetched_full)
  /\ phase \notin {"start", "headers"} =>
       DOWNLOADED_BLOCKS = CountOf(Ancestors[top_header] \cap fetched_full)

\* Steps that leave the tree alone and are after no further block.
LEMMA QuietCount ==
  ASSUME CountInv, UNCHANGED chainVars, InHand' \cup Queued' \subseteq InHand \cup Queued,
         phase' \notin {"start", "headers"} => phase \notin {"start", "headers"},
         phase' = "start" => phase = "start"
  PROVE  CountInv'
BY DEF CountInv, chainVars

\* The plan is counted from a top that is not genesis.
LEMMA PlanCount ==
  ASSUME IInv, CountInv, ~NeedIhd(top_header)
  PROVE  calculate_downloaded_blocks(top_header, top_fetched, fetched_full)
           = CountOf(Ancestors[top_header] \cap fetched_full)
<1>1. /\ top_header \in Headers /\ fetched_full \in SUBSET Headers
      /\ top_fetched \in BOOLEAN
  BY DEF IInv, TypeOK, ChainTypeOK
<1>2. top_fetched <=> top_header \in fetched_full
  BY KeepUpAssumption DEF NeedIhd, CountInv
<1> QED
  BY <1>1, <1>2, CountIsOfSeen

LEMMA MarkCount ==
  ASSUME IInv', CountInv, phase # "start", phase' = phase,
         NEW blocks \in SUBSET InHand, mark_as_downloaded(blocks),
         InHand' \cup Queued' \subseteq InHand \cup Queued
  PROVE  CountInv'
<1>1. /\ fetched_full' = fetched_full \cup blocks
      /\ top_fetched' = (top_header' \in fetched_full')
      /\ DOWNLOADED_BLOCKS' =
           calculate_downloaded_blocks(top_header', top_fetched', fetched_full')
      /\ known_headers' = known_headers
  BY DEF mark_as_downloaded, TopFlag
<1>2. /\ top_header' \in Headers /\ fetched_full' \in SUBSET Headers
      /\ top_fetched' \in BOOLEAN
  BY DEF IInv, TypeOK, ChainTypeOK
<1>3. DOWNLOADED_BLOCKS' = CountOf(Ancestors[top_header'] \cap fetched_full')
  BY <1>1, <1>2, CountIsOfSeen
<1> QED
  BY <1>1, <1>3 DEF CountInv

\* A new top is not downloaded: by extension the count stays what it was, by
\* a reorganisation it is taken again.
LEMMA HandleNewHeaderCount ==
  ASSUME IInv, CountInv, NEW h \in Headers, handle_new_header(h)
  PROVE  CountInv'
<1>1. /\ h \in headers_in /\ Acceptable(h) /\ known_headers' = known_headers \cup {h}
      /\ fetched_full' = fetched_full
      /\ UNCHANGED <<startupVars, applying>>
  BY DEF handle_new_header, InsertHeader, MoveTop, PanicInWalk
<1>2. /\ phase \notin {"start", "headers"} /\ phase' = phase /\ InHand' = InHand
  BY <1>1 DEF IInv, GateInv, InHand, Settled, startupVars
<1>3. DOWNLOADED_BLOCKS = CountOf(Ancestors[top_header] \cap fetched_full)
  BY <1>2 DEF CountInv
<1>4. /\ top_header \in Headers /\ fetched_full \in SUBSET Headers
      /\ queue \in Seq(Entry) /\ known_headers \in SUBSET Headers
  BY DEF IInv, TypeOK, ChainTypeOK
<1>5. /\ h \notin Ancestors[top_header] /\ h \notin fetched_full
      /\ ClosedUnderParent(known_headers \cup {h})
  <2>1. h \notin fetched_full
    BY <1>1 DEF Acceptable, CountInv, InHand, Settled
  <2> QED
    BY <2>1, <1>1, AcceptableIsNew DEF IInv, TypeOK, TreeInv
<1>6. CASE (InsertHeader(h) \/ PanicInWalk(h)) /\ UNCHANGED queue
  <2>1. UNCHANGED <<top_header, top_fetched, DOWNLOADED_BLOCKS, queue>>
    BY <1>6 DEF InsertHeader, PanicInWalk
  <2> QED
    BY <2>1, <1>1, <1>2 DEF CountInv, Queued
<1>7. CASE MoveTop(h) /\ queue' = queue \o QueueEntries(h, AddedBlocks(h))
  <2> DEFINE A == AddedBlocks(h)
             Q == QueueEntries(h, A)
  <2>1. top_header' = h /\ top_fetched' = FALSE
    BY <1>7 DEF MoveTop
  <2>2. /\ A \in Seq([hash : Headers, number : Nat])
        /\ Len(A) >= 1 /\ A[Len(A)].hash = h
        /\ \A k \in 1..Len(A) : A[k].hash \in Ancestors[h]
    BY <1>4, <1>5, AddedBlocksPath
  <2>3. queue' = queue \o Q
    BY <1>7
  <2> HIDE DEF A
  <2>4. /\ Q \in Seq(Entry) /\ Len(Q) = Len(A)
        /\ \A k \in 1..Len(A) : Q[k].hash = A[k].hash
    BY <2>2, QueueEntriesOrder
  <2> HIDE DEF Q
  <2>5. Queued' \subseteq Queued \cup Ancestors[h]
    <3> DEFINE n == Len(queue)
               m == Len(Q)
    <3>1. n \in Nat /\ m \in Nat
      BY <1>4, <2>4, LenProperties
    <3> HIDE DEF n, m
    <3>2. /\ Len(queue') = n + m
          /\ \A i \in 1..(n + m) : queue'[i] = IF i <= n THEN queue[i] ELSE Q[i - n]
      <4>1. /\ Len(queue \o Q) = n + m
            /\ \A i \in 1..(n + m) :
                 (queue \o Q)[i] = IF i <= n THEN queue[i] ELSE Q[i - n]
        <5>1. queue \in Seq(Entry) /\ Q \in Seq(Entry) /\ n = Len(queue) /\ m = Len(Q)
          BY <1>4, <2>4 DEF n, m
        <5> QED
          BY <5>1, ConcatProperties
      <4> QED
        BY <4>1, <2>3
    <3>3. ASSUME NEW i \in 1..(n + m)
          PROVE  queue'[i].hash \in Queued \cup Ancestors[h]
      <4>1. CASE i <= n
        <5>1. i \in 1..n /\ queue'[i] = queue[i]
          BY <4>1, <3>1, <3>2
        <5> QED
          BY <5>1 DEF Queued, n
      <4>2. CASE ~(i <= n)
        <5>1. i - n \in 1..m /\ queue'[i] = Q[i - n]
          BY <4>2, <3>1, <3>2
        <5> QED
          BY <5>1, <2>2, <2>4 DEF m
      <4> QED
        BY <4>1, <4>2
    <3> QED
      BY <3>2, <3>3 DEF Queued
  <2>6. Ancestors[h] \subseteq known_headers \cup {h}
    BY <1>4, <1>5, KnownAncestors
  <2>7. InHand' \cup Queued' \subseteq known_headers'
    BY <2>5, <2>6, <1>1, <1>2 DEF CountInv
  <2>8. DOWNLOADED_BLOCKS' = CountOf(Ancestors[h] \cap fetched_full)
    <3>1. CASE IsExtension(h)
      <4>1. Ancestors[h] = {h} \cup Ancestors[top_header]
        BY <3>1, AncestorsStep DEF IsExtension
      <4>2. Ancestors[h] \cap fetched_full = Ancestors[top_header] \cap fetched_full
        BY <4>1, <1>5
      <4> QED
        BY <4>2, <3>1, <1>3, <1>7 DEF MoveTop
    <3>2. CASE ~IsExtension(h)
      <4>1. DOWNLOADED_BLOCKS' = calculate_downloaded_blocks(h, FALSE, fetched_full)
        BY <3>2, <1>7 DEF MoveTop
      <4> QED
        BY <4>1, <1>4, <1>5, CountIsOfSeen
    <3> QED
      BY <3>1, <3>2
  <2> QED
    BY <2>1, <2>7, <2>8, <1>1, <1>2, <1>5 DEF CountInv
<1> QED
  BY <1>6, <1>7 DEF handle_new_header

LEMMA CountStep ==
  ASSUME IInv, IInv', CountInv, [Next]_vars
  PROVE  CountInv'
<1>1. CASE StartRecent
  <2>1. /\ ~NeedIhd(top_header) /\ phase = "start"
        /\ missing' = {} /\ UNCHANGED <<chainVars, lost, watcherVars>>
    BY <1>1 DEF StartRecent, PlanDownload, get_block_hashes_to_download, IInv, StartInv
  <2>2. DOWNLOADED_BLOCKS = CountOf(Ancestors[top_header] \cap fetched_full)
    BY <2>1, PlanCount DEF CountInv
  <2> QED
    BY <2>1, <2>2, <1>1 DEF StartRecent, PlanDownload, CountInv,
       InHand, Settled, Queued, chainVars, watcherVars
<1>2. CASE start_syncing_headers
  BY <1>2, QuietCount DEF start_syncing_headers, InHand, Settled, Queued, chainVars, watcherVars
<1>3. ASSUME NEW h \in Headers, validate_and_apply_headers(h)
      PROVE  CountInv'
  <2>1. /\ phase = "headers" /\ phase' = phase /\ Acceptable(h)
        /\ known_headers' = known_headers \cup {h} /\ fetched_full' = fetched_full
        /\ \/ top_header' = top_header /\ top_fetched' = top_fetched
           \/ top_header' = h /\ top_fetched' = FALSE
        /\ UNCHANGED <<startupVars, watcherVars>>
    BY <1>3 DEF validate_and_apply_headers, InsertHeader, MoveTopDuringHeadersync,
       startupVars
  <2>2. h \notin fetched_full
    BY <2>1 DEF Acceptable, CountInv, InHand, Settled
  <2> QED
    BY <2>1, <2>2 DEF CountInv, InHand, Settled, Queued, startupVars, watcherVars
<1>4. CASE FinishHeaders
  <2>1. /\ ~NeedIhd(top_header)
        /\ DOWNLOADED_BLOCKS' =
             calculate_downloaded_blocks(top_header, top_fetched, fetched_full)
        /\ UNCHANGED <<known_headers, fetched_full, top_header, top_fetched, lost, watcherVars>>
    BY <1>4 DEF FinishHeaders
  <2>2. missing' \subseteq Ancestors[top_header]
    BY <1>4, AncestorsBasic DEF FinishHeaders, PlanDownload,
       get_block_hashes_to_download, IInv, TypeOK, ChainTypeOK
  <2>3. Ancestors[top_header] \subseteq known_headers
    BY KnownAncestors DEF IInv, TypeOK, ChainTypeOK, TreeInv
  <2>4. InHand' \cup Queued' \subseteq known_headers'
    BY <2>1, <2>2, <2>3 DEF CountInv, InHand, Settled, Queued, watcherVars
  <2> QED
    BY <2>1, <2>4, <1>4, PlanCount DEF FinishHeaders, PlanDownload, CountInv
<1>5. CASE FinishFrontpage
  BY <1>5, QuietCount DEF FinishFrontpage, InHand, Settled, Queued, chainVars, watcherVars
<1>6. ASSUME NEW batch \in SUBSET missing, WriteBatch(batch)
      PROVE  CountInv'
  <2>1. /\ mark_as_downloaded(batch) /\ missing' = missing \ batch /\ Lose({})
        /\ UNCHANGED <<phase, queue, applying>> /\ phase = "bodies"
    BY <1>6 DEF WriteBatch
  <2>2. batch \in SUBSET InHand
    BY DEF InHand
  <2>3. InHand' \cup Queued' \subseteq InHand \cup Queued
    BY <2>1 DEF InHand, Settled, Lose, Queued, mark_as_downloaded
  <2> QED
    BY <2>1, <2>2, <2>3, MarkCount
<1>7. CASE stop_syncing_blocks \/ FrontpagePanics
  <2>1. /\ UNCHANGED <<chainVars, watcherVars>> /\ missing' = {} /\ Lose(missing)
        /\ phase \in {"frontpage", "bodies"} /\ phase' \in {"synced", "dead"}
    BY <1>7 DEF stop_syncing_blocks, FrontpagePanics
  <2> QED
    BY <2>1, QuietCount DEF InHand, Settled, Lose, Queued, chainVars, watcherVars
<1>8. CASE Network
  <2>1. UNCHANGED <<chainVars, startupVars, watcherVars>>
    BY <1>8 DEF Network, ReceiveHeader, ReceiveBlock
  <2> QED
    BY <2>1, QuietCount DEF InHand, Settled, Queued, chainVars, startupVars, watcherVars
<1>9. CASE \/ \E h \in Headers : IgnoreHeader(h)
           \/ \E b \in Packet : IgnoreBlock(b)
  <2>1. UNCHANGED <<chainVars, startupVars, watcherVars>>
    BY <1>9 DEF IgnoreHeader, IgnoreBlock
  <2> QED
    BY <2>1, QuietCount DEF InHand, Settled, Queued, chainVars, startupVars, watcherVars
<1>10. ASSUME NEW b \in Packet, handle_new_block(b)
       PROVE  CountInv'
  <2>1. /\ queue # <<>> /\ b.hash = queue[1].hash /\ applying = Nothing
        /\ applying' = [queue[1] EXCEPT !.hash = b.hash] /\ queue' = Tail(queue)
        /\ UNCHANGED <<chainVars, startupVars>>
    BY <1>10 DEF handle_new_block, IsNext, WatcherIdle
  <2>2. queue \in Seq(Entry) /\ Len(queue) \in Nat \ {0}
    BY <2>1, EmptySeq DEF IInv, TypeOK
  <2>3. queue[1] \in Entry /\ 1 \in 1..Len(queue)
    BY <2>2, ElementOfSeq
  <2>4. applying'.hash = b.hash
    BY <2>1, <2>3 DEF Entry
  <2>5. InHand' \subseteq InHand \cup Queued
    BY <2>1, <2>3, <2>4 DEF InHand, Settled, Queued, chainVars, startupVars
  <2>6. /\ Len(queue') = Len(queue) - 1
        /\ \A i \in 1..(Len(queue) - 1) : queue'[i] = queue[i + 1]
    BY <2>1, <2>2, HeadTailProperties
  <2>7. ASSUME NEW i \in 1..Len(queue')
        PROVE  queue'[i].hash \in Queued
    <3>1. i + 1 \in 1..Len(queue) /\ queue'[i] = queue[i + 1]
      BY <2>2, <2>6
    <3> QED
      BY <3>1 DEF Queued
  <2>8. Queued' \subseteq Queued
    BY <2>7 DEF Queued
  <2>9. phase' = phase
    BY <2>1 DEF startupVars
  <2> QED
    BY <2>1, <2>5, <2>8, <2>9, QuietCount
<1>11. CASE Apply
  <2>1. /\ applying # Nothing /\ applying' = Nothing /\ phase' = phase
        /\ missing' = missing /\ phase # "start"
    BY <1>11 DEF Apply, apply_block, apply_block_Returns, WatcherPanics, IInv, GateInv
  <2>2. /\ Queued' \subseteq Queued
        /\ lost' \subseteq lost \cup Queued \cup {applying.hash}
    <3>1. CASE apply_block \/ apply_block_Returns
      BY <3>1 DEF apply_block, apply_block_Returns, Lose, Queued
    <3>2. CASE WatcherPanics
      <4>1. queue' = <<>>
        BY <3>2 DEF WatcherPanics
      <4>2. Queued' = {}
        BY <4>1 DEF Queued
      <4> QED
        BY <4>2, <3>2 DEF WatcherPanics, Lose
    <3> QED
      BY <3>1, <3>2, <1>11 DEF Apply
  <2>3. CASE mark_as_downloaded({applying.hash})
    <3>1. {applying.hash} \in SUBSET InHand
      BY <2>1 DEF InHand
    <3>2. InHand' \cup Queued' \subseteq InHand \cup Queued
      BY <2>1, <2>2, <2>3 DEF InHand, Settled, mark_as_downloaded
    <3> QED
      BY <2>1, <2>3, <3>1, <3>2, MarkCount
  <2>4. CASE UNCHANGED chainVars
    <3>1. InHand' \cup Queued' \subseteq InHand \cup Queued
      BY <2>1, <2>2, <2>4 DEF InHand, Settled, chainVars
    <3> QED
      BY <2>1, <2>4, <3>1, QuietCount
  <2> QED
    BY <2>3, <2>4, <1>11 DEF Apply, apply_block, apply_block_Returns, WatcherPanics
<1>12. CASE UNCHANGED vars
  BY <1>12, QuietCount DEF InHand, Settled, Queued, vars, chainVars, startupVars, watcherVars
<1> QED
  BY <1>1, <1>2, <1>3, <1>4, <1>5, <1>6, <1>7, <1>8, <1>9, <1>10, <1>11, <1>12,
     HandleNewHeaderCount DEF Next, Startup, Watcher

\* DOWNLOADED_BLOCKS counts the downloaded blocks of the most-work chain, all
\* of them and no other but lost blocks below them, through every
\* reorganisation and every failure: a new top's flag, the shortcut for an
\* extension and the walk that stops at the first downloaded block never make
\* it wrong, except that the walk takes what is below for downloaded.
THEOREM CounterIsExact ==
  ASSUME "behind" \notin Startups
  PROVE  Spec => []DownloadedExact
<1>1. Init => CountInv
  <2> SUFFICES ASSUME Init
               PROVE  CountInv
    OBVIOUS
  <2>1. PICK known \in SUBSET Headers, fetched \in SUBSET Headers, top \in Headers :
          LoadHeaders(known, fetched, top)
    BY DEF Init
  <2>2. /\ phase = "start" /\ missing = {} /\ lost = {}
        /\ queue = <<>> /\ applying = Nothing
    BY DEF Init
  <2>3. InHand \cup Queued = fetched_full
    BY <2>2 DEF InHand, Settled, Queued
  <2> QED
    BY <2>1, <2>2, <2>3 DEF LoadHeaders, CountInv
<1>2. IInv /\ IInv' /\ CountInv /\ [Next]_vars => CountInv'
  BY CountStep
<1>3. IInv /\ CountInv => DownloadedExact
  <2> SUFFICES ASSUME IInv, CountInv, phase \notin {"start", "headers"}
               PROVE  DownloadedExact
    BY DEF DownloadedExact
  <2> DEFINE seen == Ancestors[top_header] \cap fetched_full
  <2>1. DOWNLOADED_BLOCKS = CountOf(seen)
    BY DEF CountInv
  <2>2. /\ top_header \in Headers /\ fetched_full \in SUBSET Headers
        /\ lost \in SUBSET Headers /\ ClosedUnderParent(fetched_full \cup lost)
    BY DEF IInv, TypeOK, ChainTypeOK, FetchedClosed
  <2>3. CountOf(seen) = Cardinality(seen \cup LostBelow(seen))
    BY <2>2, CountIsExact
  <2> QED
    BY <2>1, <2>3 DEF DownloadedExact
<1> QED
  BY <1>1, <1>2, <1>3, Invariant, PTL DEF Spec
=============================================================================

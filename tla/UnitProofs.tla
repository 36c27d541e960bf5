----------------------------- MODULE UnitProofs -----------------------------
(***************************************************************************)
(* Components that are checked on their own: the pool of arenas that       *)
(* messages are parsed into, the allocations in one arena, the ring of the *)
(* peers that were online lately, the exchange of headers, the checks on   *)
(* the body of a block, the order in which locks are taken, and the writer *)
(* of the block sync.                                                      *)
(*                                                                         *)
(* The accounting of module ArenaPool, for any finite number of users and  *)
(* any two limits.  A user in one of the two swap loops remembers a size   *)
(* and a limit of which it has tested that the size is over, or below, the *)
(* limit; a swap that succeeds finds the size unchanged, and the limit,    *)
(* however old, is one of the two there are.                               *)
(*                                                                         *)
(* The allocations of module Arena, for every capacity, every set of       *)
(* requests and every number of threads.  A thread that is about to swap   *)
(* has seen a value from which its request fits; when the swap succeeds    *)
(* that value is still `consumed`, and everything handed out lies below    *)
(* it.                                                                     *)
(*                                                                         *)
(* The ring of module OnlineList, for every initial size, every threshold  *)
(* and any number of peers, however often it wraps around and grows.       *)
(* ListSound speaks of the entries between `start` and `end` only.  What   *)
(* it needs besides: that the slots outside hold nothing young, so that a  *)
(* trim which finds no young entry and goes once around loses none         *)
(* (OutsideInv); that every slot has been written, or else the window      *)
(* does not wrap and everything below `end` has, so that counting from     *)
(* slot 0 meets no default entry (WrittenInv); and that a slot which       *)
(* offers services names a peer (ServingInv).                              *)
(*                                                                         *)
(* The exchange of module HeaderExchange, for chains of any height, every  *)
(* number of dense entries and every length of an answer.  The steps of    *)
(* the locator double no faster than the walk moves away from the top      *)
(* (Downward), so that the first entry the other node knows is no further  *)
(* below the point where the chains part than that is below the top.       *)
(*                                                                         *)
(* The checks of module BlockBody, for blocks of any size and every list   *)
(* that may arrive.  Two lists with the same root and no pair of equal     *)
(* neighbours on any level are the same: the levels of the two trees are   *)
(* compared from the root down, and a level without such a pair is         *)
(* determined by the one above it (AboveInjective), so that the trees are  *)
(* of the same depth and have the same leaves (SameTree).  The block that  *)
(* was mined is never refused: its leaves are distinct, and distinct       *)
(* nodes have distinct parents (NoRepeatsAbove).                           *)
(*                                                                         *)
(* The locks of module Locks, for any number of connections and requests.  *)
(* Every operation of every handler is made under guards that respect the  *)
(* order CHAIN, MINER_DATA, pages, or is one of the nested reads (InOrder  *)
(* and HandlersGood).  Without a nested read, whoever is waited for by a   *)
(* deadlocked task is itself after a lock further down the order, and a    *)
(* page is never held by one who waits (LocksInvSafe).                     *)
(*                                                                         *)
(* The writer of module BlockWriter, whose Spec this is, for any number of *)
(* blocks, any batch size and a disk that may fail at any read or write.   *)
(* The blocks always fall into three runs: 1..q were marked by flushes,    *)
(* (q+1)..s are the batch of the flush task, (s+1)..Received are being     *)
(* gathered.  Each of the buffers holds exactly one of these runs.  Every  *)
(* batch is full but one that the end of the channel cut short, so that    *)
(* only one block over full batches can be left behind (Ending).           *)
(***************************************************************************)
EXTENDS ArenaPool, Arena, OnlineList, HeaderExchange, BlockBody, Locks, BlockWriter,
        SequenceTheorems, FiniteSetTheorems, WellFoundedInduction, TLAPS

---------------------------------------------------------------------------
(* The pool. *)

Limits == {InitialLimit, SyncLimit}

PoolTypeOK ==
    /\ idle \in Nat
    /\ current_size \in Nat
    /\ current_limit \in Limits
    /\ at \in [Users -> Places]
    /\ seenSize \in [Users -> Nat]
    /\ seenLimit \in [Users -> Nat]

\* What a user in a swap loop has tested.
Tested ==
    \A u \in Users :
        /\ at[u] = "shrink" => seenLimit[u] \in Limits /\ seenSize[u] > seenLimit[u]
        /\ at[u] = "grow" => seenLimit[u] \in Limits /\ seenSize[u] < seenLimit[u]

PoolInv == PoolTypeOK /\ Tested /\ PoolAccounted

InHand == {"gotSize", "gotLimit", "shrink", "hold"}
One(b) == IF b THEN 1 ELSE 0

LEMMA LimitBounds ==
    /\ LowLimit \in Nat /\ HighLimit \in Nat
    /\ \A l \in Limits : l \in Nat /\ LowLimit <= l /\ l <= HighLimit
BY PoolAssumption DEF LowLimit, HighLimit, Limits

LEMMA FiniteUsers ==
    /\ IsFiniteSet(Holding) /\ Cardinality(Holding) \in Nat
    /\ IsFiniteSet(Adding) /\ Cardinality(Adding) \in Nat
<1>1. Holding \subseteq Users /\ Adding \subseteq Users
  BY DEF Holding, Adding
<1>2. IsFiniteSet(Holding) /\ IsFiniteSet(Adding)
  BY <1>1, PoolAssumption, FS_Subset
<1> QED
  BY <1>2, FS_CardinalityType

\* Adding or removing one element.
LEMMA CountOne ==
    ASSUME NEW S, IsFiniteSet(S), NEW x
    PROVE  /\ Cardinality(S \cup {x}) = Cardinality(S) + One(x \notin S)
           /\ Cardinality(S \ {x}) = Cardinality(S) - One(x \in S)
BY FS_AddElement, FS_RemoveElement, FS_CardinalityType DEF One

\* How the counts change when one user moves on.
LEMMA Moved ==
    ASSUME PoolTypeOK, NEW u \in Users, NEW p \in Places,
           at' = [at EXCEPT ![u] = p]
    PROVE  /\ at' \in [Users -> Places]
           /\ Cardinality(Holding') =
                Cardinality(Holding) + One(p \in InHand) - One(at[u] \in InHand)
           /\ Cardinality(Adding') =
                Cardinality(Adding) + One(p = "add") - One(at[u] = "add")
<1>1. at' \in [Users -> Places] /\ at'[u] = p
      /\ \A v \in Users : v # u => at'[v] = at[v]
  BY DEF PoolTypeOK
<1>2. Holding' = IF p \in InHand THEN Holding \cup {u} ELSE Holding \ {u}
  BY <1>1 DEF Holding, InHand
<1>3. Adding' = IF p = "add" THEN Adding \cup {u} ELSE Adding \ {u}
  BY <1>1 DEF Adding
<1>4. (u \in Holding) = (at[u] \in InHand) /\ (u \in Adding) = (at[u] = "add")
  BY DEF Holding, Adding, InHand
<1>5. Cardinality(Holding) \in Nat /\ Cardinality(Adding) \in Nat
  BY FiniteUsers
<1>6. /\ Cardinality(Holding \cup {u}) = Cardinality(Holding) + One(u \notin Holding)
      /\ Cardinality(Holding \ {u}) = Cardinality(Holding) - One(u \in Holding)
      /\ Cardinality(Adding \cup {u}) = Cardinality(Adding) + One(u \notin Adding)
      /\ Cardinality(Adding \ {u}) = Cardinality(Adding) - One(u \in Adding)
  BY CountOne, FiniteUsers
<1>7. Cardinality(Holding') =
        Cardinality(Holding) + One(p \in InHand) - One(at[u] \in InHand)
  BY <1>2, <1>4, <1>5, <1>6 DEF One
<1>8. Cardinality(Adding') =
        Cardinality(Adding) + One(p = "add") - One(at[u] = "add")
  BY <1>3, <1>4, <1>5, <1>6 DEF One
<1> QED
  BY <1>1, <1>7, <1>8

LEMMA PoolInitial ==
    PoolInit => PoolInv
<1> SUFFICES ASSUME PoolInit PROVE PoolInv
  OBVIOUS
<1>1. PoolTypeOK /\ Tested
  BY PoolAssumption DEF PoolInit, PoolTypeOK, Tested, Limits, Places
<1>2. Holding = {} /\ Adding = {}
  BY DEF PoolInit, Holding, Adding
<1>3. Cardinality(Holding) = 0 /\ Cardinality(Adding) = 0
  BY <1>2, FS_EmptySet
<1>4. PoolAccounted
  BY <1>3, PoolAssumption, LimitBounds DEF PoolInit, PoolAccounted, Limits
<1> QED
  BY <1>1, <1>4 DEF PoolInv

\* The steps that leave the size and the idle arenas alone: a user moves
\* between two places that count alike.
LEMMA QuietMove ==
    ASSUME PoolInv, NEW u \in Users, NEW p \in Places,
           at' = [at EXCEPT ![u] = p], UNCHANGED <<idle, current_size>>,
           p \in InHand <=> at[u] \in InHand, p # "add", at[u] # "add"
    PROVE  PoolAccounted'
<1>1. /\ Cardinality(Holding') =
           Cardinality(Holding) + One(p \in InHand) - One(at[u] \in InHand)
      /\ Cardinality(Adding') =
           Cardinality(Adding) + One(p = "add") - One(at[u] = "add")
  BY Moved DEF PoolInv
<1>2. /\ Cardinality(Holding') = Cardinality(Holding)
      /\ Cardinality(Adding') = Cardinality(Adding)
  BY <1>1, FiniteUsers DEF One
<1> QED
  BY <1>2 DEF PoolInv, PoolAccounted, LowLimit, HighLimit

\* A user takes an arena.
LEMMA Takes ==
    ASSUME PoolTypeOK, NEW u \in Users, NEW p \in Places,
           at' = [at EXCEPT ![u] = p],
           p \in InHand, at[u] \notin InHand, at[u] # "add"
    PROVE  /\ Cardinality(Holding') = Cardinality(Holding) + 1
           /\ Cardinality(Adding') = Cardinality(Adding)
<1>1. /\ Cardinality(Holding') =
           Cardinality(Holding) + One(p \in InHand) - One(at[u] \in InHand)
      /\ Cardinality(Adding') =
           Cardinality(Adding) + One(p = "add") - One(at[u] = "add")
  BY Moved
<1>2. p # "add"
  BY DEF InHand
<1> QED
  BY <1>1, <1>2, FiniteUsers DEF One

\* A user parts with its arena.
LEMMA Leaves ==
    ASSUME PoolTypeOK, NEW u \in Users, NEW p \in Places,
           at' = [at EXCEPT ![u] = p],
           p \notin InHand, p # "add", at[u] \in InHand
    PROVE  /\ Cardinality(Holding') = Cardinality(Holding) - 1
           /\ Cardinality(Adding') = Cardinality(Adding)
<1>1. /\ Cardinality(Holding') =
           Cardinality(Holding) + One(p \in InHand) - One(at[u] \in InHand)
      /\ Cardinality(Adding') =
           Cardinality(Adding) + One(p = "add") - One(at[u] = "add")
  BY Moved
<1>2. at[u] # "add"
  BY DEF InHand
<1> QED
  BY <1>1, <1>2, FiniteUsers DEF One

\* A user begins, or ends, to owe the pool an arena.
LEMMA Owes ==
    ASSUME PoolTypeOK, NEW u \in Users, NEW p \in Places,
           at' = [at EXCEPT ![u] = p], p \notin InHand, at[u] \notin InHand
    PROVE  /\ Cardinality(Holding') = Cardinality(Holding)
           /\ Cardinality(Adding') =
                Cardinality(Adding) + One(p = "add") - One(at[u] = "add")
<1>1. /\ Cardinality(Holding') =
           Cardinality(Holding) + One(p \in InHand) - One(at[u] \in InHand)
      /\ Cardinality(Adding') =
           Cardinality(Adding) + One(p = "add") - One(at[u] = "add")
  BY Moved
<1> QED
  BY <1>1, FiniteUsers DEF One

LEMMA PoolStep ==
    PoolInv /\ [PoolNext]_poolVars => PoolInv'
<1> SUFFICES ASSUME PoolInv, [PoolNext]_poolVars PROVE PoolInv'
  OBVIOUS
<1>h. /\ PoolTypeOK /\ Tested
      /\ Cardinality(Holding) \in Nat /\ Cardinality(Adding) \in Nat
      /\ current_size = idle + Cardinality(Holding) + Cardinality(Adding)
      /\ LowLimit <= current_size /\ current_size <= HighLimit
  BY FiniteUsers DEF PoolInv, PoolAccounted
<1>1. CASE SetLimit
  <2>1. PoolTypeOK' /\ Tested'
    BY <1>1, <1>h DEF SetLimit, PoolTypeOK, Tested, Limits
  <2>2. Holding' = Holding /\ Adding' = Adding
    BY <1>1 DEF SetLimit, Holding, Adding
  <2>3. PoolAccounted'
    BY <1>1, <2>2 DEF SetLimit, PoolInv, PoolAccounted, LowLimit, HighLimit
  <2> QED
    BY <2>1, <2>3 DEF PoolInv
<1>2. ASSUME NEW u \in Users, Call(u) PROVE PoolInv'
  <2>1. /\ at' = [at EXCEPT ![u] = "wait"] /\ "wait" \in Places
        /\ "wait" \notin InHand /\ at[u] \notin InHand /\ "wait" # "add" /\ at[u] # "add"
        /\ UNCHANGED <<idle, current_size>>
    BY <1>2, <1>h DEF Call, Places, InHand, PoolTypeOK
  <2>2. PoolTypeOK' /\ Tested'
    BY <1>2, <1>h, <2>1 DEF Call, PoolTypeOK, Tested
  <2>3. PoolAccounted'
    BY <2>1, QuietMove
  <2> QED
    BY <2>2, <2>3 DEF PoolInv
<1>3. ASSUME NEW u \in Users, Obtain(u) PROVE PoolInv'
  <2>1. /\ at' = [at EXCEPT ![u] = "gotSize"] /\ "gotSize" \in Places
        /\ "gotSize" \in InHand /\ at[u] \notin InHand /\ at[u] # "add"
    BY <1>3 DEF Obtain, Places, InHand
  <2>3. current_size' = current_size
    BY <1>3 DEF Obtain
  <2>4. PoolTypeOK' /\ Tested'
    BY <1>3, <1>h, <2>1, <2>3 DEF Obtain, PoolTypeOK, Tested
  <2>5. /\ Cardinality(Holding') = Cardinality(Holding) + 1
        /\ Cardinality(Adding') = Cardinality(Adding)
    BY <1>h, <2>1, Takes
  <2>7. PoolAccounted'
    BY <1>3, <1>h, <2>3, <2>5
    DEF Obtain, PoolTypeOK, PoolAccounted, LowLimit, HighLimit
  <2> QED
    BY <2>4, <2>7 DEF PoolInv
<1>4. ASSUME NEW u \in Users, TimeOut(u) PROVE PoolInv'
  <2>1. /\ at' = [at EXCEPT ![u] = "lateSize"] /\ "lateSize" \in Places
        /\ "lateSize" \notin InHand /\ at[u] \notin InHand /\ "lateSize" # "add" /\ at[u] # "add"
        /\ UNCHANGED <<idle, current_size>>
    BY <1>4, <1>h DEF TimeOut, Places, InHand, PoolTypeOK
  <2>2. PoolTypeOK' /\ Tested'
    BY <1>4, <1>h, <2>1 DEF TimeOut, PoolTypeOK, Tested
  <2>3. PoolAccounted'
    BY <2>1, QuietMove
  <2> QED
    BY <2>2, <2>3 DEF PoolInv
<1>5. ASSUME NEW u \in Users, LoadSize(u) PROVE PoolInv'
  <2> DEFINE p == IF at[u] = "gotSize" THEN "gotLimit" ELSE "lateLimit"
  <2>1. /\ at' = [at EXCEPT ![u] = p] /\ p \in Places
        /\ (p \in InHand <=> at[u] \in InHand) /\ p # "add" /\ at[u] # "add"
        /\ UNCHANGED <<idle, current_size>>
    BY <1>5, <1>h DEF LoadSize, Places, InHand, PoolTypeOK
  <2>2. PoolTypeOK' /\ Tested'
    BY <1>5, <1>h, <2>1 DEF LoadSize, PoolTypeOK, Tested
  <2> HIDE DEF p
  <2>3. PoolAccounted'
    BY <2>1, QuietMove
  <2> QED
    BY <2>2, <2>3 DEF PoolInv
<1>6. ASSUME NEW u \in Users, LoadLimitToKeep(u) PROVE PoolInv'
  <2> DEFINE p == IF seenSize[u] <= current_limit THEN "hold" ELSE "shrink"
  <2>1. /\ at' = [at EXCEPT ![u] = p] /\ p \in Places
        /\ (p \in InHand <=> at[u] \in InHand) /\ p # "add" /\ at[u] # "add"
        /\ UNCHANGED <<idle, current_size>>
    BY <1>6, <1>h DEF LoadLimitToKeep, Places, InHand, PoolTypeOK
  <2>2. PoolTypeOK' /\ Tested'
    BY <1>6, <1>h, <2>1, LimitBounds DEF LoadLimitToKeep, PoolTypeOK, Tested
  <2> HIDE DEF p
  <2>3. PoolAccounted'
    BY <2>1, QuietMove
  <2> QED
    BY <2>2, <2>3 DEF PoolInv
<1>7. ASSUME NEW u \in Users, LoadLimitToAdd(u) PROVE PoolInv'
  <2> DEFINE p == IF seenSize[u] < current_limit THEN "grow" ELSE "wait"
  <2>1. /\ at' = [at EXCEPT ![u] = p] /\ p \in Places
        /\ (p \in InHand <=> at[u] \in InHand) /\ p # "add" /\ at[u] # "add"
        /\ UNCHANGED <<idle, current_size>>
    BY <1>7, <1>h DEF LoadLimitToAdd, Places, InHand, PoolTypeOK
  <2>2. PoolTypeOK' /\ Tested'
    BY <1>7, <1>h, <2>1, LimitBounds DEF LoadLimitToAdd, PoolTypeOK, Tested
  <2> HIDE DEF p
  <2>3. PoolAccounted'
    BY <2>1, QuietMove
  <2> QED
    BY <2>2, <2>3 DEF PoolInv
<1>8. ASSUME NEW u \in Users, ShrinkOk(u) PROVE PoolInv'
  <2>1. /\ at' = [at EXCEPT ![u] = "drop"] /\ "drop" \in Places
        /\ "drop" \notin InHand /\ "drop" # "add" /\ at[u] \in InHand
    BY <1>8 DEF ShrinkOk, Places, InHand
  <2>2. /\ current_size > seenLimit[u] /\ seenLimit[u] \in Limits
    BY <1>8, <1>h DEF ShrinkOk, Tested
  <2>3. current_size' \in Nat /\ LowLimit <= current_size' /\ current_size' <= HighLimit
    BY <1>8, <1>h, <2>2, LimitBounds DEF ShrinkOk, PoolTypeOK
  <2>4. PoolTypeOK' /\ Tested'
    BY <1>8, <1>h, <2>1, <2>3 DEF ShrinkOk, PoolTypeOK, Tested
  <2>5. /\ Cardinality(Holding') = Cardinality(Holding) - 1
        /\ Cardinality(Adding') = Cardinality(Adding)
    BY <1>h, <2>1, Leaves
  <2>7. PoolAccounted'
    BY <1>8, <1>h, <2>3, <2>5
    DEF ShrinkOk, PoolTypeOK, PoolAccounted, LowLimit, HighLimit
  <2> QED
    BY <2>4, <2>7 DEF PoolInv
<1>9. ASSUME NEW u \in Users, ShrinkFail(u) PROVE PoolInv'
  <2>1. CASE current_size > seenLimit[u]
    <3>1. PoolTypeOK' /\ Tested'
      BY <1>9, <1>h, <2>1 DEF ShrinkFail, PoolTypeOK, Tested
    <3>2. Holding' = Holding /\ Adding' = Adding
      BY <1>9, <2>1 DEF ShrinkFail, Holding, Adding
    <3>3. PoolAccounted'
      BY <1>9, <2>1, <3>2 DEF ShrinkFail, PoolInv, PoolAccounted, LowLimit, HighLimit
    <3> QED
      BY <3>1, <3>3 DEF PoolInv
  <2>2. CASE ~(current_size > seenLimit[u])
    <3>1. /\ at' = [at EXCEPT ![u] = "wait"] /\ "wait" \in Places
          /\ "wait" \notin InHand /\ "wait" # "add" /\ at[u] \in InHand
      BY <1>9, <2>2 DEF ShrinkFail, Places, InHand
    <3>2. PoolTypeOK' /\ Tested'
      BY <1>9, <1>h, <2>2, <3>1 DEF ShrinkFail, PoolTypeOK, Tested
    <3>3. /\ Cardinality(Holding') = Cardinality(Holding) - 1
          /\ Cardinality(Adding') = Cardinality(Adding)
      BY <1>h, <3>1, Leaves
    <3>4. PoolAccounted'
      BY <1>9, <1>h, <2>2, <3>3
      DEF ShrinkFail, PoolTypeOK, PoolAccounted, LowLimit, HighLimit
    <3> QED
      BY <3>2, <3>4 DEF PoolInv
  <2> QED
    BY <2>1, <2>2
<1>10. ASSUME NEW u \in Users, DropArena(u) PROVE PoolInv'
  <2>1. /\ at' = [at EXCEPT ![u] = "wait"] /\ "wait" \in Places
        /\ "wait" \notin InHand /\ at[u] \notin InHand /\ "wait" # "add" /\ at[u] # "add"
        /\ UNCHANGED <<idle, current_size>>
    BY <1>10, <1>h DEF DropArena, Places, InHand, PoolTypeOK
  <2>2. PoolTypeOK' /\ Tested'
    BY <1>10, <1>h, <2>1 DEF DropArena, PoolTypeOK, Tested
  <2>3. PoolAccounted'
    BY <2>1, QuietMove
  <2> QED
    BY <2>2, <2>3 DEF PoolInv
<1>11. ASSUME NEW u \in Users, GrowOk(u) PROVE PoolInv'
  <2>1. /\ at' = [at EXCEPT ![u] = "add"] /\ "add" \in Places
        /\ "add" \notin InHand /\ at[u] \notin InHand
    BY <1>11 DEF GrowOk, Places, InHand
  <2>2. /\ current_size < seenLimit[u] /\ seenLimit[u] \in Limits
    BY <1>11, <1>h DEF GrowOk, Tested
  <2>3. current_size' \in Nat /\ LowLimit <= current_size' /\ current_size' <= HighLimit
    BY <1>11, <1>h, <2>2, LimitBounds DEF GrowOk, PoolTypeOK
  <2>4. PoolTypeOK' /\ Tested'
    BY <1>11, <1>h, <2>1, <2>3 DEF GrowOk, PoolTypeOK, Tested
  <2>5. /\ Cardinality(Holding') = Cardinality(Holding)
        /\ Cardinality(Adding') =
             Cardinality(Adding) + One("add" = "add") - One(at[u] = "add")
    BY <1>h, <2>1, Owes
  <2>6. Cardinality(Adding') = Cardinality(Adding) + 1
    BY <1>11, <1>h, <2>5 DEF GrowOk, One
  <2>7. PoolAccounted'
    BY <1>11, <1>h, <2>3, <2>5, <2>6
    DEF GrowOk, PoolTypeOK, PoolAccounted, LowLimit, HighLimit
  <2> QED
    BY <2>4, <2>7 DEF PoolInv
<1>12. ASSUME NEW u \in Users, GrowFail(u) PROVE PoolInv'
  <2> DEFINE p == IF current_size < seenLimit[u] THEN "grow" ELSE "wait"
  <2>1. /\ at' = [at EXCEPT ![u] = p] /\ p \in Places
        /\ (p \in InHand <=> at[u] \in InHand) /\ p # "add" /\ at[u] # "add"
        /\ UNCHANGED <<idle, current_size>>
    BY <1>12, <1>h DEF GrowFail, Places, InHand, PoolTypeOK
  <2>2. PoolTypeOK' /\ Tested'
    BY <1>12, <1>h, <2>1 DEF GrowFail, PoolTypeOK, Tested
  <2> HIDE DEF p
  <2>3. PoolAccounted'
    BY <2>1, QuietMove
  <2> QED
    BY <2>2, <2>3 DEF PoolInv
<1>13. ASSUME NEW u \in Users, AddArena(u) PROVE PoolInv'
  <2>1. /\ at' = [at EXCEPT ![u] = "wait"] /\ "wait" \in Places
        /\ "wait" \notin InHand /\ at[u] \notin InHand
    BY <1>13 DEF AddArena, Places, InHand
  <2>3. current_size' = current_size
    BY <1>13 DEF AddArena
  <2>4. PoolTypeOK' /\ Tested'
    BY <1>13, <1>h, <2>1, <2>3 DEF AddArena, PoolTypeOK, Tested
  <2>5. /\ Cardinality(Holding') = Cardinality(Holding)
        /\ Cardinality(Adding') =
             Cardinality(Adding) + One("wait" = "add") - One(at[u] = "add")
    BY <1>h, <2>1, Owes
  <2>6. Cardinality(Adding') = Cardinality(Adding) - 1
    BY <1>13, <1>h, <2>5 DEF AddArena, One
  <2>7. PoolAccounted'
    BY <1>13, <1>h, <2>3, <2>5, <2>6
    DEF AddArena, PoolTypeOK, PoolAccounted, LowLimit, HighLimit
  <2> QED
    BY <2>4, <2>7 DEF PoolInv
<1>14. ASSUME NEW u \in Users, GiveBack(u) PROVE PoolInv'
  <2>1. /\ at' = [at EXCEPT ![u] = "out"] /\ "out" \in Places
        /\ "out" \notin InHand /\ "out" # "add" /\ at[u] \in InHand
    BY <1>14 DEF GiveBack, Places, InHand
  <2>3. current_size' = current_size
    BY <1>14 DEF GiveBack
  <2>4. PoolTypeOK' /\ Tested'
    BY <1>14, <1>h, <2>1, <2>3 DEF GiveBack, PoolTypeOK, Tested
  <2>5. /\ Cardinality(Holding') = Cardinality(Holding) - 1
        /\ Cardinality(Adding') = Cardinality(Adding)
    BY <1>h, <2>1, Leaves
  <2>7. PoolAccounted'
    BY <1>14, <1>h, <2>3, <2>5
    DEF GiveBack, PoolTypeOK, PoolAccounted, LowLimit, HighLimit
  <2> QED
    BY <2>4, <2>7 DEF PoolInv
<1>15. CASE UNCHANGED poolVars
  <2>1. Holding' = Holding /\ Adding' = Adding
    BY <1>15 DEF poolVars, Holding, Adding
  <2> QED
    BY <1>15, <2>1
    DEF poolVars, PoolInv, PoolTypeOK, Tested, PoolAccounted, LowLimit, HighLimit
<1> QED
  BY <1>1, <1>2, <1>3, <1>4, <1>5, <1>6, <1>7, <1>8, <1>9, <1>10, <1>11, <1>12,
     <1>13, <1>14, <1>15 DEF PoolNext

\* ArenaPool::get_arena: for any number of tasks and any two limits,
\* current_size counts exactly the arenas there are and stays between the
\* limits, however the swaps and the moves of the limit interleave.
THEOREM PoolIsAccounted == PoolSpec => []PoolAccounted
<1>1. PoolInv => PoolAccounted
  BY DEF PoolInv
<1> QED
  BY <1>1, PoolInitial, PoolStep, PTL DEF PoolSpec

---------------------------------------------------------------------------
(* One arena. *)

Allocation == [by : Threads, for : Requests, start : Nat]

ArenaTypeOK ==
    /\ data \in Nat
    /\ consumed \in Nat
    /\ stage \in [Threads -> {"idle", "swap", "dead"}]
    /\ asked \in [Threads -> Requests]
    /\ seen \in [Threads -> Nat]
    /\ allocs \subseteq Allocation

\* The inductive invariant: what a thread in the loop has tested stays true.
ArenaInv ==
    /\ ArenaTypeOK
    /\ \A t \in Threads : stage[t] = "swap" => Needed(seen[t], asked[t]) <= Capacity
    /\ AllocationsSound

\* The remainder of a division by an alignment, and the padding that makes up
\* for it.
LEMMA PaddingAligns ==
    ASSUME NEW d \in Nat, NEW o \in Nat, NEW a \in {1, 2, 4, 8}
    PROVE  /\ (a - ((d + o) % a)) % a \in Nat
           /\ (d + (o + ((a - ((d + o) % a)) % a))) % a = 0
<1>1. CASE a = 1
  BY <1>1, SMT
<1>2. CASE a = 2
  BY <1>2, SMT
<1>3. CASE a = 4
  BY <1>3, SMT
<1>4. CASE a = 8
  BY <1>4, SMT
<1> QED
  BY <1>1, <1>2, <1>3, <1>4

\* What a request needs covers the place it is given.
LEMMA PlaceFits ==
    ASSUME data \in Nat, NEW o \in Nat, NEW r \in Requests
    PROVE  /\ Needed(o, r) \in Nat
           /\ Location(o, r) \in Nat
           /\ o <= Location(o, r)
           /\ Location(o, r) + r.size <= Needed(o, r)
           /\ r.kind = "array" => (data + Location(o, r)) % r.align = 0
<1> DEFINE pad == Padding(o, r.align)
<1>1. r.size \in Nat /\ r.align \in {1, 2, 4, 8}
  BY ArenaAssumption
<1>2. pad \in Nat /\ (data + (o + pad)) % r.align = 0
  BY <1>1, PaddingAligns DEF Padding
<1>3. Needed(o, r) = o + pad + r.size
  BY DEF Needed
<1>4. Location(o, r) = IF r.kind = "value" THEN o ELSE o + pad
  BY DEF Location
<1> HIDE DEF pad
<1> QED
  BY <1>1, <1>2, <1>3, <1>4

LEMMA ArenaInitial ==
    ArenaInit => ArenaInv
<1> SUFFICES ASSUME ArenaInit PROVE ArenaInv
  OBVIOUS
<1>1. (CHOOSE r \in Requests : TRUE) \in Requests
  BY ArenaAssumption
<1>2. ArenaTypeOK
  BY <1>1, ArenaAssumption DEF ArenaInit, ArenaTypeOK
<1>3. AllocationsSound
  BY ArenaAssumption DEF ArenaInit, AllocationsSound
<1> QED
  BY <1>2, <1>3 DEF ArenaInv, ArenaInit

\* Loading `consumed` tests what the thread is going to need.
LEMMA ReloadKeeps ==
    ASSUME ArenaInv, NEW t \in Threads, NEW r \in Requests,
           asked' = [asked EXCEPT ![t] = r], Reload(t, r)
    PROVE  ArenaInv'
<1> USE DEF Reload
<1>1. ArenaTypeOK'
  BY DEF ArenaInv, ArenaTypeOK
<1>2. ASSUME NEW u \in Threads, stage'[u] = "swap"
      PROVE  (Needed(seen[u], asked[u]) <= Capacity)'
  <2>1. CASE u = t
    BY <1>2, <2>1 DEF ArenaInv, ArenaTypeOK, Needed, Padding
  <2>2. CASE u # t
    BY <1>2, <2>2 DEF ArenaInv, ArenaTypeOK, Needed, Padding
  <2> QED
    BY <2>1, <2>2
<1>3. AllocationsSound'
  BY DEF ArenaInv, AllocationsSound, Apart
<1> QED
  BY <1>1, <1>2, <1>3 DEF ArenaInv

\* A swap that succeeds hands out a place above all the others.
LEMMA SwapKeeps ==
    ASSUME ArenaInv, NEW t \in Threads, Swap(t)
    PROVE  ArenaInv'
<1> DEFINE r == asked[t]
           new == [by |-> t, for |-> r, start |-> Location(consumed, r)]
<1> USE DEF Swap
<1>1. /\ data \in Nat /\ consumed \in Nat /\ r \in Requests /\ r.size \in Nat
      /\ Capacity \in Nat /\ allocs \subseteq Allocation
      /\ \A a \in allocs : a.start \in Nat /\ a.for.size \in Nat
  BY ArenaAssumption DEF ArenaInv, ArenaTypeOK, Allocation
<1>2. /\ consumed' = Needed(consumed, r)
      /\ allocs' = allocs \cup {new}
      /\ data' = data
  OBVIOUS
<1>3. /\ consumed' \in Nat
      /\ new.start \in Nat /\ new.for.size \in Nat /\ consumed <= new.start
      /\ new.start + new.for.size <= consumed'
      /\ new.for.kind = "array" => (data + new.start) % new.for.align = 0
  BY <1>1, <1>2, PlaceFits
<1>4. new \in Allocation
  BY <1>1, <1>3 DEF Allocation
<1>5. ArenaTypeOK'
  BY <1>2, <1>3, <1>4 DEF ArenaInv, ArenaTypeOK
<1>6. ASSUME NEW u \in Threads, stage'[u] = "swap"
      PROVE  (Needed(seen[u], asked[u]) <= Capacity)'
  BY <1>6 DEF ArenaInv, ArenaTypeOK, Needed, Padding
<1>7. consumed' <= Capacity
  BY <1>2 DEF ArenaInv
<1>8. ASSUME NEW a \in allocs
      PROVE  /\ a.start + a.for.size <= consumed
             /\ a.start + a.for.size <= consumed'
             /\ Apart(a, new) /\ Apart(new, a)
  <2>1. a.start + a.for.size <= consumed
    BY DEF ArenaInv, AllocationsSound
  <2> HIDE DEF new
  <2> QED
    BY <1>1, <1>3, <2>1 DEF Apart
<1>9. AllocationsSound'
  <2> SUFFICES ASSUME NEW a \in allocs'
               PROVE  /\ a.start + a.for.size <= consumed'
                      /\ a.for.kind = "array" => (data + a.start) % a.for.align = 0
                      /\ \A b \in allocs' : a = b \/ Apart(a, b)
    BY <1>2, <1>7 DEF AllocationsSound, Apart
  <2> HIDE DEF new
  <2>1. CASE a = new
    BY <1>2, <1>3, <1>8, <2>1
  <2>2. CASE a \in allocs
    BY <1>2, <1>8, <2>2 DEF ArenaInv, AllocationsSound
  <2> QED
    BY <1>2, <2>1, <2>2
<1> QED
  BY <1>5, <1>6, <1>9 DEF ArenaInv

LEMMA ArenaStep ==
    ArenaInv /\ [ArenaNext]_arenaVars => ArenaInv'
<1> SUFFICES ASSUME ArenaInv, [ArenaNext]_arenaVars PROVE ArenaInv'
  OBVIOUS
<1>1. ASSUME NEW t \in Threads, NEW r \in Requests, Request(t, r) PROVE ArenaInv'
  BY <1>1, ReloadKeeps DEF Request
<1>2. ASSUME NEW t \in Threads, SwapFails(t) PROVE ArenaInv'
  <2>1. asked[t] \in Requests /\ asked' = [asked EXCEPT ![t] = asked[t]]
    BY <1>2 DEF SwapFails, ArenaInv, ArenaTypeOK
  <2> QED
    BY <1>2, <2>1, ReloadKeeps DEF SwapFails
<1>3. ASSUME NEW t \in Threads, Swap(t) PROVE ArenaInv'
  BY <1>3, SwapKeeps
<1>4. CASE Reset
  BY <1>4, ArenaAssumption
  DEF Reset, ArenaInv, ArenaTypeOK, AllocationsSound, Needed, Padding
<1>5. CASE UNCHANGED arenaVars
  BY <1>5
  DEF arenaVars, ArenaInv, ArenaTypeOK, AllocationsSound, Apart, Needed, Padding
<1> QED
  BY <1>1, <1>2, <1>3, <1>4, <1>5 DEF ArenaNext

\* Arena::try_alloc and the array allocators: for any number of threads, any
\* capacity and any mix of requests, what is handed out lies inside the arena,
\* does not overlap, and is aligned when it is an array.
THEOREM AllocationsAreSound == ArenaSpec => []AllocationsSound
<1>1. ArenaInv => AllocationsSound
  BY DEF ArenaInv
<1> QED
  BY <1>1, ArenaInitial, ArenaStep, PTL DEF ArenaSpec

---------------------------------------------------------------------------
(* The ring of peers. *)

\* A set of naturals that is not empty has a least member.
LEMMA LeastNatural ==
  ASSUME NEW T \in SUBSET Nat, T # {}
  PROVE  \E n \in T : \A m \in T : n <= m
<1> DEFINE R == {p \in Nat \X Nat : p[1] < p[2]}
<1>1. IsWellFoundedOn(OpToRel(<, Nat), Nat)
  BY NatLessThanWellFounded
<1>2. OpToRel(<, Nat) = R
  BY DEF OpToRel
<1>3. IsWellFoundedOn(R, Nat)
  BY <1>1, <1>2
<1> HIDE DEF R
<1>4. PICK n \in T : \A m \in T : ~(<<m, n>> \in R)
  BY <1>3, WFMin
<1>5. ASSUME NEW m \in T
      PROVE  n <= m
  <2>1. ~(<<m, n>> \in R) /\ <<m, n>> \in Nat \X Nat
    BY <1>4
  <2>2. ~(m < n)
    BY <2>1 DEF R
  <2> QED
    BY <2>2
<1> QED
  BY <1>5

---------------------------------------------------------------------------
(* The inductive invariant. *)

\* The slots from s up to e, around the ring.
Between(j, s, e) == IF s <= e THEN s <= j /\ j < e ELSE s <= j \/ j < e

\* A position at most once around the ring from another one.
LEMMA AroundTheRing ==
  ASSUME NEW L \in Nat \ {0}, NEW s \in 0 .. (L - 1), NEW i \in 0 .. L
  PROVE  (s + i) % L = IF s + i < L THEN s + i ELSE s + i - L
<1>1. CASE s + i < L
  BY <1>1
<1>2. CASE ~(s + i < L)
  BY <1>2
<1> QED
  BY <1>1, <1>2

\* What a slot may hold, and which reports still count.
Item == [apn : Apns \cup {Unset}, serves : BOOLEAN, last_online : Int]
Young(l) == l[2] >= clock - Threshold

RingTyped ==
  /\ slots \in Seq(Item) /\ Len(slots) \in Nat \ {0}
  /\ start \in 0 .. (Len(slots) - 1) /\ end \in 0 .. (Len(slots) - 1)
  /\ clock \in Nat
  /\ known \subseteq Apns /\ listed \subseteq Apns \X Nat

In(j) == Between(j, start, end)
At(j) == slots[j + 1]
Positions == 0 .. (Len(slots) - 1)

\* A slot that offers the services names a peer.
ServingInv == \A j \in Positions : At(j).serves => At(j).apn \in Apns
\* Nothing outside the window is young.
OutsideInv == \A j \in Positions : ~In(j) => Expired(At(j))
\* Either the window does not wrap and everything below `end` was written, or
\* every slot was.
WrittenInv ==
  \/ start <= end /\ \A j \in Positions : j < end => At(j).apn \in Apns
  \/ \A j \in Positions : At(j).apn \in Apns
\* A young entry is in the window, and so is every peer of known.
ListedInv ==
  \A l \in listed : Young(l) =>
    \E j \in Positions : In(j) /\ At(j).apn = l[1] /\ At(j).last_online = l[2]
KnownInv == \A p \in known : \E j \in Positions : In(j) /\ At(j).apn = p

RingInv ==
  RingTyped /\ ServingInv /\ OutsideInv /\ WrittenInv /\ ListedInv /\ KnownInv

---------------------------------------------------------------------------
(* trim. *)

\* The number of slots trim steps over exists: the least one at which a young
\* entry stops it, or the whole ring.
LEMMA TrimmedFacts ==
  ASSUME RingTyped
  PROVE  /\ Trimmed \in 0 .. Len(slots)
         /\ \A i \in 0 .. Trimmed - 1 : Expired(Slot(start + i))
         /\ Trimmed < Len(slots) => ~Expired(Slot(start + Trimmed))
<1> DEFINE L == Len(slots)
           P(n) == /\ \A i \in 0 .. n - 1 : Expired(Slot(start + i))
                   /\ n < L => ~Expired(Slot(start + n))
           T == {n \in 0 .. L : n < L => ~Expired(Slot(start + n))}
<1>1. L \in Nat
  BY DEF RingTyped
<1> HIDE DEF L
<1>2. T \in SUBSET Nat /\ L \in T
  BY <1>1
<1>3. PICK m \in T : \A n \in T : m <= n
  <2> HIDE DEF T
  <2> QED
    BY <1>2, LeastNatural
<1>4. m \in 0 .. L /\ P(m)
  <2>1. m \in 0 .. L /\ (m < L => ~Expired(Slot(start + m)))
    BY <1>3
  <2>2. ASSUME NEW i \in 0 .. m - 1
        PROVE  Expired(Slot(start + i))
    <3>1. i \in 0 .. L /\ i < L /\ ~(m <= i)
      BY <1>1, <2>1
    <3>2. i \notin T
      BY <1>3, <3>1
    <3> QED
      BY <3>1, <3>2
  <2> QED
    BY <2>1, <2>2
<1>5. \E n \in 0 .. L : P(n)
  BY <1>4
<1>6. Trimmed = CHOOSE n \in 0 .. L : P(n)
  BY DEF Trimmed, L
<1>7. Trimmed \in 0 .. L /\ P(Trimmed)
  <2> HIDE DEF P
  <2> QED
    BY <1>5, <1>6
<1> QED
  BY <1>7 DEF L

\* trim only drops entries that are too old, and no peer of known that it keeps.
LEMMA Trim ==
  ASSUME RingInv
  PROVE  LET kept == (start + Trimmed) % Len(slots)
             gone == {Slot(start + i).apn : i \in 0 .. Trimmed - 1}
         IN  /\ kept \in Positions
             /\ start <= end => kept <= end
             /\ \A j \in Positions : ~Between(j, kept, end) => Expired(At(j))
             /\ \A j \in Positions : In(j) /\ At(j).apn \notin gone => Between(j, kept, end)
<1> DEFINE L == Len(slots)
           n == Trimmed
           kept == (start + n) % L
           gone == {Slot(start + i).apn : i \in 0 .. n - 1}
<1>1. /\ L \in Nat \ {0} /\ start \in 0 .. (L - 1) /\ end \in 0 .. (L - 1) /\ Positions = 0 .. (L - 1)
  BY DEF RingInv, RingTyped, Positions
<1>2. /\ n \in 0 .. L
      /\ \A i \in 0 .. n - 1 : Expired(Slot(start + i))
      /\ n < L => ~Expired(Slot(start + n))
  BY TrimmedFacts DEF RingInv
<1> HIDE DEF n
<1>3. \A i \in 0 .. L : (start + i) % L = IF start + i < L THEN start + i ELSE start + i - L
  BY <1>1, AroundTheRing
<1>4. \A i \in 0 .. L : Slot(start + i) = At(IF start + i < L THEN start + i ELSE start + i - L)
  BY <1>3 DEF Slot, At
<1>5. kept = IF start + n < L THEN start + n ELSE start + n - L
  BY <1>2, <1>3
<1> HIDE DEF L, kept
<1>6. ASSUME NEW j \in 0 .. (L - 1), \E i \in 0 .. n - 1 : j = IF start + i < L THEN start + i ELSE start + i - L
      PROVE  Expired(At(j)) /\ At(j).apn \in gone
  <2>1. PICK i \in 0 .. n - 1 : j = IF start + i < L THEN start + i ELSE start + i - L
    BY <1>6
  <2>2. i \in 0 .. L
    BY <1>1, <1>2
  <2>3. Slot(start + i) = At(j)
    BY <1>4, <2>1, <2>2
  <2> QED
    BY <1>2, <2>3
<1>7. CASE n = L
  <2>1. kept = start
    BY <1>1, <1>5, <1>7
  <2>2. ASSUME NEW j \in 0 .. (L - 1)
        PROVE  At(j).apn \in gone
    <3>1. \E i \in 0 .. n - 1 : j = IF start + i < L THEN start + i ELSE start + i - L
      <4>1. CASE start <= j
        <5>1. j - start \in 0 .. n - 1 /\ start + (j - start) = j
          BY <1>1, <1>7, <4>1
        <5> QED
          BY <1>1, <5>1
      <4>2. CASE ~(start <= j)
        <5>1. j - start + L \in 0 .. n - 1 /\ start + (j - start + L) = j + L
          BY <1>1, <1>7, <4>2
        <5> QED
          BY <1>1, <5>1
      <4> QED
        BY <4>1, <4>2
    <3> QED
      BY <1>6, <3>1
  <2>3. \A j \in 0 .. (L - 1) : ~Between(j, kept, end) => Expired(At(j))
    BY <1>1, <2>1 DEF RingInv, OutsideInv, In
  <2> QED
    BY <1>1, <2>1, <2>2, <2>3 DEF kept, L, n
<1>8. CASE n < L
  <2>1. kept \in 0 .. (L - 1)
    BY <1>1, <1>2, <1>5, <1>8
  <2>2. ~Expired(At(kept))
    BY <1>1, <1>2, <1>4, <1>5, <1>8
  <2>3. Between(kept, start, end)
    BY <1>1, <2>1, <2>2 DEF RingInv, OutsideInv, In
  <2>4. start <= end => kept <= end
    BY <1>1, <2>1, <2>3 DEF Between
  <2>5. ASSUME NEW j \in 0 .. (L - 1), Between(j, start, end), ~Between(j, kept, end)
        PROVE  \E i \in 0 .. n - 1 : j = IF start + i < L THEN start + i ELSE start + i - L
    <3>1. CASE start <= j
      <4>1. j - start \in 0 .. n - 1 /\ start + (j - start) = j
        BY <1>1, <1>2, <1>5, <1>8, <2>1, <2>3, <2>5, <3>1 DEF Between
      <4> QED
        BY <1>1, <4>1
    <3>2. CASE ~(start <= j)
      <4>1. j - start + L \in 0 .. n - 1 /\ start + (j - start + L) = j + L
        BY <1>1, <1>2, <1>5, <1>8, <2>1, <2>3, <2>5, <3>2 DEF Between
      <4> QED
        BY <1>1, <4>1
    <3> QED
      BY <3>1, <3>2
  <2>6. \A j \in 0 .. (L - 1) : ~Between(j, kept, end) => Expired(At(j))
    BY <1>1, <1>6, <2>5 DEF RingInv, OutsideInv, In
  <2>7. \A j \in 0 .. (L - 1) : In(j) /\ At(j).apn \notin gone => Between(j, kept, end)
    BY <1>6, <2>5 DEF In
  <2> QED
    BY <1>1, <2>1, <2>4, <2>6, <2>7 DEF kept, L, n
<1> QED
  BY <1>1, <1>2, <1>7, <1>8

---------------------------------------------------------------------------
(* The steps. *)

LEMMA ItemAt ==
  ASSUME RingTyped
  PROVE  \A j \in Positions : At(j) \in Item
<1>1. /\ Len(slots) \in Nat /\ \A i \in 1 .. Len(slots) : slots[i] \in Item
  BY ElementOfSeq DEF RingTyped
<1>2. \A j \in Positions : j + 1 \in 1 .. Len(slots)
  BY <1>1 DEF Positions
<1> QED
  BY <1>1, <1>2 DEF At

\* A ring of default entries, with an empty window.
LEMMA RingAtFirst == ListInit => RingInv
<1> SUFFICES ASSUME ListInit
             PROVE  RingInv
  OBVIOUS
<1> DEFINE n == InitialSlots
           f == [i \in 1 .. n |-> Empty]
<1>1. n \in Nat \ {0} /\ Threshold \in Nat
  BY ListAssumption
<1>2. Empty \in Item /\ ~Empty.serves /\ Empty.last_online = -1
  BY DEF Empty, Item
<1>3. f \in Seq(Item) /\ Len(f) = n /\ \A i \in 1 .. n : f[i] = Empty
  BY <1>1, <1>2
<1>4. slots = f /\ start = 0 /\ end = 0 /\ known = {} /\ clock = 0 /\ listed = {}
  BY DEF ListInit
<1> HIDE DEF f, n
<1>5. RingTyped
  BY <1>1, <1>3, <1>4 DEF RingTyped
<1>6. \A j \in Positions : At(j) = Empty
  <2>1. \A j \in Positions : j + 1 \in 1 .. n
    BY <1>1, <1>3, <1>4 DEF Positions
  <2> QED
    BY <1>3, <1>4, <2>1 DEF At
<1>7. ServingInv /\ OutsideInv
  BY <1>2, <1>6 DEF ServingInv, OutsideInv, Expired
<1>8. WrittenInv
  BY <1>1, <1>3, <1>4 DEF WrittenInv, Positions
<1>9. ListedInv /\ KnownInv
  BY <1>4 DEF ListedInv, KnownInv
<1> QED
  BY <1>5, <1>7, <1>8, <1>9 DEF RingInv

\* With time entries only get older.
LEMMA RingTick ==
  ASSUME RingInv, Tick
  PROVE  RingInv'
<1>1. clock' = clock + 1 /\ UNCHANGED <<slots, start, end, known, listed>>
  BY DEF Tick
<1>2. clock \in Nat /\ Threshold \in Nat /\ slots \in Seq(Item) /\ listed \subseteq Apns \X Nat
  BY ListAssumption DEF RingInv, RingTyped
<1>3. RingTyped'
  BY <1>1 DEF RingInv, RingTyped
<1>4. Positions' = Positions /\ \A j : At(j)' = At(j) /\ (In(j)' <=> In(j))
  BY <1>1 DEF Positions, At, In
<1>5. ServingInv' /\ WrittenInv' /\ KnownInv'
  BY <1>1, <1>4 DEF RingInv, ServingInv, WrittenInv, KnownInv
<1>6. \A j \in Positions : At(j).last_online \in Int
  BY ItemAt DEF RingInv, Item
<1>7. \A j \in Positions : Expired(At(j)) => Expired(At(j))'
  BY <1>1, <1>2, <1>4, <1>6 DEF Expired
<1>8. OutsideInv'
  BY <1>4, <1>7 DEF RingInv, OutsideInv
<1>9. \A l \in listed : Young(l)' => Young(l)
  BY <1>1, <1>2 DEF Young
<1>10. ListedInv'
  BY <1>1, <1>4, <1>9 DEF RingInv, ListedInv
<1> QED
  BY <1>3, <1>5, <1>8, <1>10 DEF RingInv

\* What is left of the invariant between trim and the new entry.
AfterTrim(s, left) ==
  /\ s \in Positions
  /\ \A j \in Positions : ~Between(j, s, end) => Expired(At(j))
  /\ \/ s <= end /\ \A j \in Positions : j < end => At(j).apn \in Apns
     \/ \A j \in Positions : At(j).apn \in Apns
  /\ \A l \in listed : Young(l) =>
       \E j \in Positions : Between(j, s, end) /\ At(j).apn = l[1] /\ At(j).last_online = l[2]
  /\ left \subseteq Apns
  /\ \A p \in left : \E j \in Positions : Between(j, s, end) /\ At(j).apn = p

\* trim leaves the slots alone: it narrows the window by expired entries, and
\* known by the peers of those.
LEMMA TrimLeaves ==
  ASSUME RingInv
  PROVE  AfterTrim((start + Trimmed) % Len(slots),
                   known \ {Slot(start + i).apn : i \in 0 .. Trimmed - 1})
<1> DEFINE kept == (start + Trimmed) % Len(slots)
           gone == {Slot(start + i).apn : i \in 0 .. Trimmed - 1}
<1>1. /\ kept \in Positions
      /\ start <= end => kept <= end
      /\ \A j \in Positions : ~Between(j, kept, end) => Expired(At(j))
      /\ \A j \in Positions : In(j) /\ At(j).apn \notin gone => Between(j, kept, end)
  BY Trim
<1> HIDE DEF kept, gone
<1>2. known \ gone \subseteq Apns /\ listed \subseteq Apns \X Nat /\ clock \in Nat /\ Threshold \in Nat
  BY ListAssumption DEF RingInv, RingTyped
<1>3. \/ kept <= end /\ \A j \in Positions : j < end => At(j).apn \in Apns
      \/ \A j \in Positions : At(j).apn \in Apns
  BY <1>1 DEF RingInv, WrittenInv
<1>4. \A p \in known \ gone : \E j \in Positions : Between(j, kept, end) /\ At(j).apn = p
  BY <1>1 DEF RingInv, KnownInv
<1>5. ASSUME NEW l \in listed, Young(l)
      PROVE  \E j \in Positions : Between(j, kept, end) /\ At(j).apn = l[1] /\ At(j).last_online = l[2]
  <2>1. PICK j \in Positions : In(j) /\ At(j).apn = l[1] /\ At(j).last_online = l[2]
    BY <1>5 DEF RingInv, ListedInv
  <2>2. l[2] \in Nat /\ l[2] >= clock - Threshold
    BY <1>2, <1>5 DEF Young
  <2>3. ~Expired(At(j))
    BY <1>2, <2>1, <2>2 DEF Expired
  <2> QED
    BY <1>1, <2>1, <2>3
<1>6. AfterTrim(kept, known \ gone)
  BY <1>1, <1>2, <1>3, <1>4, <1>5 DEF AfterTrim
<1> QED
  BY <1>6 DEF kept, gone

\* The ring unrolled into one twice as long.
Unroll(ring, e, n) == SubSeq(ring, e + 1, n) \o SubSeq(ring, 1, e) \o [i \in 1 .. n |-> Empty]

\* What is in the longer ring: the slots from e on, those below e, and then
\* default entries.
IsUnrolled(new, ring, e, L) ==
  /\ new \in Seq(Item) /\ Len(new) = L + L
  /\ \A j \in 0 .. (L - 1) : new[j + 1] = ring[IF j + e < L THEN j + e + 1 ELSE j + e - L + 1]
  /\ \A j \in L .. (L + L - 1) : new[j + 1] = Empty

LEMMA Unrolled ==
  ASSUME NEW ring \in Seq(Item), NEW L \in Nat \ {0}, Len(ring) = L, NEW e \in 0 .. (L - 1)
  PROVE  IsUnrolled(Unroll(ring, e, L), ring, e, L)
<1> DEFINE U == Item
           x == Empty
           a == SubSeq(ring, e + 1, L)
           b == SubSeq(ring, 1, e)
           c == [i \in 1 .. L |-> x]
           ab == a \o b
           new == ab \o c
<1>0. x \in U
  BY DEF Empty, Item
<1> HIDE DEF U, x
<1>00. ring \in Seq(U)
  BY DEF U
<1>01. e + 1 \in Int /\ L \in Int /\ e + 1 <= L /\ \A i \in (e + 1) .. L : ring[i] \in U
  BY <1>00
<1>02. L - (e + 1) + 1 = L - e /\ \A i \in Int : (e + 1) + i - 1 = e + i
  OBVIOUS
<1>1. /\ a \in Seq(U) /\ Len(a) = L - e /\ \A i \in 1 .. (L - e) : a[i] = ring[e + i]
  <2>1. /\ a \in Seq(U)
        /\ Len(a) = IF e + 1 <= L THEN L - (e + 1) + 1 ELSE 0
        /\ \A i \in 1 .. (L - (e + 1) + 1) : a[i] = ring[(e + 1) + i - 1]
    BY <1>01, SubSeqProperties
  <2> HIDE DEF a
  <2> QED
    BY <1>01, <1>02, <2>1
<1>2. /\ b \in Seq(U) /\ Len(b) = e /\ \A i \in 1 .. e : b[i] = ring[i]
  BY <1>00, SubSeqProperties
<1>3. c \in Seq(U) /\ Len(c) = L /\ \A i \in 1 .. L : c[i] = x
  BY <1>0
<1> HIDE DEF a, b, c
<1>4. /\ ab \in Seq(U) /\ Len(ab) = L
      /\ \A i \in 1 .. (L - e) : ab[i] = ring[e + i]
      /\ \A i \in 1 .. e : ab[L - e + i] = ring[i]
  <2>1. /\ ab \in Seq(U) /\ Len(ab) = Len(a) + Len(b)
        /\ \A i \in 1 .. Len(a) + Len(b) : ab[i] = IF i <= Len(a) THEN a[i] ELSE b[i - Len(a)]
    BY <1>1, <1>2, ConcatProperties
  <2> HIDE DEF ab
  <2>2. Len(a) + Len(b) = L
    BY <1>1, <1>2
  <2>3. \A i \in 1 .. L : ab[i] = IF i <= L - e THEN a[i] ELSE b[i - (L - e)]
    BY <1>1, <2>1, <2>2
  <2>4. ASSUME NEW i \in 1 .. (L - e)
        PROVE  ab[i] = ring[e + i]
    <3>1. i \in 1 .. L /\ i <= L - e
      OBVIOUS
    <3> QED
      BY <1>1, <2>3, <3>1
  <2>5. ASSUME NEW i \in 1 .. e
        PROVE  ab[L - e + i] = ring[i]
    <3>1. L - e + i \in 1 .. L /\ ~(L - e + i <= L - e) /\ (L - e + i) - (L - e) = i
      OBVIOUS
    <3>2. ab[L - e + i] = b[(L - e + i) - (L - e)]
      BY <2>3, <3>1
    <3> QED
      BY <1>2, <3>1, <3>2
  <2> QED
    BY <2>1, <2>2, <2>4, <2>5
<1> HIDE DEF ab
<1>5. /\ new \in Seq(U) /\ Len(new) = L + L
      /\ \A i \in 1 .. L : new[i] = ab[i]
      /\ \A i \in 1 .. L : new[L + i] = x
  <2>0. /\ new \in Seq(U) /\ Len(new) = Len(ab) + Len(c)
        /\ \A i \in 1 .. Len(ab) + Len(c) : new[i] = IF i <= Len(ab) THEN ab[i] ELSE c[i - Len(ab)]
    <3>1. ab \in Seq(U) /\ c \in Seq(U)
      BY <1>3, <1>4
    <3> QED
      BY <3>1, ConcatProperties
  <2> HIDE DEF new
  <2>1. /\ new \in Seq(U) /\ Len(new) = L + L
        /\ \A i \in 1 .. L + L : new[i] = IF i <= L THEN ab[i] ELSE c[i - L]
    BY <1>3, <1>4, <2>0
  <2> HIDE DEF new
  <2>2. ASSUME NEW i \in 1 .. L
        PROVE  new[i] = ab[i] /\ new[L + i] = x
    <3>1. i \in 1 .. L + L /\ i <= L /\ L + i \in 1 .. L + L /\ ~(L + i <= L) /\ (L + i) - L = i
      OBVIOUS
    <3>2. new[i] = ab[i]
      BY <2>1, <3>1
    <3>3. new[L + i] = c[(L + i) - L]
      BY <2>1, <3>1
    <3>4. c[i] = x
      BY <1>3
    <3> QED
      BY <3>1, <3>2, <3>3, <3>4
  <2> QED
    BY <2>1, <2>2
<1> HIDE DEF new
<1>6. ASSUME NEW j \in 0 .. (L - 1)
      PROVE  new[j + 1] = ring[IF j + e < L THEN j + e + 1 ELSE j + e - L + 1]
  <2>1. new[j + 1] = ab[j + 1]
    BY <1>5
  <2>2. CASE j + e < L
    <3>1. j + 1 \in 1 .. (L - e) /\ e + (j + 1) = j + e + 1
      BY <2>2
    <3> QED
      BY <1>4, <2>1, <2>2, <3>1
  <2>3. CASE ~(j + e < L)
    <3>1. j + e - L + 1 \in 1 .. e /\ L - e + (j + e - L + 1) = j + 1
      BY <2>3
    <3> QED
      BY <1>4, <2>1, <2>3, <3>1
  <2> QED
    BY <2>2, <2>3
<1>7. ASSUME NEW j \in L .. (L + L - 1)
      PROVE  new[j + 1] = x
  <2>1. j + 1 - L \in 1 .. L /\ L + (j + 1 - L) = j + 1
    OBVIOUS
  <2> QED
    BY <1>5, <2>1
<1> QED
  BY <1>5, <1>6, <1>7 DEF new, ab, a, b, c, x, U, Unroll, IsUnrolled

\* An entry at the end of a ring that is not full yet.
LEMMA RingExtended ==
  ASSUME RingTyped, ServingInv, NEW s, NEW left, AfterTrim(s, left), NEW peer \in Apns,
         slots' = [slots EXCEPT ![end + 1] =
                     [apn |-> peer, serves |-> peer \in Serving, last_online |-> clock]],
         start' = s, end' = (end + 1) % Len(slots), end' # s,
         known' = left \cup {peer}, listed' = listed \cup {<<peer, clock>>}, clock' = clock
  PROVE  RingInv'
<1> DEFINE L == Len(slots)
           x == [apn |-> peer, serves |-> peer \in Serving, last_online |-> clock]
<1>1. /\ slots \in Seq(Item) /\ L \in Nat \ {0} /\ end \in 0 .. (L - 1) /\ s \in 0 .. (L - 1)
      /\ Positions = 0 .. (L - 1) /\ clock \in Nat /\ listed \subseteq Apns \X Nat /\ Threshold \in Nat
  BY ListAssumption DEF RingTyped, AfterTrim, Positions
<1>2. x \in Item /\ x.apn = peer /\ x.last_online = clock
  BY <1>1 DEF Item
<1> HIDE DEF x
<1>3. /\ slots' \in Seq(Item) /\ Len(slots') = L
      /\ \A i \in 1 .. L : slots'[i] = IF i = end + 1 THEN x ELSE slots[i]
  <2>1. slots' = [slots EXCEPT ![end + 1] = x]
    BY DEF x
  <2>2. end + 1 \in 1 .. L
    BY <1>1
  <2> QED
    BY <1>1, <1>2, <2>1, <2>2, ExceptSeq
<1>4. end' = IF end + 1 < L THEN end + 1 ELSE 0
  <2>1. 1 \in 0 .. L
    BY <1>1
  <2>2. (end + 1) % L = IF end + 1 < L THEN end + 1 ELSE end + 1 - L
    BY <1>1, <2>1, AroundTheRing
  <2> QED
    BY <1>1, <2>2
<1> HIDE DEF L
<1>5. Positions' = Positions
  BY <1>1, <1>3 DEF Positions
<1>6. \A j \in Positions : At(j)' = IF j = end THEN x ELSE At(j)
  <2>1. \A j \in Positions : j + 1 \in 1 .. L /\ (j + 1 = end + 1 <=> j = end)
    BY <1>1
  <2> QED
    BY <1>3, <2>1 DEF At
<1>7. \A j \in Positions : In(j)' <=> Between(j, s, end) \/ j = end
  BY <1>1, <1>4 DEF In, Between
<1>8. ~Between(end, s, end)
  BY <1>1 DEF Between
<1>9. RingTyped'
  <2>1. end' \in 0 .. (L - 1)
    BY <1>1, <1>4
  <2>2. known' \subseteq Apns /\ listed' \subseteq Apns \X Nat
    BY <1>1 DEF AfterTrim
  <2> QED
    BY <1>1, <1>3, <2>1, <2>2 DEF RingTyped
<1>10. ServingInv'
  BY <1>2, <1>5, <1>6 DEF ServingInv
<1>11. OutsideInv'
  <2>1. \A j \in Positions : ~In(j)' => Expired(At(j)) /\ At(j)' = At(j)
    BY <1>6, <1>7 DEF AfterTrim
  <2> QED
    BY <1>5, <2>1 DEF OutsideInv, Expired
<1>12. WrittenInv'
  <2>1. CASE s <= end /\ \A j \in Positions : j < end => At(j).apn \in Apns
    <3>1. CASE end + 1 < L
      <4>1. start' <= end' /\ end' = end + 1
        BY <1>1, <1>4, <2>1, <3>1
      <4>2. \A j \in Positions : j < end' => (At(j)').apn \in Apns
        BY <1>1, <1>2, <1>6, <2>1, <4>1
      <4> QED
        BY <1>5, <4>1, <4>2 DEF WrittenInv
    <3>2. CASE ~(end + 1 < L)
      <4>1. \A j \in Positions : j < end \/ j = end
        BY <1>1, <3>2
      <4>2. \A j \in Positions : (At(j)').apn \in Apns
        BY <1>2, <1>6, <2>1, <4>1
      <4> QED
        BY <1>5, <4>2 DEF WrittenInv
    <3> QED
      BY <3>1, <3>2
  <2>2. CASE \A j \in Positions : At(j).apn \in Apns
    <3>1. \A j \in Positions : (At(j)').apn \in Apns
      BY <1>2, <1>6, <2>2
    <3> QED
      BY <1>5, <3>1 DEF WrittenInv
  <2> QED
    BY <2>1, <2>2 DEF AfterTrim
<1>13. ASSUME NEW j \in Positions, Between(j, s, end)
       PROVE  In(j)' /\ At(j)' = At(j)
  BY <1>6, <1>7, <1>8, <1>13
<1>14. \E k \in Positions : In(k)' /\ At(k)' = x
  <2>1. end \in Positions
    BY <1>1
  <2>2. \A k \in Positions : k = end => In(k)' /\ At(k)' = x
    BY <1>6, <1>7
  <2> QED
    BY <2>1, <2>2
<1>15. KnownInv'
  <2>1. \A p \in left : \E j \in Positions : In(j)' /\ (At(j)').apn = p
    BY <1>13 DEF AfterTrim
  <2> QED
    BY <1>2, <1>5, <1>14, <2>1 DEF KnownInv
<1>16. ListedInv'
  <2>1. \A l \in listed : Young(l)' => Young(l)
    BY DEF Young
  <2>2. \A l \in listed : Young(l) =>
          \E j \in Positions : In(j)' /\ (At(j)').apn = l[1] /\ (At(j)').last_online = l[2]
    BY <1>13 DEF AfterTrim
  <2>3. \E j \in Positions : In(j)' /\ (At(j)').apn = peer /\ (At(j)').last_online = clock
    BY <1>2, <1>14
  <2> QED
    BY <1>5, <2>1, <2>2, <2>3 DEF ListedInv
<1> QED
  BY <1>9, <1>10, <1>11, <1>12, <1>15, <1>16 DEF RingInv

\* An entry that fills the ring, which is unrolled into one twice as long.
LEMMA RingDoubled ==
  ASSUME RingTyped, ServingInv, NEW s, NEW left, AfterTrim(s, left), NEW peer \in Apns,
         NEW x \in Item, x.apn = peer, x.last_online = clock,
         NEW ring \in Seq(Item), Len(ring) = Len(slots),
         \A i \in 1 .. Len(slots) : ring[i] = IF i = end + 1 THEN x ELSE slots[i],
         s = IF end + 1 < Len(slots) THEN end + 1 ELSE 0,
         IsUnrolled(slots', ring, s, Len(slots)),
         start' = 0, end' = Len(slots),
         known' = left \cup {peer}, listed' = listed \cup {<<peer, clock>>}, clock' = clock
  PROVE  RingInv'
<1> DEFINE L == Len(slots)
           e == s
<1>1. /\ slots \in Seq(Item) /\ L \in Nat \ {0} /\ end \in 0 .. (L - 1) /\ e \in 0 .. (L - 1)
      /\ Positions = 0 .. (L - 1) /\ clock \in Nat /\ listed \subseteq Apns \X Nat /\ Threshold \in Nat
  BY ListAssumption DEF RingTyped, AfterTrim, Positions
<1>2. x.apn = peer /\ x.last_online = clock
  OBVIOUS
<1>3. Empty \in Item /\ ~Empty.serves /\ Empty.last_online = -1
  BY DEF Empty, Item
<1>4. Len(ring) = L /\ \A i \in 1 .. L : ring[i] = IF i = end + 1 THEN x ELSE slots[i]
  OBVIOUS
<1>5. e = IF end + 1 < L THEN end + 1 ELSE 0
  OBVIOUS
<1>6. /\ slots' \in Seq(Item) /\ Len(slots') = L + L
      /\ \A j \in 0 .. (L - 1) : slots'[j + 1] = ring[IF j + e < L THEN j + e + 1 ELSE j + e - L + 1]
      /\ \A j \in L .. (L + L - 1) : slots'[j + 1] = Empty
  BY DEF IsUnrolled
<1> HIDE DEF L, e
<1>7. end' = L
  BY DEF L
<1>8. Positions' = 0 .. (L + L - 1)
  <2>1. Len(slots') - 1 = L + L - 1
    BY <1>1, <1>6
  <2> QED
    BY <2>1 DEF Positions
<1>9. \A j \in Positions' : In(j)' <=> j < L
  BY <1>1, <1>7, <1>8 DEF In, Between
<1>10. \A j \in Positions' : ~(j < L) => At(j)' = Empty
  <2>1. \A j \in Positions' : ~(j < L) => j \in L .. (L + L - 1)
    BY <1>1, <1>8
  <2> QED
    BY <1>6, <2>1 DEF At
\* Every slot of the old ring is in the new one, and the other way round.
<1> DEFINE Was(j) == IF j = end THEN x ELSE At(j)
<1>11. \A j \in Positions : ring[j + 1] = Was(j)
  <2>1. \A j \in Positions : j + 1 \in 1 .. L /\ (j + 1 = end + 1 <=> j = end)
    BY <1>1
  <2> QED
    BY <1>4, <2>1 DEF At
<1> HIDE DEF Was
<1>12. ASSUME NEW j \in Positions
       PROVE  \E k \in Positions' : In(k)' /\ At(k)' = Was(j)
  <2>1. CASE e <= j
    <3>1. j - e \in 0 .. (L - 1) /\ j - e + e = j /\ j - e + e < L /\ j - e < L
          /\ j - e \in 0 .. (L + L - 1)
      BY <1>1, <2>1
    <3>2. slots'[j - e + 1] = Was(j)
      BY <1>6, <1>11, <3>1
    <3>3. \A k \in Positions' : k = j - e => In(k)' /\ At(k)' = Was(j)
      BY <1>9, <3>1, <3>2 DEF At
    <3> QED
      BY <1>8, <3>1, <3>3
  <2>2. CASE ~(e <= j)
    <3>0. j \in 0 .. (L - 1) /\ e \in 0 .. (L - 1) /\ j < e
      BY <1>1, <2>2
    <3>1. /\ j - e + L \in 0 .. (L - 1) /\ ~(j - e + L + e < L) /\ j - e + L + e - L + 1 = j + 1
          /\ j - e + L < L /\ j - e + L \in 0 .. (L + L - 1)
      BY <1>1, <3>0
    <3>2. slots'[j - e + L + 1] = Was(j)
      BY <1>6, <1>11, <3>1
    <3>3. \A k \in Positions' : k = j - e + L => In(k)' /\ At(k)' = Was(j)
      BY <1>9, <3>1, <3>2 DEF At
    <3> QED
      BY <1>8, <3>1, <3>3
  <2> QED
    BY <2>1, <2>2
<1>13. ASSUME NEW k \in Positions', k < L
       PROVE  \E j \in Positions : At(k)' = Was(j)
  <2>1. k \in 0 .. (L - 1)
    BY <1>1, <1>8, <1>13
  <2> DEFINE j == IF k + e < L THEN k + e ELSE k + e - L
  <2>2. j \in 0 .. (L - 1) /\ j + 1 = (IF k + e < L THEN k + e + 1 ELSE k + e - L + 1)
    BY <1>1, <2>1
  <2>3. slots'[k + 1] = ring[j + 1]
    BY <1>6, <2>1, <2>2
  <2> HIDE DEF j
  <2> QED
    BY <1>1, <1>11, <2>2, <2>3 DEF At
<1>14. RingTyped'
  <2>1. known' \subseteq Apns /\ listed' \subseteq Apns \X Nat
    BY <1>1 DEF AfterTrim, e
  <2>2. 0 \in 0 .. (L + L - 1) /\ L \in 0 .. (L + L - 1) /\ L + L \in Nat \ {0}
    BY <1>1
  <2>3. /\ slots' \in Seq(Item) /\ Len(slots') = L + L
        /\ start' = 0 /\ end' = L /\ clock' \in Nat
    BY <1>1, <1>6, <1>7
  <2>4. /\ Len(slots') \in Nat \ {0} /\ start' \in 0 .. (Len(slots') - 1)
        /\ end' \in 0 .. (Len(slots') - 1)
    BY <2>2, <2>3
  <2> QED
    BY <2>1, <2>3, <2>4 DEF RingTyped
<1>15. \A j \in Positions : (Was(j).serves => Was(j).apn \in Apns) /\ Was(j).apn \in Apns
  <2>1. \A j \in Positions : Between(j, e, end) \/ j = end
    BY <1>1, <1>5 DEF Between
  <2>2. CASE e <= end /\ \A j \in Positions : j < end => At(j).apn \in Apns
    <3>1. \A j \in Positions : j < end \/ j = end
      BY <1>1, <1>5, <2>2
    <3> QED
      BY <1>2, <2>2, <3>1 DEF Was
  <2>3. CASE \A j \in Positions : At(j).apn \in Apns
    BY <1>2, <2>3 DEF Was
  <2> QED
    BY <2>2, <2>3 DEF AfterTrim, e
<1>16. \A k \in Positions' : k < L => (At(k)').apn \in Apns
  BY <1>13, <1>15
<1>17. ServingInv'
  BY <1>3, <1>10, <1>16 DEF ServingInv
<1>18. OutsideInv'
  BY <1>3, <1>9, <1>10 DEF OutsideInv, Expired
<1>19. WrittenInv'
  BY <1>1, <1>7, <1>16 DEF WrittenInv
<1>20. \A j \in Positions : Between(j, e, end) => Was(j) = At(j)
  BY <1>1 DEF Between, Was
<1>21. \E j \in Positions : Was(j) = x
  BY <1>1 DEF Was
<1>22. KnownInv'
  <2>1. ASSUME NEW p \in left
        PROVE  \E k \in Positions' : In(k)' /\ (At(k)').apn = p
    <3>1. PICK j \in Positions : Between(j, e, end) /\ At(j).apn = p
      BY DEF AfterTrim, e
    <3> QED
      BY <1>12, <1>20, <3>1
  <2>2. \E k \in Positions' : In(k)' /\ (At(k)').apn = peer
    BY <1>2, <1>12, <1>21
  <2> QED
    BY <2>1, <2>2 DEF KnownInv
<1>23. ListedInv'
  <2>1. \A l \in listed : Young(l)' => Young(l)
    BY DEF Young
  <2>2. ASSUME NEW l \in listed, Young(l)
        PROVE  \E k \in Positions' : In(k)' /\ (At(k)').apn = l[1] /\ (At(k)').last_online = l[2]
    <3>1. PICK j \in Positions : Between(j, e, end) /\ At(j).apn = l[1] /\ At(j).last_online = l[2]
      BY <2>2 DEF AfterTrim, e
    <3> QED
      BY <1>12, <1>20, <3>1
  <2>3. \E k \in Positions' : In(k)' /\ (At(k)').apn = peer /\ (At(k)').last_online = clock
    BY <1>2, <1>12, <1>21
  <2> QED
    BY <2>1, <2>2, <2>3 DEF ListedInv
<1> QED
  BY <1>14, <1>17, <1>18, <1>19, <1>22, <1>23 DEF RingInv

\* A whole call of peer_online: trim, and then an entry unless the peer is
\* still known.
LEMMA RingOnline ==
  ASSUME RingInv, NEW peer \in Apns, peer_online(peer)
  PROVE  RingInv'
<1> DEFINE s == (start + Trimmed) % Len(slots)
           left == known \ {Slot(start + i).apn : i \in 0 .. Trimmed - 1}
           x == [apn |-> peer, serves |-> peer \in Serving, last_online |-> clock]
           ring == [slots EXCEPT ![end + 1] = x]
           e == (end + 1) % Len(slots)
           next == Grown(ring, s, e)
<1>1. AfterTrim(s, left)
  BY TrimLeaves
<1>2. RingTyped /\ ServingInv /\ WrittenInv /\ Len(ring) = Len(slots)
  <2>1. slots \in Seq(Item) /\ end + 1 \in 1 .. Len(slots) /\ x \in Item
    BY DEF RingInv, RingTyped, Item
  <2> QED
    BY <2>1, ExceptSeq DEF RingInv
<1>3. \/ start' = s /\ known' = left /\ UNCHANGED <<slots, end, clock, listed>>
      \/ /\ slots' = next.slots /\ start' = next.start /\ end' = next.end
         /\ known' = left \cup {peer} /\ listed' = listed \cup {<<peer, clock>>}
         /\ clock' = clock
  BY DEF peer_online
<1> HIDE DEF s, left, ring, e
<1>4. CASE start' = s /\ known' = left /\ UNCHANGED <<slots, end, clock, listed>>
  <2>1. Positions' = Positions /\ \A j : At(j)' = At(j) /\ (In(j)' <=> Between(j, s, end))
    BY <1>4 DEF Positions, At, In
  <2>2. RingTyped'
    BY <1>1, <1>2, <1>4 DEF RingTyped, AfterTrim, Positions
  <2>3. ServingInv'
    BY <1>2, <2>1 DEF ServingInv
  <2>4. OutsideInv'
    BY <1>1, <1>4, <2>1 DEF OutsideInv, AfterTrim, Expired
  <2>5. WrittenInv'
    BY <1>1, <1>4, <2>1 DEF WrittenInv, AfterTrim
  <2>6. ListedInv' /\ KnownInv'
    BY <1>1, <1>4, <2>1 DEF ListedInv, KnownInv, AfterTrim, Young
  <2> QED
    BY <2>2, <2>3, <2>4, <2>5, <2>6 DEF RingInv
<1>5. CASE /\ slots' = next.slots /\ start' = next.start /\ end' = next.end
           /\ known' = left \cup {peer} /\ listed' = listed \cup {<<peer, clock>>}
           /\ clock' = clock
  <2>1. CASE e # s
    <3>1. slots' = ring /\ start' = s /\ end' = e
      BY <1>5, <2>1 DEF Grown
    <3> QED
      BY <1>1, <1>2, <1>5, <2>1, <3>1, RingExtended DEF ring, e
  <2>2. CASE e = s
    <3>1. slots' = Unroll(ring, s, Len(slots)) /\ start' = 0 /\ end' = Len(slots)
      BY <1>2, <1>5, <2>2 DEF Grown, Unroll
    <3>2. /\ slots \in Seq(Item) /\ Len(slots) \in Nat \ {0} /\ end \in 0 .. (Len(slots) - 1)
          /\ end + 1 \in 1 .. Len(slots) /\ x \in Item /\ x.apn = peer /\ x.last_online = clock
      BY <1>2 DEF RingTyped, Item
    <3> HIDE DEF x
    <3>3. ring \in Seq(Item) /\ Len(ring) = Len(slots)
          /\ \A i \in 1 .. Len(slots) : ring[i] = IF i = end + 1 THEN x ELSE slots[i]
      BY <3>2, ExceptSeq DEF ring
    <3>4. s = IF end + 1 < Len(slots) THEN end + 1 ELSE 0
      <4>1. 1 \in 0 .. Len(slots)
        BY <3>2
      <4>2. e = IF end + 1 < Len(slots) THEN end + 1 ELSE end + 1 - Len(slots)
        BY <3>2, <4>1, AroundTheRing DEF e
      <4> QED
        BY <2>2, <3>2, <4>2
    <3>5. s \in 0 .. (Len(slots) - 1) /\ Empty \in Item
      BY <3>2, <3>4 DEF Empty, Item
    <3>6. IsUnrolled(slots', ring, s, Len(slots))
      BY <3>1, <3>2, <3>3, <3>5, Unrolled
    <3> QED
      BY <1>1, <1>2, <1>5, <3>1, <3>2, <3>3, <3>4, <3>6, RingDoubled
  <2> QED
    BY <2>1, <2>2
<1> QED
  BY <1>3, <1>4, <1>5

\* The invariant gives the promise: a position of the window is one of the
\* slots counted from `start`, and what random counts from slot 0 was written.
LEMMA InvIsSound == RingInv => ListSound
<1> SUFFICES ASSUME RingInv
             PROVE  ListSound
  OBVIOUS
<1> DEFINE L == Len(slots)
<1>1. /\ slots \in Seq(Item) /\ L \in Nat \ {0} /\ start \in 0 .. (L - 1) /\ end \in 0 .. (L - 1)
      /\ Positions = 0 .. (L - 1)
  BY DEF RingInv, RingTyped, Positions
<1>2. length = (IF end < start THEN end + L - start ELSE end - start) /\ length \in 0 .. (L - 1)
  BY <1>1 DEF length
<1>3. \A i \in 0 .. L : Slot(start + i) = At(IF start + i < L THEN start + i ELSE start + i - L)
  BY <1>1, AroundTheRing DEF Slot, At
<1> HIDE DEF L
<1>4. ASSUME NEW j \in Positions, In(j)
      PROVE  At(j) \in Window
  <2>1. CASE start <= j
    <3>1. j - start \in 0 .. (length - 1) /\ j - start \in 0 .. L /\ start + (j - start) = j /\ j < L
      BY <1>1, <1>2, <1>4, <2>1 DEF In, Between
    <3>2. Slot(start + (j - start)) = At(j)
      BY <1>3, <3>1
    <3> QED
      BY <3>1, <3>2 DEF Window
  <2>2. CASE ~(start <= j)
    <3> DEFINE i == j - start + L
    <3>1. /\ i \in 0 .. (length - 1) /\ i \in 0 .. L
          /\ ~(start + i < L) /\ start + i - L = j
      BY <1>1, <1>2, <1>4, <2>2 DEF In, Between
    <3> HIDE DEF i
    <3>2. Slot(start + i) = At(j)
      BY <1>3, <3>1
    <3> QED
      BY <3>1, <3>2 DEF Window
  <2> QED
    BY <2>1, <2>2
<1>5. \A l \in listed : l[2] >= clock - Threshold =>
        \E w \in Window : w.apn = l[1] /\ w.last_online = l[2]
  BY <1>4 DEF RingInv, ListedInv, Young
<1>6. \A p \in known : \E w \in Window : w.apn = p
  BY <1>4 DEF RingInv, KnownInv
<1>7. \A i \in 0 .. (L - 1) : Slot(i) = At(i)
  BY <1>1 DEF Slot, At, L
<1>8. ASSUME NEW index \in 0 .. (length - 1)
      PROVE  random_any(index).apn \in Apns
  <2>1. index \in Positions /\ Slot(index) = At(index)
    BY <1>1, <1>2, <1>7
  <2>2. start <= end => index < end
    BY <1>1, <1>2
  <2> QED
    BY <2>1, <2>2 DEF RingInv, WrittenInv, random_any
<1>9. ASSUME NEW index \in 0 .. (length - 1), NEW w \in random_serving(index)
      PROVE  w.apn \in Apns /\ w.serves
  <2>1. PICK i \in index .. (index + length - 1) : w = Slot(i) /\ Slot(i).serves
    BY DEF random_serving
  <2>2. i \in Nat
    BY <1>1, <1>2
  <2>3. i % L \in 0 .. (L - 1)
    BY <1>1, <2>2
  <2>4. Slot(i) = At(i % L) /\ i % L \in Positions
    BY <1>1, <2>3 DEF Slot, At, L
  <2> QED
    BY <2>1, <2>4 DEF RingInv, ServingInv
<1> QED
  BY <1>5, <1>6, <1>8, <1>9 DEF ListSound

\* OnlineList (online_list.rs), for any size of the ring, threshold and order of
\* calls of peer_online: no young entry leaves the window, known names only
\* peers of the window, and random hands out nothing that was never written.
THEOREM RingIsSound == ListSpec => []ListSound
<1>1. ListInit => RingInv
  BY RingAtFirst
<1>2. RingInv /\ [ListNext]_listVars => RingInv'
  <2> SUFFICES ASSUME RingInv, [ListNext]_listVars
               PROVE  RingInv'
    OBVIOUS
  <2>1. CASE UNCHANGED listVars
    <3>1. UNCHANGED <<slots, start, end, known, clock, listed>>
      BY <2>1 DEF listVars
    <3> QED
      BY <3>1 DEF RingInv, RingTyped, ServingInv, OutsideInv, WrittenInv, ListedInv, KnownInv,
                  Positions, At, In, Young, Expired
  <2> QED
    BY <2>1, RingTick, RingOnline DEF ListNext
<1> QED
  BY <1>1, <1>2, InvIsSound, PTL DEF ListSpec

---------------------------------------------------------------------------
(* The exchange of headers. *)

LEMMA NaturalsInSet ==
  ASSUME NEW T, 0 \in T, \A n \in Nat : n \in T => n + 1 \in T
  PROVE  Nat \subseteq T
<1> DEFINE out == Nat \ T
<1> SUFFICES ASSUME out # {}
             PROVE  FALSE
  OBVIOUS
<1>1. PICK n \in out : \A m \in out : n <= m
  BY LeastNatural
<1>2. n # 0 /\ n - 1 \in Nat /\ n - 1 \notin out
  BY <1>1
<1> QED
  BY <1>2

\* Rounds satisfies the equation that defines it.
LEMMA RoundsDef ==
  ASSUME NEW top \in Nat
  PROVE  Rounds(top) = [i \in 0 .. top |->
                          IF i = 0 THEN [number |-> top, step |-> 1]
                          ELSE Round(Rounds(top)[i - 1], i)]
<1> DEFINE Value(g, i) == IF i = 0 THEN [number |-> top, step |-> 1] ELSE Round(g[i - 1], i)
           Is(n, g) == g = [i \in 0 .. n |-> Value(g, i)]
           T == {n \in Nat : \E g : Is(n, g)}
<1>1. 0 \in T
  <2> DEFINE g == [i \in 0 .. 0 |-> [number |-> top, step |-> 1]]
  <2>1. Is(0, g)
    OBVIOUS
  <2> QED
    BY <2>1
<1>2. ASSUME NEW n \in Nat, n \in T
      PROVE  n + 1 \in T
  <2>1. PICK g : Is(n, g)
    BY <1>2
  <2> DEFINE h == [i \in 0 .. (n + 1) |-> IF i <= n THEN g[i] ELSE Round(g[n], i)]
  <2>2. \A i \in 0 .. n : g[i] = Value(g, i)
    BY <2>1
  <2>3. ASSUME NEW i \in 0 .. (n + 1)
        PROVE  h[i] = Value(h, i)
    <3>1. CASE i = 0
      BY <3>1, <2>2
    <3>2. CASE i \in 1 .. n
      <4>1. i - 1 \in 0 .. n /\ i - 1 \in 0 .. (n + 1)
        BY <3>2
      <4>2. h[i] = g[i] /\ h[i - 1] = g[i - 1]
        BY <4>1, <3>2
      <4> QED
        BY <4>2, <2>2, <3>2
    <3>3. CASE i = n + 1
      <4>1. h[n] = g[n] /\ i - 1 = n /\ i # 0
        BY <3>3
      <4> QED
        BY <4>1, <3>3
    <3> QED
      BY <3>1, <3>2, <3>3
  <2>4. h = [i \in 0 .. (n + 1) |-> h[i]]
    OBVIOUS
  <2> HIDE DEF h
  <2>5. Is(n + 1, h)
    BY <2>3, <2>4
  <2> QED
    BY <2>5
<1>3. Nat \subseteq T
  <2> HIDE DEF T
  <2> QED
    BY <1>1, <1>2, NaturalsInSet
<1>4. \E g : Is(top, g)
  BY <1>3
<1> QED
  BY <1>4 DEF Rounds

LEMMA RoundsStep ==
  ASSUME NEW top \in Nat
  PROVE  /\ Rounds(top)[0] = [number |-> top, step |-> 1]
         /\ \A i \in 1 .. top : Rounds(top)[i] = Round(Rounds(top)[i - 1], i)
<1> DEFINE R == Rounds(top)
           Value(i) == IF i = 0 THEN [number |-> top, step |-> 1] ELSE Round(R[i - 1], i)
<1>1. R = [i \in 0 .. top |-> Value(i)]
  BY RoundsDef
<1> HIDE DEF R, Value
<1>2. \A i \in 0 .. top : R[i] = Value(i)
  BY <1>1
<1>3. R[0] = [number |-> top, step |-> 1]
  BY <1>2 DEF Value
<1>4. ASSUME NEW i \in 1 .. top
      PROVE  R[i] = Round(R[i - 1], i)
  <2>1. i \in 0 .. top /\ i # 0
    OBVIOUS
  <2>2. R[i] = Value(i)
    BY <2>1, <1>2
  <2> QED
    BY <2>1, <2>2, Zenon DEF Value
<1> QED
  BY <1>3, <1>4 DEF R

\* The walk is i headers down after i rounds, or at genesis; and the steps
\* double no faster than the walk moves away from the top.
Downward(w, top, i) ==
  /\ w.number \in Nat /\ w.step \in Nat
  /\ w.number <= top /\ (w.number > 0 => w.number <= top - i /\ w.step >= 1)
  /\ 2 * w.step <= (top - w.number) + 2

LEMMA RoundDown ==
  ASSUME NEW top \in Nat, NEW w, NEW i \in Nat, Downward(w, top, i)
  PROVE  LET v == Round(w, i + 1) IN
         /\ Downward(v, top, i + 1)
         /\ v.number >= (w.number - (top - w.number)) - 2
<1> DEFINE doubled == IF i + 1 >= Dense THEN 2 * w.step ELSE w.step
           capped == IF doubled > w.number THEN w.number ELSE doubled
           v == Round(w, i + 1)
<1>1. v = [number |-> w.number - capped, step |-> capped]
  BY DEF Round
<1>2. v.number = w.number - capped /\ v.step = capped
  BY <1>1
<1>3. w.number \in Nat /\ w.step \in Nat
  BY DEF Downward
<1>4. doubled \in Nat /\ doubled <= 2 * w.step /\ (w.step >= 1 => doubled >= 1)
  BY <1>3
<1> HIDE DEF doubled, v
<1>5. capped \in Nat /\ capped <= w.number /\ capped <= 2 * w.step
      /\ (w.step >= 1 /\ w.number > 0 => capped >= 1)
  BY <1>3, <1>4
<1> HIDE DEF capped
<1>6. v.number \in Nat /\ v.number <= top /\ v.step \in Nat
  BY <1>2, <1>3, <1>5 DEF Downward
<1>7. v.number > 0 => v.number <= top - (i + 1) /\ v.step >= 1
  BY <1>2, <1>3, <1>5 DEF Downward
<1>8. 2 * v.step <= (top - v.number) + 2
  BY <1>2, <1>3, <1>5 DEF Downward
<1>9. v.number >= (w.number - (top - w.number)) - 2
  BY <1>2, <1>3, <1>5 DEF Downward
<1> QED
  BY <1>6, <1>7, <1>8, <1>9 DEF Downward, v

LEMMA RoundsDown ==
  ASSUME NEW top \in Nat
  PROVE  \A i \in 0 .. top : Downward(Rounds(top)[i], top, i)
<1> DEFINE R == Rounds(top)
           T == {n \in Nat : n <= top => Downward(R[n], top, n)}
<1>1. R[0] = [number |-> top, step |-> 1] /\ \A i \in 1 .. top : R[i] = Round(R[i - 1], i)
  BY RoundsStep
<1> HIDE DEF R
<1>2. 0 \in T
  BY <1>1 DEF Downward
<1>3. ASSUME NEW n \in Nat, n \in T
      PROVE  n + 1 \in T
  <2> SUFFICES ASSUME n + 1 <= top
               PROVE  Downward(R[n + 1], top, n + 1)
    OBVIOUS
  <2>1. Downward(R[n], top, n)
    BY <1>3
  <2>2. n + 1 \in 1 .. top /\ (n + 1) - 1 = n
    OBVIOUS
  <2>3. R[n + 1] = Round(R[n], n + 1)
    BY <1>1, <2>2
  <2> QED
    BY <2>1, <2>3, RoundDown
<1>4. Nat \subseteq T
  <2> HIDE DEF T
  <2> QED
    BY <1>2, <1>3, NaturalsInSet
<1> QED
  BY <1>4 DEF R

LEMMA LeastOf ==
  ASSUME NEW S \in SUBSET Nat, S # {}
  PROVE  Min(S) \in S /\ \A n \in S : Min(S) <= n
<1>1. \E n \in S : \A m \in S : n <= m
  BY LeastNatural
<1> QED
  BY <1>1 DEF Min

\* The locator goes from the top to genesis, and from an entry to the next at
\* most twice as far from the top, give or take two.
LEMMA LocatorFacts ==
  ASSUME NEW top \in Nat
  PROVE  \E n \in Nat :
           LET l == build_get_headers(top) IN
           /\ DOMAIN l = 1 .. (n + 1)
           /\ l[1] = top /\ l[n + 1] = 0
           /\ \A i \in 1 .. (n + 1) : l[i] \in Nat
           /\ \A i \in 1 .. n : l[i + 1] >= (l[i] - (top - l[i])) - 2
<1> DEFINE R == Rounds(top)
           ends == {i \in 0 .. top : R[i].number = 0}
           n == Min(ends)
           l == [i \in 1 .. (n + 1) |-> R[i - 1].number]
<1>1. build_get_headers(top) = l
  BY DEF build_get_headers
<1>2. R[0] = [number |-> top, step |-> 1] /\ \A i \in 1 .. top : R[i] = Round(R[i - 1], i)
  BY RoundsStep
<1>3. \A i \in 0 .. top : Downward(R[i], top, i)
  BY RoundsDown
<1> HIDE DEF R
<1>4. top \in ends
  BY <1>3 DEF Downward
<1>5. n \in ends
  <2>1. ends \in SUBSET Nat /\ ends # {}
    BY <1>4
  <2> HIDE DEF ends
  <2> QED
    BY <2>1, LeastOf
<1> HIDE DEF n
<1>6. n \in Nat /\ n <= top /\ R[n].number = 0
  BY <1>5
<1>7. DOMAIN l = 1 .. (n + 1) /\ \A i \in 1 .. (n + 1) : l[i] = R[i - 1].number
  OBVIOUS
<1> HIDE DEF l
<1>8. l[1] = top /\ l[n + 1] = 0
  <2>1. 1 \in 1 .. (n + 1) /\ n + 1 \in 1 .. (n + 1) /\ (n + 1) - 1 = n /\ 1 - 1 = 0
    BY <1>6
  <2>2. l[1] = R[0].number /\ l[n + 1] = R[n].number
    BY <1>7, <2>1
  <2> QED
    BY <1>2, <1>6, <2>2
<1>9. ASSUME NEW i \in 1 .. (n + 1)
      PROVE  l[i] \in Nat
  <2>1. i - 1 \in 0 .. top
    BY <1>6
  <2> QED
    BY <1>3, <1>7, <2>1 DEF Downward
<1>10. ASSUME NEW i \in 1 .. n
       PROVE  l[i + 1] >= (l[i] - (top - l[i])) - 2
  <2>1. /\ i \in 1 .. (n + 1) /\ i + 1 \in 1 .. (n + 1) /\ (i + 1) - 1 = i
        /\ i - 1 \in 0 .. top /\ i \in 1 .. top /\ i - 1 \in Nat /\ (i - 1) + 1 = i
    BY <1>6
  <2>2. l[i] = R[i - 1].number /\ l[i + 1] = R[i].number
    BY <1>7, <2>1
  <2>3. R[i] = Round(R[i - 1], (i - 1) + 1) /\ Downward(R[i - 1], top, i - 1)
    BY <1>2, <1>3, <2>1
  <2>4. Round(R[i - 1], (i - 1) + 1).number >= (R[i - 1].number - (top - R[i - 1].number)) - 2
    BY <2>1, <2>3, RoundDown
  <2> QED
    BY <2>2, <2>3, <2>4
<1> QED
  BY <1>1, <1>6, <1>7, <1>8, <1>9, <1>10

ExchangeInv ==
  /\ mine \in Nat /\ theirs \in Nat /\ shared \in Nat
  /\ shared <= mine /\ shared <= theirs

\* The match is on both chains, and no further below the point where they part
\* than that is below the top.
LEMMA MatchedFacts ==
  ASSUME ExchangeInv
  PROVE  LET m == Matched(build_get_headers(mine)) IN
         m \in Nat /\ m <= shared /\ m >= shared - (mine - shared)
<1> DEFINE l == build_get_headers(mine)
<1>1. mine \in Nat /\ theirs \in Nat /\ shared \in Nat /\ shared <= mine /\ shared <= theirs
  BY DEF ExchangeInv
<1>2. PICK n \in Nat :
        /\ DOMAIN l = 1 .. (n + 1)
        /\ l[1] = mine /\ l[n + 1] = 0
        /\ \A i \in 1 .. (n + 1) : l[i] \in Nat
        /\ \A i \in 1 .. n : l[i + 1] >= (l[i] - (mine - l[i])) - 2
  BY <1>1, LocatorFacts
<1> HIDE DEF l
<1> DEFINE S == {i \in DOMAIN l : l[i] <= shared /\ l[i] <= theirs}
           k == Min(S)
<1>3. S \in SUBSET Nat /\ n + 1 \in S
  BY <1>1, <1>2
<1>4. k \in S /\ \A i \in S : k <= i
  <2>1. S # {}
    BY <1>3
  <2> HIDE DEF S
  <2> QED
    BY <1>3, <2>1, LeastOf
<1>5. Matched(l) = l[k]
  BY DEF Matched
<1> HIDE DEF k
<1>6. k \in 1 .. (n + 1) /\ l[k] \in Nat /\ l[k] <= shared
  BY <1>2, <1>4
<1>7. l[k] >= shared - (mine - shared)
  <2>1. CASE k = 1
    BY <1>1, <1>2, <1>6, <2>1
  <2>2. CASE k # 1
    <3>1. k - 1 \in 1 .. n /\ k - 1 \in 1 .. (n + 1) /\ (k - 1) + 1 = k /\ ~(k <= k - 1)
      BY <1>6, <2>2
    <3>2. k - 1 \notin S
      BY <1>4, <3>1
    <3>3. l[k - 1] \in Nat /\ l[k - 1] > shared
      <4>1. k - 1 \in DOMAIN l /\ l[k - 1] \in Nat
        BY <1>2, <3>1
      <4>2. ~(l[k - 1] <= shared /\ l[k - 1] <= theirs)
        BY <3>2, <4>1
      <4> QED
        BY <1>1, <4>1, <4>2
    <3>4. l[k] >= (l[k - 1] - (mine - l[k - 1])) - 2
      BY <1>2, <3>1
    <3> QED
      BY <1>1, <1>6, <3>3, <3>4
  <2> QED
    BY <2>1, <2>2
<1> QED
  BY <1>5, <1>6, <1>7 DEF l

LEMMA AnswerFacts ==
  ASSUME ExchangeInv
  PROVE  LET a == respond_to_getheaders(build_get_headers(mine)) IN
         /\ a \in Seq(Nat)
         /\ a # <<>> =>
              /\ \A i \in 1 .. Len(a) - 1 : a[i + 1] = a[i] + 1
              /\ a[1] <= shared
              /\ Last(a) \in Nat /\ Last(a) < theirs
         /\ 2 * (mine - shared) < MostHeaders - 1 /\ theirs > mine + 1
              => a # <<>> /\ Last(a) > mine
<1> DEFINE m == Matched(build_get_headers(mine))
           ahead == theirs - m
           n == Min({ahead, MostHeaders})
           a == [i \in 1 .. n |-> m + i - 1]
<1>1. mine \in Nat /\ theirs \in Nat /\ shared \in Nat /\ shared <= mine /\ shared <= theirs
  BY DEF ExchangeInv
<1>2. respond_to_getheaders(build_get_headers(mine)) = a
  BY DEF respond_to_getheaders
<1>3. m \in Nat /\ m <= shared /\ m >= shared - (mine - shared)
  BY MatchedFacts
<1> HIDE DEF m
<1>4. MostHeaders \in Nat \ {0} /\ ahead \in Nat
  BY <1>1, <1>3, ExchangeAssumption
<1>5. n \in {ahead, MostHeaders} /\ n <= ahead /\ n <= MostHeaders
  <2>1. {ahead, MostHeaders} \in SUBSET Nat /\ {ahead, MostHeaders} # {}
    BY <1>4
  <2> QED
    BY <2>1, LeastOf
<1> HIDE DEF n
<1>6. n \in Nat
  BY <1>4, <1>5
<1>7. a \in [1 .. n -> Nat] /\ \A i \in 1 .. n : a[i] = m + i - 1
  BY <1>3, <1>6
<1>8. a \in Seq(Nat) /\ Len(a) = n
  BY <1>6, <1>7
<1> HIDE DEF a
<1>9. a # <<>> <=> n >= 1
  BY <1>6, <1>8
<1>10. n >= 1 => a[1] = m /\ Last(a) = m + n - 1
  BY <1>3, <1>6, <1>7, <1>8 DEF Last
<1>11. \A i \in 1 .. Len(a) - 1 : a[i + 1] = a[i] + 1
  BY <1>3, <1>6, <1>7, <1>8
<1>12. n >= 1 => a[1] <= shared /\ Last(a) \in Nat /\ Last(a) < theirs
  BY <1>1, <1>3, <1>4, <1>5, <1>6, <1>10
<1>13. ASSUME 2 * (mine - shared) < MostHeaders - 1, theirs > mine + 1
       PROVE  n >= 1 /\ Last(a) > mine
  <2>1. n >= 1
    BY <1>1, <1>3, <1>4, <1>5, <1>13
  <2>2. CASE n = ahead
    BY <1>1, <1>3, <1>10, <1>13, <2>1, <2>2
  <2>3. CASE n = MostHeaders
    BY <1>1, <1>3, <1>4, <1>10, <1>13, <2>1, <2>3
  <2> QED
    BY <1>5, <2>1, <2>2, <2>3
<1> QED
  BY <1>2, <1>8, <1>9, <1>11, <1>12, <1>13

LEMMA ExchangeStep ==
  ExchangeInv /\ HeadersLink /\ [ExchangeNext]_exchangeVars => ExchangeInv' /\ HeadersLink'
<1> SUFFICES ASSUME ExchangeInv, HeadersLink, [ExchangeNext]_exchangeVars
             PROVE  ExchangeInv' /\ HeadersLink'
  OBVIOUS
<1>1. CASE MineGrows
  BY <1>1 DEF MineGrows, ExchangeInv, HeadersLink
<1>2. CASE TheirsGrows
  BY <1>2 DEF TheirsGrows, ExchangeInv, HeadersLink
<1>3. CASE Exchange
  <2> DEFINE a == respond_to_getheaders(build_get_headers(mine))
             top == IF a = <<>> THEN 0 ELSE Last(a)
  <2>1. /\ answer' = a /\ theirs' = theirs
        /\ askedAt' = [mine |-> mine, theirs |-> theirs, shared |-> shared]
        /\ mine' = (IF top >= mine THEN top ELSE mine)
        /\ shared' = (IF top >= mine THEN top ELSE shared)
    BY <1>3 DEF Exchange
  <2>2. /\ a \in Seq(Nat)
        /\ a # <<>> =>
             /\ \A i \in 1 .. Len(a) - 1 : a[i + 1] = a[i] + 1
             /\ a[1] <= shared
             /\ Last(a) \in Nat /\ Last(a) < theirs
        /\ 2 * (mine - shared) < MostHeaders - 1 /\ theirs > mine + 1
             => a # <<>> /\ Last(a) > mine
    BY AnswerFacts
  <2> HIDE DEF a
  <2>3. top \in Nat /\ top <= theirs
    BY <2>2 DEF ExchangeInv
  <2> HIDE DEF top
  <2>4. ExchangeInv'
    BY <2>1, <2>3 DEF ExchangeInv
  <2>5. askedAt'.mine = mine /\ askedAt'.theirs = theirs /\ askedAt'.shared = shared
    BY <2>1
  <2>6. HeadersLink'
    BY <2>1, <2>2, <2>5 DEF HeadersLink, NoAnswer
  <2> QED
    BY <2>4, <2>6
<1>4. CASE UNCHANGED exchangeVars
  BY <1>4 DEF exchangeVars, ExchangeInv, HeadersLink
<1> QED
  BY <1>1, <1>2, <1>3, <1>4 DEF ExchangeNext

\* build_get_headers and respond_to_getheaders, for every number of dense
\* entries, every length of an answer and chains of any height: answers are
\* consecutive headers that start at one both nodes have, and bring something
\* new unless the fork is too deep for one answer.
THEOREM AnswersLink == ExchangeSpec => []HeadersLink
<1>1. ExchangeInit => ExchangeInv /\ HeadersLink
  BY DEF ExchangeInit, ExchangeInv, HeadersLink
<1> QED
  BY <1>1, ExchangeStep, PTL DEF ExchangeSpec

---------------------------------------------------------------------------
(* The body of a block. *)

\* Levels satisfies the equation that defines it.
LEMMA LevelsDef ==
  ASSUME NEW leaves, Len(leaves) \in Nat
  PROVE  Levels(leaves) = [i \in 0 .. Len(leaves) |->
                             IF i = 0 THEN leaves ELSE Above(Levels(leaves)[i - 1])]
<1> DEFINE Value(g, i) == IF i = 0 THEN leaves ELSE Above(g[i - 1])
           Is(n, g) == g = [i \in 0 .. n |-> Value(g, i)]
           T == {n \in Nat : \E g : Is(n, g)}
<1>1. 0 \in T
  <2> DEFINE g == [i \in 0 .. 0 |-> leaves]
  <2>1. Is(0, g)
    OBVIOUS
  <2> QED
    BY <2>1
<1>2. ASSUME NEW n \in Nat, n \in T
      PROVE  n + 1 \in T
  <2>1. PICK g : Is(n, g)
    BY <1>2
  <2> DEFINE h == [i \in 0 .. (n + 1) |-> IF i <= n THEN g[i] ELSE Above(g[n])]
  <2>2. \A i \in 0 .. n : g[i] = Value(g, i)
    BY <2>1
  <2>3. ASSUME NEW i \in 0 .. (n + 1)
        PROVE  h[i] = Value(h, i)
    <3>1. CASE i = 0
      BY <3>1, <2>2
    <3>2. CASE i \in 1 .. n
      <4>1. i - 1 \in 0 .. n /\ i - 1 \in 0 .. (n + 1)
        BY <3>2
      <4>2. h[i] = g[i] /\ h[i - 1] = g[i - 1]
        BY <4>1, <3>2
      <4> QED
        BY <4>2, <2>2, <3>2
    <3>3. CASE i = n + 1
      <4>1. h[n] = g[n] /\ i - 1 = n /\ i # 0
        BY <3>3
      <4> QED
        BY <4>1, <3>3
    <3> QED
      BY <3>1, <3>2, <3>3
  <2>4. h = [i \in 0 .. (n + 1) |-> h[i]]
    OBVIOUS
  <2> HIDE DEF h
  <2>5. Is(n + 1, h)
    BY <2>3, <2>4
  <2> QED
    BY <2>5
<1>3. Nat \subseteq T
  <2> HIDE DEF T
  <2> QED
    BY <1>1, <1>2, NaturalsInSet
<1>4. \E g : Is(Len(leaves), g)
  BY <1>3
<1> QED
  BY <1>4 DEF Levels

\* The first level, and each from the one below.
LEMMA LevelsStep ==
  ASSUME NEW leaves, Len(leaves) \in Nat
  PROVE  /\ Levels(leaves)[0] = leaves
         /\ \A i \in 1 .. Len(leaves) : Levels(leaves)[i] = Above(Levels(leaves)[i - 1])
<1> DEFINE R == Levels(leaves)
           n == Len(leaves)
           Value(i) == IF i = 0 THEN leaves ELSE Above(R[i - 1])
<1>1. R = [i \in 0 .. n |-> Value(i)]
  BY LevelsDef
<1> HIDE DEF R, Value, n
<1>2. \A i \in 0 .. n : R[i] = Value(i)
  BY <1>1
<1>0. n \in Nat
  BY DEF n
<1>3. R[0] = leaves
  BY <1>0, <1>2 DEF Value
<1>4. ASSUME NEW i \in 1 .. n
      PROVE  R[i] = Above(R[i - 1])
  <2>1. i \in 0 .. n /\ i # 0
    BY <1>0
  <2>2. R[i] = Value(i)
    BY <2>1, <1>2
  <2> QED
    BY <2>1, <2>2, Zenon DEF Value
<1> QED
  BY <1>3, <1>4 DEF R, n

\* A list of no matter what.
IsList(s, n) == n \in Nat /\ Len(s) = n /\ s = [i \in 1 .. n |-> s[i]]

\* A function given position by position is the list it looks like.
LEMMA MakeList ==
  ASSUME NEW n \in Nat, NEW s, s = [i \in 1 .. n |-> s[i]]
  PROVE  IsList(s, n) /\ \E U : s \in Seq(U)
<1> DEFINE U == {s[i] : i \in 1 .. n}
<1>1. s \in [1 .. n -> U]
  BY Zenon
<1> HIDE DEF U
<1>2. s \in Seq(U) /\ Len(s) = n
  BY <1>1
<1> QED
  BY <1>2 DEF IsList

\* A sequence is a list of its length.
LEMMA SeqIsList ==
  ASSUME NEW U, NEW s \in Seq(U)
  PROVE  IsList(s, Len(s)) /\ Len(s) \in Nat /\ \A i \in 1 .. Len(s) : s[i] \in U
<1>1. Len(s) \in Nat /\ s \in [1 .. Len(s) -> U]
  BY LenProperties
<1> QED
  BY <1>1 DEF IsList

\* Lists that agree at every position are equal.
LEMMA SameList ==
  ASSUME NEW n, NEW s, NEW t, IsList(s, n), IsList(t, n), \A i \in 1 .. n : s[i] = t[i]
  PROVE  s = t
<1>1. s = [i \in 1 .. n |-> s[i]] /\ t = [i \in 1 .. n |-> t[i]]
  BY DEF IsList
<1> QED
  BY <1>1

\* p is half of the length, rounded up.
LEMMA PaddedFacts ==
  ASSUME NEW n \in Nat, NEW s, IsList(s, n), n >= 1
  PROVE  \E p \in Nat :
           /\ p >= 1 /\ n \in {2 * p - 1, 2 * p}
           /\ IsList(Padded(s), 2 * p)
           /\ \A i \in 1 .. n : Padded(s)[i] = s[i]
           /\ n = 2 * p - 1 => Padded(s)[2 * p] = s[n]
<1>1. Len(s) = n /\ s = [i \in 1 .. n |-> s[i]]
  BY DEF IsList
<1>2. PICK U : s \in Seq(U)
  BY <1>1, MakeList
<1>3. n % 2 \in {0, 1} /\ n \div 2 \in Nat /\ n = 2 * (n \div 2) + (n % 2)
  OBVIOUS
<1>4. CASE n % 2 = 1
  <2> DEFINE p == (n \div 2) + 1
             q == Append(s, Last(s))
  <2>1. p \in Nat /\ p >= 1 /\ n = 2 * p - 1 /\ 2 * p = n + 1
    BY <1>3, <1>4
  <2>2. Padded(s) = q
    BY <1>1, <1>4 DEF Padded
  <2>3. Last(s) = s[n] /\ s[n] \in U
    BY <1>1, <1>2 DEF Last
  <2>4. q \in Seq(U) /\ Len(q) = n + 1 /\ (\A i \in 1 .. n : q[i] = s[i]) /\ q[n + 1] = s[n]
    BY <1>1, <1>2, <2>3, AppendProperties
  <2> HIDE DEF q, p
  <2>5. IsList(q, 2 * p)
    BY <2>1, <2>4, SeqIsList
  <2> QED
    BY <2>1, <2>2, <2>4, <2>5
<1>5. CASE n % 2 = 0
  <2> DEFINE p == n \div 2
  <2>1. p \in Nat /\ p >= 1 /\ n = 2 * p
    BY <1>3, <1>5
  <2>2. Padded(s) = s
    BY <1>1, <1>5 DEF Padded
  <2> HIDE DEF p
  <2> QED
    BY <2>1, <2>2
<1> QED
  BY <1>3, <1>4, <1>5

\* Each hash of the collapsed level is of two neighbours.
LEMMA CollapseFacts ==
  ASSUME NEW p \in Nat, NEW s, IsList(s, 2 * p)
  PROVE  /\ IsList(collapse(s), p)
         /\ \A i \in 1 .. p : collapse(s)[i] = <<s[2 * i - 1], s[2 * i]>>
<1>1. Len(s) = 2 * p /\ (2 * p) \div 2 = p
  BY DEF IsList
<1> DEFINE c == [i \in 1 .. p |-> <<s[2 * i - 1], s[2 * i]>>]
<1>2. collapse(s) = c
  BY <1>1 DEF collapse
<1>3. c = [i \in 1 .. p |-> c[i]]
  OBVIOUS
<1>4. \A i \in 1 .. p : c[i] = <<s[2 * i - 1], s[2 * i]>>
  OBVIOUS
<1> HIDE DEF c
<1> QED
  BY <1>2, <1>3, <1>4, MakeList

\* Hashes above the leaves are pairs.
IsPair(h) == \E x, y : h = <<x, y>>

\* A level of n hashes has p above it, each the pair of two of them, the last
\* perhaps of one hash twice.
LEMMA AboveFacts ==
  ASSUME NEW n \in Nat, NEW s, IsList(s, n), n >= 2
  PROVE  \E p \in Nat :
           /\ p >= 1 /\ p < n /\ n \in {2 * p - 1, 2 * p}
           /\ IsList(Above(s), p)
           /\ \A i \in 1 .. p : /\ IsPair(Above(s)[i])
                                /\ Above(s)[i] = <<Padded(s)[2 * i - 1], Padded(s)[2 * i]>>
<1>1. PICK p \in Nat : p >= 1 /\ n \in {2 * p - 1, 2 * p} /\ IsList(Padded(s), 2 * p)
  BY PaddedFacts
<1>2. Above(s) = collapse(Padded(s))
  BY DEF Above, IsList
<1>3. /\ IsList(Above(s), p)
      /\ \A i \in 1 .. p : Above(s)[i] = <<Padded(s)[2 * i - 1], Padded(s)[2 * i]>>
  BY <1>1, <1>2, CollapseFacts
<1>4. p < n
  BY <1>1
<1>5. \A i \in 1 .. p : IsPair(Above(s)[i])
  BY <1>3 DEF IsPair
<1> QED
  BY <1>1, <1>3, <1>4, <1>5

\* Two levels without equal neighbours that have the same level above them are
\* the same, whether or not the last hash was repeated.
LEMMA AboveInjective ==
  ASSUME NEW n \in Nat, NEW m \in Nat, n >= 2, m >= 2, NEW s, NEW t, IsList(s, n), IsList(t, m),
         ~SameNeighbours(s), ~SameNeighbours(t), Above(s) = Above(t)
  PROVE  n = m /\ s = t
<1> DEFINE P == Padded(s)
           Q == Padded(t)
<1>1. PICK p \in Nat : /\ p >= 1 /\ n \in {2 * p - 1, 2 * p} /\ IsList(P, 2 * p)
                       /\ \A i \in 1 .. n : P[i] = s[i]
                       /\ n = 2 * p - 1 => P[2 * p] = s[n]
  BY PaddedFacts
<1>2. PICK q \in Nat : /\ q >= 1 /\ m \in {2 * q - 1, 2 * q} /\ IsList(Q, 2 * q)
                       /\ \A i \in 1 .. m : Q[i] = t[i]
                       /\ m = 2 * q - 1 => Q[2 * q] = t[m]
  BY PaddedFacts
<1>3. Above(s) = collapse(P) /\ Above(t) = collapse(Q)
  BY DEF Above, IsList
<1> HIDE DEF P, Q
<1>4. /\ IsList(collapse(P), p) /\ \A i \in 1 .. p : collapse(P)[i] = <<P[2 * i - 1], P[2 * i]>>
      /\ IsList(collapse(Q), q) /\ \A i \in 1 .. q : collapse(Q)[i] = <<Q[2 * i - 1], Q[2 * i]>>
  BY <1>1, <1>2, CollapseFacts
<1>5. p = q
  BY <1>3, <1>4 DEF IsList
<1>6. \A i \in 1 .. p : P[2 * i - 1] = Q[2 * i - 1] /\ P[2 * i] = Q[2 * i]
  <2> SUFFICES ASSUME NEW i \in 1 .. p
               PROVE  P[2 * i - 1] = Q[2 * i - 1] /\ P[2 * i] = Q[2 * i]
    OBVIOUS
  <2>1. <<P[2 * i - 1], P[2 * i]>> = <<Q[2 * i - 1], Q[2 * i]>>
    BY <1>3, <1>4, <1>5
  <2> QED
    BY <2>1
<1>7. ASSUME NEW j \in 1 .. (2 * p)
      PROVE  P[j] = Q[j]
  <2>1. CASE j % 2 = 0
    <3>1. j \div 2 \in 1 .. p /\ 2 * (j \div 2) = j
      BY <2>1
    <3> QED
      BY <1>6, <3>1
  <2>2. CASE j % 2 = 1
    <3>1. (j \div 2) + 1 \in 1 .. p /\ 2 * ((j \div 2) + 1) - 1 = j
      BY <2>2
    <3> QED
      BY <1>6, <3>1
  <2>3. j % 2 \in {0, 1}
    OBVIOUS
  <2> QED
    BY <2>1, <2>2, <2>3
<1>8. Len(s) = n /\ Len(t) = m
  BY DEF IsList
<1>9. CASE n = m
  <2>1. \A i \in 1 .. n : i \in 1 .. (2 * p)
    BY <1>1
  <2>2. \A i \in 1 .. n : s[i] = t[i]
    BY <1>1, <1>2, <1>7, <1>9, <2>1
  <2> QED
    BY <1>9, <2>2, SameList
<1>10. CASE n # m
  <2>1. \/ n = 2 * p - 1 /\ m = 2 * p
        \/ n = 2 * p /\ m = 2 * p - 1
    BY <1>1, <1>2, <1>5, <1>10
  <2>2. 2 * p \in 1 .. (2 * p) /\ 2 * p - 1 \in 1 .. (2 * p) /\ (2 * p - 1) + 1 = 2 * p
    BY <1>1
  <2>3. P[2 * p] = Q[2 * p] /\ P[2 * p - 1] = Q[2 * p - 1]
    BY <1>7, <2>2
  <2>4. CASE n = 2 * p - 1 /\ m = 2 * p
    <3>1. P[2 * p] = s[n] /\ P[n] = s[n] /\ Q[2 * p] = t[2 * p] /\ Q[2 * p - 1] = t[2 * p - 1]
      BY <1>1, <1>2, <2>2, <2>4
    <3>2. t[2 * p - 1] = t[(2 * p - 1) + 1]
      BY <2>2, <2>3, <2>4, <3>1
    <3>3. 2 * p - 1 \in 1 .. Len(t) - 1
      BY <1>1, <1>8, <2>4
    <3> QED
      BY <3>2, <3>3 DEF SameNeighbours
  <2>5. CASE n = 2 * p /\ m = 2 * p - 1
    <3>1. Q[2 * p] = t[m] /\ Q[m] = t[m] /\ P[2 * p] = s[2 * p] /\ P[2 * p - 1] = s[2 * p - 1]
      BY <1>1, <1>2, <1>5, <2>2, <2>5
    <3>2. s[2 * p - 1] = s[(2 * p - 1) + 1]
      BY <2>2, <2>3, <2>5, <3>1
    <3>3. 2 * p - 1 \in 1 .. Len(s) - 1
      BY <1>1, <1>8, <2>5
    <3> QED
      BY <3>2, <3>3 DEF SameNeighbours
  <2> QED
    BY <2>1, <2>4, <2>5
<1> QED
  BY <1>9, <1>10

Shorter(l, n, i) == \E k \in Nat : IsList(l, k) /\ k >= 1 /\ (k <= n - i \/ k = 1)

\* Every level is a list, shorter than the one before until there is one hash.
LEMMA LevelLists ==
  ASSUME NEW n \in Nat, n >= 1, NEW s, IsList(s, n)
  PROVE  \A i \in 0 .. n : Shorter(Levels(s)[i], n, i)
<1> DEFINE R == Levels(s)
           T == {i \in Nat : i <= n => Shorter(R[i], n, i)}
<1>1. Len(s) = n
  BY DEF IsList
<1>2. R[0] = s /\ \A i \in 1 .. n : R[i] = Above(R[i - 1])
  BY <1>1, LevelsStep
<1> HIDE DEF R
<1>3. 0 \in T
  BY <1>2 DEF Shorter
<1>4. ASSUME NEW i \in Nat, i \in T
      PROVE  i + 1 \in T
  <2> SUFFICES ASSUME i + 1 <= n
               PROVE  Shorter(R[i + 1], n, i + 1)
    OBVIOUS
  <2>1. PICK k \in Nat : IsList(R[i], k) /\ k >= 1 /\ (k <= n - i \/ k = 1)
    BY <1>4 DEF Shorter
  <2>2. i + 1 \in 1 .. n /\ (i + 1) - 1 = i
    OBVIOUS
  <2>3. R[i + 1] = Above(R[i])
    BY <1>2, <2>2
  <2>4. CASE k = 1
    <3>1. Above(R[i]) = R[i]
      BY <2>1, <2>4 DEF Above, IsList
    <3> QED
      BY <2>1, <2>3, <2>4, <3>1 DEF Shorter
  <2>5. CASE k >= 2
    <3>1. PICK p \in Nat : p >= 1 /\ p < k /\ IsList(Above(R[i]), p)
      BY <2>1, <2>5, AboveFacts
    <3>2. p <= n - (i + 1) \/ p = 1
      BY <2>1, <2>5, <3>1
    <3> QED
      BY <2>3, <3>1, <3>2 DEF Shorter
  <2> QED
    BY <2>1, <2>4, <2>5
<1>5. Nat \subseteq T
  <2> HIDE DEF T
  <2> QED
    BY <1>3, <1>4, NaturalsInSet
<1> QED
  BY <1>5 DEF R

\* The loop of into_root ends after d rounds, with the root.
Depth(s, n, d) ==
  /\ d \in 0 .. n /\ IsList(Levels(s)[d], 1)
  /\ \A i \in 0 .. (d - 1) : \E k \in Nat : k >= 2 /\ IsList(Levels(s)[i], k)
  /\ \A i \in d .. n : Levels(s)[i] = Levels(s)[d]

\* Some level is the first with a single hash.
LEMMA TreeHasDepth ==
  ASSUME NEW n \in Nat, n >= 1, NEW s, IsList(s, n)
  PROVE  \E d \in Nat : Depth(s, n, d)
<1> DEFINE R == Levels(s)
           ends == {i \in 0 .. n : Len(R[i]) = 1}
<1>1. Len(s) = n
  BY DEF IsList
<1>2. \A i \in 1 .. n : R[i] = Above(R[i - 1])
  BY <1>1, LevelsStep
<1>0. \A i \in 0 .. n : Shorter(R[i], n, i)
  BY LevelLists
<1> HIDE DEF R
<1>3. \A i \in 0 .. n : \E k \in Nat : IsList(R[i], k) /\ k >= 1 /\ (k <= n - i \/ k = 1)
  BY <1>0 DEF Shorter
<1>4. n \in ends
  <2>1. PICK k \in Nat : IsList(R[n], k) /\ k >= 1 /\ (k <= n - n \/ k = 1)
    BY <1>3
  <2>2. k = 1
    BY <2>1
  <2> QED
    BY <2>1, <2>2 DEF IsList
<1>5. PICK d \in ends : \A e \in ends : d <= e
  <2>1. ends \in SUBSET Nat /\ ends # {}
    BY <1>4
  <2> HIDE DEF ends
  <2> QED
    BY <2>1, LeastNatural
<1>6. d \in 0 .. n /\ Len(R[d]) = 1
  BY <1>5
<1>7. IsList(R[d], 1)
  BY <1>3, <1>6 DEF IsList
<1>8. ASSUME NEW i \in 0 .. (d - 1)
      PROVE  \E k \in Nat : k >= 2 /\ IsList(R[i], k)
  <2>1. i \in 0 .. n /\ ~(d <= i)
    BY <1>6
  <2>2. i \notin ends
    BY <1>5, <2>1
  <2>3. PICK k \in Nat : IsList(R[i], k) /\ k >= 1
    BY <1>3, <2>1
  <2>4. k # 1
    BY <2>1, <2>2, <2>3 DEF IsList
  <2> QED
    BY <2>3, <2>4
<1>9. \A i \in d .. n : R[i] = R[d]
  <2> DEFINE T == {j \in Nat : d + j <= n => R[d + j] = R[d]}
  <2>1. 0 \in T
    BY <1>6
  <2>2. ASSUME NEW j \in Nat, j \in T
        PROVE  j + 1 \in T
    <3> SUFFICES ASSUME d + (j + 1) <= n
                 PROVE  R[d + (j + 1)] = R[d]
      OBVIOUS
    <3>1. d + (j + 1) \in 1 .. n /\ (d + (j + 1)) - 1 = d + j /\ d + j <= n
      BY <1>6
    <3>2. R[d + j] = R[d] /\ R[d + (j + 1)] = Above(R[d + j])
      BY <1>2, <2>2, <3>1
    <3>3. Above(R[d]) = R[d]
      BY <1>6 DEF Above
    <3> QED
      BY <3>2, <3>3
  <2>3. Nat \subseteq T
    <3> HIDE DEF T
    <3> QED
      BY <2>1, <2>2, NaturalsInSet
  <2>4. ASSUME NEW i \in d .. n
        PROVE  R[i] = R[d]
    <3>1. i - d \in Nat /\ d + (i - d) = i /\ d + (i - d) <= n
      BY <1>6
    <3> QED
      BY <2>3, <3>1
  <2> QED
    BY <2>4
<1> QED
  BY <1>6, <1>7, <1>8, <1>9 DEF R, Depth

Unmutated(s, n) == \A i \in 0 .. n : ~SameNeighbours(Levels(s)[i])

Tree(s, n, d) == n >= 1 /\ IsList(s, n) /\ Unmutated(s, n) /\ Depth(s, n, d)

\* Two trees with the same root, compared level by level from the top down.
LEMMA SameLevels ==
  ASSUME NEW n \in Nat, NEW s, NEW d \in Nat, Tree(s, n, d),
         NEW m \in Nat, NEW t, NEW e \in Nat, Tree(t, m, e),
         d <= e, Levels(s)[n][1] = Levels(t)[m][1]
  PROVE  Levels(s)[0] = Levels(t)[e - d]
<1> DEFINE A == Levels(s)
           B == Levels(t)
           T == {k \in Nat : k <= d => A[d - k] = B[e - k]}
<1>1. d \in 0 .. n /\ IsList(A[d], 1) /\ A[n] = A[d] /\ e \in 0 .. m /\ IsList(B[e], 1) /\ B[m] = B[e]
  BY DEF Tree, Depth
<1>2. /\ \A i \in 0 .. (d - 1) : \E k \in Nat : k >= 2 /\ IsList(A[i], k)
      /\ \A i \in 0 .. (e - 1) : \E k \in Nat : k >= 2 /\ IsList(B[i], k)
  BY DEF Tree, Depth
<1>3. Len(s) = n /\ Len(t) = m
  BY DEF Tree, IsList
<1>4. (\A i \in 1 .. n : A[i] = Above(A[i - 1])) /\ (\A i \in 1 .. m : B[i] = Above(B[i - 1]))
  BY <1>3, LevelsStep
<1>5. (\A i \in 0 .. n : ~SameNeighbours(A[i])) /\ (\A i \in 0 .. m : ~SameNeighbours(B[i]))
  BY DEF Tree, Unmutated
<1>6. A[d][1] = B[e][1]
  BY <1>1
<1> HIDE DEF A, B
<1>7. 0 \in T
  <2>1. A[d] = B[e]
    BY <1>1, <1>6, SameList
  <2>2. d - 0 = d /\ e - 0 = e
    OBVIOUS
  <2> QED
    BY <2>1, <2>2
<1>8. ASSUME NEW k \in Nat, k \in T
      PROVE  k + 1 \in T
  <2> SUFFICES ASSUME k + 1 <= d
               PROVE  A[d - (k + 1)] = B[e - (k + 1)]
    OBVIOUS
  <2> DEFINE i == d - (k + 1)
             j == e - (k + 1)
  <2>1. /\ i \in 0 .. (d - 1) /\ i \in 0 .. n /\ d - k \in 1 .. n /\ (d - k) - 1 = i
        /\ j \in 0 .. (e - 1) /\ j \in 0 .. m /\ e - k \in 1 .. m /\ (e - k) - 1 = j
    BY <1>1
  <2>2. A[d - k] = B[e - k]
    BY <1>8
  <2>3. Above(A[i]) = Above(B[j])
    BY <1>4, <2>1, <2>2
  <2>4. PICK a \in Nat : a >= 2 /\ IsList(A[i], a)
    BY <1>2, <2>1
  <2>5. PICK b \in Nat : b >= 2 /\ IsList(B[j], b)
    BY <1>2, <2>1
  <2>6. ~SameNeighbours(A[i]) /\ ~SameNeighbours(B[j])
    BY <1>5, <2>1
  <2> HIDE DEF i, j
  <2>7. A[i] = B[j]
    BY <2>3, <2>4, <2>5, <2>6, AboveInjective
  <2> QED
    BY <2>7 DEF i, j
<1>9. Nat \subseteq T
  <2> HIDE DEF T
  <2> QED
    BY <1>7, <1>8, NaturalsInSet
<1>10. A[d - d] = B[e - d]
  BY <1>9
<1> QED
  BY <1>10 DEF A, B

\* One tree cannot end where the other has a leaf.
LEMMA SameTree ==
  ASSUME NEW n \in Nat, NEW s, NEW d \in Nat, Tree(s, n, d),
         NEW m \in Nat, NEW t, NEW e \in Nat, Tree(t, m, e),
         d <= e, Levels(s)[n][1] = Levels(t)[m][1],
         ~IsPair(s[1])
  PROVE  s = t
<1>1. Levels(s)[0] = Levels(t)[e - d]
  BY SameLevels
<1>2. Len(s) = n /\ Len(t) = m
  BY DEF Tree, IsList
<1>3. Levels(s)[0] = s /\ Levels(t)[0] = t /\ \A i \in 1 .. m : Levels(t)[i] = Above(Levels(t)[i - 1])
  BY <1>2, LevelsStep
<1>4. CASE d = e
  <2>1. e - d = 0
    BY <1>4
  <2> QED
    BY <1>1, <1>3, <2>1
<1>5. CASE d # e
  <2> DEFINE j == (e - d) - 1
             l == Levels(t)[j]
  <2>1. e \in 0 .. m /\ \A i \in 0 .. (e - 1) : \E k \in Nat : k >= 2 /\ IsList(Levels(t)[i], k)
    BY DEF Tree, Depth
  <2>2. j \in 0 .. (e - 1) /\ e - d \in 1 .. m
    BY <1>5, <2>1
  <2>3. PICK k \in Nat : k >= 2 /\ IsList(l, k)
    BY <2>1, <2>2
  <2>4. s = Above(l)
    BY <1>1, <1>3, <2>2
  <2> HIDE DEF l, j
  <2>5. IsPair(Above(l)[1])
    BY <2>3, AboveFacts
  <2> QED
    BY <2>4, <2>5
<1> QED
  BY <1>4, <1>5

\* into_root, on leaves that are no hashes of pairs: without equal neighbours on
\* any level, the root determines the list.
LEMMA RootInjective ==
  ASSUME NEW n \in Nat, n >= 1, NEW s, IsList(s, n), ~IsPair(s[1]), ~into_root(s).mutated,
         NEW m \in Nat, m >= 1, NEW t, IsList(t, m), ~IsPair(t[1]), ~into_root(t).mutated,
         into_root(s).hash = into_root(t).hash
  PROVE  s = t
<1>1. Len(s) = n /\ Len(t) = m /\ s # <<>> /\ t # <<>>
  BY DEF IsList
<1>2. /\ into_root(s) = [hash |-> Levels(s)[n][1],
                         mutated |-> \E i \in 0 .. n : SameNeighbours(Levels(s)[i])]
      /\ into_root(t) = [hash |-> Levels(t)[m][1],
                         mutated |-> \E i \in 0 .. m : SameNeighbours(Levels(t)[i])]
  BY <1>1 DEF into_root
<1>3. Levels(s)[n][1] = Levels(t)[m][1]
  BY <1>2
<1>4. Unmutated(s, n) /\ Unmutated(t, m)
  BY <1>2 DEF Unmutated
<1>5. PICK d \in Nat : Depth(s, n, d)
  BY TreeHasDepth
<1>6. PICK e \in Nat : Depth(t, m, e)
  BY TreeHasDepth
<1>0. Tree(s, n, d) /\ Tree(t, m, e)
  BY <1>4, <1>5, <1>6 DEF Tree
<1>7. CASE d <= e
  BY <1>0, <1>3, <1>7, SameTree
<1>8. CASE e <= d
  BY <1>0, <1>3, <1>8, SameTree
<1> QED
  BY <1>7, <1>8

\* A list of different leaves has no equal neighbours on any level.
NoRepeats(s, n) == IsList(s, n) /\ \A i, j \in 1 .. n : i # j => s[i] # s[j]

\* Above a level of hashes that differ pairwise they differ pairwise as well.
LEMMA NoRepeatsAbove ==
  ASSUME NEW n \in Nat, n >= 2, NEW s, NoRepeats(s, n)
  PROVE  \E p \in Nat : p >= 1 /\ NoRepeats(Above(s), p)
<1> DEFINE P == Padded(s)
<1>1. IsList(s, n) /\ \A i, j \in 1 .. n : i # j => s[i] # s[j]
  BY DEF NoRepeats
<1>2. PICK p \in Nat : /\ p >= 1 /\ n \in {2 * p - 1, 2 * p} /\ IsList(P, 2 * p)
                       /\ \A i \in 1 .. n : P[i] = s[i]
  BY <1>1, PaddedFacts
<1>3. Above(s) = collapse(P)
  BY <1>1 DEF Above, IsList
<1> HIDE DEF P
<1>4. IsList(collapse(P), p) /\ \A i \in 1 .. p : collapse(P)[i] = <<P[2 * i - 1], P[2 * i]>>
  BY <1>2, CollapseFacts
<1>5. ASSUME NEW i \in 1 .. p, NEW j \in 1 .. p, i # j
      PROVE  collapse(P)[i] # collapse(P)[j]
  <2>1. 2 * i - 1 \in 1 .. n /\ 2 * j - 1 \in 1 .. n /\ 2 * i - 1 # 2 * j - 1
    BY <1>2, <1>5
  <2>2. P[2 * i - 1] # P[2 * j - 1]
    BY <1>1, <1>2, <2>1
  <2> QED
    BY <1>4, <2>2
<1> QED
  BY <1>2, <1>3, <1>4, <1>5 DEF NoRepeats

Distinct(s) == \E k \in Nat : k >= 1 /\ NoRepeats(s, k)

\* A tree over different leaves repeats no neighbour on any level.
LEMMA DistinctUnmutated ==
  ASSUME NEW n \in Nat, n >= 1, NEW s, NoRepeats(s, n)
  PROVE  ~into_root(s).mutated
<1> DEFINE R == Levels(s)
           T == {i \in Nat : i <= n => Distinct(R[i])}
<1>1. IsList(s, n) /\ Len(s) = n /\ s # <<>>
  BY DEF NoRepeats, IsList
<1>2. R[0] = s /\ \A i \in 1 .. n : R[i] = Above(R[i - 1])
  BY <1>1, LevelsStep
<1>3. into_root(s) = [hash |-> R[n][1], mutated |-> \E i \in 0 .. n : SameNeighbours(R[i])]
  BY <1>1 DEF into_root
<1> HIDE DEF R
<1>4. 0 \in T
  BY <1>2 DEF Distinct
<1>5. ASSUME NEW i \in Nat, i \in T
      PROVE  i + 1 \in T
  <2> SUFFICES ASSUME i + 1 <= n
               PROVE  Distinct(R[i + 1])
    OBVIOUS
  <2>1. PICK k \in Nat : k >= 1 /\ NoRepeats(R[i], k)
    BY <1>5 DEF Distinct
  <2>2. i + 1 \in 1 .. n /\ (i + 1) - 1 = i
    OBVIOUS
  <2>3. R[i + 1] = Above(R[i])
    BY <1>2, <2>2
  <2>4. CASE k = 1
    <3>1. Above(R[i]) = R[i]
      BY <2>1, <2>4 DEF Above, IsList, NoRepeats
    <3> QED
      BY <2>1, <2>3, <3>1 DEF Distinct
  <2>5. CASE k >= 2
    BY <2>1, <2>3, <2>5, NoRepeatsAbove DEF Distinct
  <2> QED
    BY <2>1, <2>4, <2>5
<1>6. Nat \subseteq T
  <2> HIDE DEF T
  <2> QED
    BY <1>4, <1>5, NaturalsInSet
<1>7. ASSUME NEW i \in 0 .. n
      PROVE  ~SameNeighbours(R[i])
  <2>1. PICK k \in Nat : k >= 1 /\ NoRepeats(R[i], k)
    BY <1>6 DEF Distinct
  <2>2. Len(R[i]) = k /\ \A a, b \in 1 .. k : a # b => R[i][a] # R[i][b]
    BY <2>1 DEF NoRepeats, IsList
  <2>3. \A a \in 1 .. k - 1 : a \in 1 .. k /\ a + 1 \in 1 .. k /\ a # a + 1
    OBVIOUS
  <2> QED
    BY <2>2, <2>3 DEF SameNeighbours
<1> QED
  BY <1>3, <1>7

Bodies == Seq(Nat \X Nat)

\* What Mine makes.
Authentic(a) ==
  \E n \in Nat \ {0}, c \in BOOLEAN :
    a = [txs |-> [i \in 1 .. n |-> <<i, IF c THEN i % 2 ELSE 0>>], committed |-> c]

\* The leaves of a body, of its transactions and of its witnesses.
LEMMA LeafFacts ==
  ASSUME NEW body \in Bodies, body # <<>>
  PROVE  LET n == Len(body) IN
         /\ n \in Nat /\ n >= 1 /\ IsList(body, n) /\ \A i \in 1 .. n : body[i] \in Nat \X Nat
         /\ IsList(TxLeaves(body), n) /\ ~IsPair(TxLeaves(body)[1])
         /\ \A i \in 1 .. n : TxLeaves(body)[i] = <<body[i][1]>>
         /\ IsList(WitnessLeaves(body), n) /\ ~IsPair(WitnessLeaves(body)[1])
         /\ WitnessLeaves(body)[1] = <<-1>>
         /\ \A i \in 2 .. n : WitnessLeaves(body)[i] = <<10 * body[i][1] + body[i][2]>>
<1> DEFINE n == Len(body)
           x == TxLeaves(body)
           w == WitnessLeaves(body)
<1>1. n \in Nat /\ n >= 1 /\ IsList(body, n) /\ DOMAIN body = 1 .. n /\ \A i \in 1 .. n : body[i] \in Nat \X Nat
  BY SeqIsList, LenProperties, EmptySeq DEF Bodies
<1>2. x = [i \in 1 .. n |-> <<body[i][1]>>]
  BY <1>1 DEF TxLeaves, TxHash
<1>3. w = [i \in 1 .. n |-> IF i = 1 THEN <<-1>> ELSE <<10 * body[i][1] + body[i][2]>>]
  BY <1>1 DEF WitnessLeaves, WitnessHash, EmptyHash
<1> HIDE DEF x, w, n
<1>4. IsList(x, n) /\ \A i \in 1 .. n : x[i] = <<body[i][1]>>
  <2>1. x = [i \in 1 .. n |-> x[i]] /\ \A i \in 1 .. n : x[i] = <<body[i][1]>>
    BY <1>2
  <2> QED
    BY <1>1, <2>1, MakeList
<1>5. /\ IsList(w, n)
      /\ \A i \in 1 .. n : w[i] = IF i = 1 THEN <<-1>> ELSE <<10 * body[i][1] + body[i][2]>>
  <2>1. /\ w = [i \in 1 .. n |-> w[i]]
        /\ \A i \in 1 .. n : w[i] = IF i = 1 THEN <<-1>> ELSE <<10 * body[i][1] + body[i][2]>>
    BY <1>3
  <2> QED
    BY <1>1, <2>1, MakeList
<1>6. 1 \in 1 .. n /\ \A i \in 2 .. n : i \in 1 .. n /\ i # 1
  BY <1>1
<1>7. x[1] = <<body[1][1]>> /\ w[1] = <<-1>>
  BY <1>4, <1>5, <1>6
<1>8. \A i \in 2 .. n : w[i] = <<10 * body[i][1] + body[i][2]>>
  BY <1>5, <1>6
<1>9. \A h : ~IsPair(<<h>>)
  BY DEF IsPair
<1>10. ~IsPair(x[1]) /\ ~IsPair(w[1])
  BY <1>7, <1>9
<1> QED
  BY <1>1, <1>4, <1>5, <1>7, <1>8, <1>10 DEF x, w, n

\* The leaves of an authentic block are different from one another.
LEMMA AuthenticFacts ==
  ASSUME NEW a, Authentic(a)
  PROVE  /\ a.txs \in Bodies /\ a.txs # <<>> /\ a.committed \in BOOLEAN
         /\ ~into_root(TxLeaves(a.txs)).mutated
         /\ ~into_root(WitnessLeaves(a.txs)).mutated
         /\ a.committed => a.txs[1][2] # 0
<1>1. PICK n \in Nat \ {0}, c \in BOOLEAN :
        a = [txs |-> [i \in 1 .. n |-> <<i, IF c THEN i % 2 ELSE 0>>], committed |-> c]
  BY DEF Authentic
<1> DEFINE f == [i \in 1 .. n |-> <<i, IF c THEN i % 2 ELSE 0>>]
<1>2. a.txs = f /\ a.committed = c
  BY <1>1
<1>3. \A i \in 1 .. n : (IF c THEN i % 2 ELSE 0) \in {0, 1}
  OBVIOUS
<1>4. f \in [1 .. n -> Nat \X Nat]
  BY <1>3
<1>5. \A i \in 1 .. n : f[i][1] = i /\ f[i][2] \in {0, 1}
  BY <1>3
<1>6. c => f[1][2] = 1
  BY <1>3
<1> HIDE DEF f
<1>7. f \in Bodies /\ Len(f) = n /\ f # <<>>
  BY <1>4 DEF Bodies
<1> DEFINE x == TxLeaves(f)
           w == WitnessLeaves(f)
<1>8. /\ IsList(x, n) /\ IsList(w, n)
      /\ \A i \in 1 .. n : x[i] = <<f[i][1]>>
      /\ w[1] = <<-1>> /\ \A i \in 2 .. n : w[i] = <<10 * f[i][1] + f[i][2]>>
  BY <1>7, LeafFacts
<1> HIDE DEF x, w
<1>9. NoRepeats(x, n)
  <2>1. ASSUME NEW i \in 1 .. n, NEW j \in 1 .. n, i # j
        PROVE  x[i] # x[j]
    <3>1. x[i] = <<i>> /\ x[j] = <<j>>
      BY <1>5, <1>8
    <3>2. x[i][1] = i /\ x[j][1] = j
      BY <3>1
    <3> QED
      BY <2>1, <3>2
  <2> QED
    BY <1>8, <2>1 DEF NoRepeats
<1>10. NoRepeats(w, n)
  <2> DEFINE Leaf(i) == IF i = 1 THEN -1 ELSE 10 * i + f[i][2]
  <2>1. \A i \in 1 .. n : w[i] = <<Leaf(i)>>
    <3>1. \A i \in 2 .. n : 10 * f[i][1] + f[i][2] = 10 * i + f[i][2]
      BY <1>5
    <3>2. \A i \in 1 .. n : i = 1 \/ i \in 2 .. n
      OBVIOUS
    <3> QED
      BY <1>8, <3>1, <3>2
  <2>2. ASSUME NEW i \in 1 .. n, NEW j \in 1 .. n, i # j
        PROVE  Leaf(i) # Leaf(j)
    <3>1. f[i][2] \in {0, 1} /\ f[j][2] \in {0, 1}
      BY <1>5
    <3> QED
      BY <2>2, <3>1
  <2> HIDE DEF Leaf
  <2>3. ASSUME NEW i \in 1 .. n, NEW j \in 1 .. n, i # j
        PROVE  w[i] # w[j]
    <3>1. w[i][1] = Leaf(i) /\ w[j][1] = Leaf(j)
      BY <2>1
    <3> QED
      BY <2>2, <2>3, <3>1
  <2> QED
    BY <1>8, <2>3 DEF NoRepeats
<1>11. ~into_root(x).mutated /\ ~into_root(w).mutated
  BY <1>9, <1>10, DistinctUnmutated
<1> QED
  BY <1>2, <1>6, <1>7, <1>11 DEF x, w

\* The check takes the authentic body and no other.
Passes ==
  /\ Parses(arrived, into_root(TxLeaves(authentic.txs)).hash)
  /\ WitnessVerified(arrived, authentic.committed,
        <<into_root(WitnessLeaves(authentic.txs)).hash, authentic.txs[1][2]>>)

\* What the two checks of a body let through.
LEMMA CheckFacts ==
  ASSUME Authentic(authentic), arrived \in Bodies, arrived # <<>>
  PROVE  /\ Passes => /\ TxLeaves(arrived) = TxLeaves(authentic.txs)
                      /\ authentic.committed => arrived = authentic.txs
         /\ ~Passes => arrived # authentic.txs
<1> DEFINE body == authentic.txs
           n == Len(arrived)
           m == Len(body)
<1>1. /\ body \in Bodies /\ body # <<>>
      /\ ~into_root(TxLeaves(body)).mutated /\ ~into_root(WitnessLeaves(body)).mutated
      /\ authentic.committed => body[1][2] # 0
  BY AuthenticFacts
<1>2. /\ n \in Nat /\ n >= 1 /\ IsList(arrived, n) /\ \A i \in 1 .. n : arrived[i] \in Nat \X Nat
      /\ IsList(TxLeaves(arrived), n) /\ ~IsPair(TxLeaves(arrived)[1])
      /\ \A i \in 1 .. n : TxLeaves(arrived)[i] = <<arrived[i][1]>>
      /\ IsList(WitnessLeaves(arrived), n) /\ ~IsPair(WitnessLeaves(arrived)[1])
      /\ \A i \in 2 .. n : WitnessLeaves(arrived)[i] = <<10 * arrived[i][1] + arrived[i][2]>>
  BY LeafFacts
<1>3. /\ m \in Nat /\ m >= 1 /\ IsList(body, m) /\ \A i \in 1 .. m : body[i] \in Nat \X Nat
      /\ IsList(TxLeaves(body), m) /\ ~IsPair(TxLeaves(body)[1])
      /\ \A i \in 1 .. m : TxLeaves(body)[i] = <<body[i][1]>>
      /\ IsList(WitnessLeaves(body), m) /\ ~IsPair(WitnessLeaves(body)[1])
      /\ \A i \in 2 .. m : WitnessLeaves(body)[i] = <<10 * body[i][1] + body[i][2]>>
  BY <1>1, LeafFacts
<1> HIDE DEF body, n, m
<1>4. ASSUME Passes
      PROVE  /\ TxLeaves(arrived) = TxLeaves(body)
             /\ authentic.committed => arrived = body
  <2>1. /\ ~into_root(TxLeaves(arrived)).mutated
        /\ into_root(TxLeaves(arrived)).hash = into_root(TxLeaves(body)).hash
    BY <1>4 DEF Passes, Parses, body
  <2>2. TxLeaves(arrived) = TxLeaves(body)
    BY <1>1, <1>2, <1>3, <2>1, RootInjective
  <2>3. ASSUME authentic.committed
        PROVE  arrived = body
    <3>1. /\ ~into_root(WitnessLeaves(arrived)).mutated
          /\ <<into_root(WitnessLeaves(arrived)).hash, arrived[1][2]>>
               = <<into_root(WitnessLeaves(body)).hash, body[1][2]>>
      BY <1>4, <2>3 DEF Passes, WitnessVerified, body
    <3>2. into_root(WitnessLeaves(arrived)).hash = into_root(WitnessLeaves(body)).hash
          /\ arrived[1][2] = body[1][2]
      BY <3>1
    <3>3. WitnessLeaves(arrived) = WitnessLeaves(body)
      BY <1>1, <1>2, <1>3, <3>1, <3>2, RootInjective
    <3>4. n = m
      BY <1>2, <1>3, <2>2 DEF IsList
    <3>5. ASSUME NEW i \in 1 .. n
          PROVE  arrived[i] = body[i]
      <4>1. arrived[i] \in Nat \X Nat /\ body[i] \in Nat \X Nat
        BY <1>2, <1>3, <3>4
      <4>2. <<arrived[i][1]>> = <<body[i][1]>>
        BY <1>2, <1>3, <2>2, <3>4
      <4>3. arrived[i][1] = body[i][1]
        BY <4>2
      <4>4. arrived[i][2] = body[i][2]
        <5>1. CASE i = 1
          BY <3>2, <5>1
        <5>2. CASE i # 1
          <6>1. i \in 2 .. n /\ i \in 2 .. m
            BY <1>2, <3>4, <5>2
          <6>2. <<10 * arrived[i][1] + arrived[i][2]>> = <<10 * body[i][1] + body[i][2]>>
            BY <1>2, <1>3, <3>3, <6>1
          <6>3. 10 * arrived[i][1] + arrived[i][2] = 10 * body[i][1] + body[i][2]
            BY <6>2
          <6> QED
            BY <4>1, <4>3, <6>3
        <5> QED
          BY <5>1, <5>2
      <4> QED
        BY <4>1, <4>3, <4>4
    <3> QED
      BY <1>2, <1>3, <3>4, <3>5, SameList
  <2> QED
    BY <2>2, <2>3
<1>5. ASSUME arrived = body
      PROVE  Passes
  <2>1. Parses(arrived, into_root(TxLeaves(body)).hash)
    BY <1>1, <1>5 DEF Parses
  <2>2. WitnessVerified(arrived, authentic.committed,
          <<into_root(WitnessLeaves(body)).hash, body[1][2]>>)
    BY <1>1, <1>5 DEF WitnessVerified
  <2> QED
    BY <2>1, <2>2 DEF Passes, body
<1> QED
  BY <1>4, <1>5 DEF body

BodyInv ==
  /\ authentic.txs = <<>> \/ Authentic(authentic)
  /\ arrived \in Bodies
  /\ arrived # <<>> => Authentic(authentic)
  /\ arrived = <<>> => verdict = "none"

\* Whatever a peer sends is a list of transactions.
LEMMA Delivered ==
  ASSUME Authentic(authentic), Deliver
  PROVE  arrived' \in Bodies /\ arrived' # <<>>
<1> DEFINE txs == authentic.txs
<1>1. txs \in Seq(Nat \X Nat) /\ txs # <<>>
  BY AuthenticFacts DEF Bodies
<1>2. Len(txs) \in Nat /\ DOMAIN txs = 1 .. Len(txs) /\ \A i \in 1 .. Len(txs) : txs[i] \in Nat \X Nat
  BY <1>1, LenProperties, SeqIsList
<1> DEFINE few == {i \in DOMAIN txs : i <= FewIds}
           Short(body) == \E k \in 1 .. MaxAny : body \in [1 .. k -> {txs[i] : i \in few}]
           Doubled(body) == \E k \in DOMAIN txs, a \in DOMAIN txs, b \in 0 .. Len(txs) :
                               body = SubSeq(txs, 1, k) \o SubSeq(txs, a, b)
<1>3. \E body : (Short(body) \/ Doubled(body)) /\ Receive(body)
  BY DEF Deliver
<1>4. PICK body : (Short(body) \/ Doubled(body)) /\ Receive(body)
  BY <1>3
<1> HIDE DEF txs
<1>5. body \in Seq(Nat \X Nat) /\ body # <<>>
  <2>1. CASE \E k \in 1 .. MaxAny : body \in [1 .. k -> {txs[i] : i \in few}]
    <3>1. PICK k \in 1 .. MaxAny : body \in [1 .. k -> {txs[i] : i \in few}]
      BY <2>1
    <3>2. {txs[i] : i \in few} \subseteq Nat \X Nat
      BY <1>2
    <3>3. k \in Nat /\ k >= 1
      BY BodyAssumption
    <3>4. body \in [1 .. k -> Nat \X Nat]
      BY <3>1, <3>2
    <3> QED
      BY <3>3, <3>4
  <2>2. CASE \E k \in DOMAIN txs, a \in DOMAIN txs, b \in 0 .. Len(txs) :
               body = SubSeq(txs, 1, k) \o SubSeq(txs, a, b)
    <3>1. PICK k \in DOMAIN txs, a \in DOMAIN txs, b \in 0 .. Len(txs) :
            body = SubSeq(txs, 1, k) \o SubSeq(txs, a, b)
      BY <2>2
    <3> DEFINE p == SubSeq(txs, 1, k)
               q == SubSeq(txs, a, b)
    <3>2. k \in 1 .. Len(txs) /\ a \in 1 .. Len(txs) /\ b \in 0 .. Len(txs)
      BY <1>2
    <3>3. p \in Seq(Nat \X Nat) /\ Len(p) = k
      BY <1>1, <1>2, <3>2
    <3>4. q \in Seq(Nat \X Nat)
      BY <1>1, <1>2, <3>2
    <3> HIDE DEF p, q
    <3>5. p \o q \in Seq(Nat \X Nat) /\ Len(p \o q) = Len(p) + Len(q) /\ Len(q) \in Nat
      BY <3>3, <3>4, ConcatProperties, LenProperties
    <3>6. p \o q # <<>>
      BY <3>2, <3>3, <3>5
    <3> QED
      BY <3>1, <3>5, <3>6 DEF p, q
  <2> QED
    BY <2>1, <2>2, <1>4
<1>6. ASSUME NEW j \in DOMAIN body, NEW w \in {0, 2}, arrived' = [body EXCEPT ![j] = <<@[1], w>>]
      PROVE  arrived' \in Seq(Nat \X Nat) /\ arrived' # <<>>
  <2>1. Len(body) \in Nat /\ body \in [1 .. Len(body) -> Nat \X Nat] /\ DOMAIN body = 1 .. Len(body)
        /\ Len(body) >= 1
    BY <1>5, LenProperties, EmptySeq
  <2>2. <<body[j][1], w>> \in Nat \X Nat
    BY <2>1
  <2>3. arrived' = [body EXCEPT ![j] = <<body[j][1], w>>]
    BY <1>6
  <2>4. arrived' \in [1 .. Len(body) -> Nat \X Nat]
    BY <2>1, <2>2, <2>3
  <2> QED
    BY <2>1, <2>4
<1> QED
  <2>1. CASE arrived' = body
    BY <1>5, <2>1 DEF Bodies
  <2>2. CASE \E j \in DOMAIN body, w \in {0, 2} : arrived' = [body EXCEPT ![j] = <<@[1], w>>]
    BY <1>6, <2>2 DEF Bodies
  <2> QED
    BY <1>4, <2>1, <2>2 DEF Receive

\* Every step keeps a body that passed authentic.
LEMMA BodyStep ==
  BodyInv /\ BodyAuthentic /\ [BodyNext]_bodyVars => BodyInv' /\ BodyAuthentic'
<1> SUFFICES ASSUME BodyInv, BodyAuthentic, [BodyNext]_bodyVars
             PROVE  BodyInv' /\ BodyAuthentic'
  OBVIOUS
<1>1. CASE Deliver
  <2>1. /\ authentic.txs # <<>> /\ arrived = <<>> /\ UNCHANGED <<authentic, verdict>>
    BY <1>1 DEF Deliver
  <2>2. Authentic(authentic) /\ verdict = "none"
    BY <2>1 DEF BodyInv
  <2>3. arrived' \in Bodies /\ arrived' # <<>>
    BY <1>1, <2>2, Delivered
  <2>4. BodyInv'
    BY <2>1, <2>2, <2>3 DEF BodyInv, Bodies, Authentic
  <2>5. BodyAuthentic'
    BY <2>1, <2>2 DEF BodyAuthentic
  <2> QED
    BY <2>4, <2>5
<1>2. CASE Check
  <2>1. arrived # <<>> /\ UNCHANGED <<authentic, arrived>>
    BY <1>2 DEF Check
  <2>2. verdict' = IF Passes THEN "used" ELSE "refused"
    BY <1>2 DEF Check, Passes
  <2>3. Authentic(authentic) /\ arrived \in Bodies
    BY <2>1 DEF BodyInv
  <2>4. BodyInv'
    BY <2>1, <2>3 DEF BodyInv, Bodies, Authentic
  <2>5. /\ Passes => /\ TxLeaves(arrived) = TxLeaves(authentic.txs)
                     /\ authentic.committed => arrived = authentic.txs
        /\ ~Passes => arrived # authentic.txs
    BY <2>1, <2>3, CheckFacts
  <2>6. /\ verdict' = "used" => Passes
        /\ verdict' = "refused" => ~Passes
    BY <2>2
  <2>7. TxLeaves(arrived)' = TxLeaves(arrived) /\ TxLeaves(authentic.txs)' = TxLeaves(authentic.txs)
    BY <2>1 DEF TxLeaves, TxHash
  <2>8. BodyAuthentic'
    BY <2>1, <2>5, <2>6, <2>7 DEF BodyAuthentic
  <2> QED
    BY <2>4, <2>8
<1>3. ASSUME NEW n \in 1 .. MaxTxs, NEW committed \in BOOLEAN, Mine(n, committed)
      PROVE  BodyInv' /\ BodyAuthentic'
  <2>1. /\ authentic.txs = <<>> /\ UNCHANGED <<arrived, verdict>>
        /\ authentic' = [txs |-> [i \in 1 .. n |-> <<i, IF committed THEN i % 2 ELSE 0>>],
                         committed |-> committed]
    BY <1>3 DEF Mine
  <2>2. arrived = <<>> /\ verdict = "none"
    BY <2>1, AuthenticFacts DEF BodyInv
  <2>3. n \in Nat \ {0}
    BY BodyAssumption
  <2>4. Authentic(authentic')
    BY <2>1, <2>3 DEF Authentic
  <2>5. BodyInv'
    BY <2>1, <2>2, <2>4 DEF BodyInv, Bodies, Authentic
  <2>6. BodyAuthentic'
    BY <2>1, <2>2 DEF BodyAuthentic
  <2> QED
    BY <2>5, <2>6
<1>4. CASE UNCHANGED bodyVars
  <2>1. UNCHANGED <<authentic, arrived, verdict>>
    BY <1>4 DEF bodyVars
  <2> QED
    BY <2>1 DEF BodyInv, Bodies, Authentic, BodyAuthentic, TxLeaves, TxHash
<1> QED
  BY <1>1, <1>2, <1>3, <1>4 DEF BodyNext

\* BlockBorrowed::deserialize_borrowed and verify_witness_commitment, with
\* MerkleTree::into_root, for blocks and bodies of any length: no body but the
\* authentic one passes, whatever it repeats, and the authentic one does.
THEOREM BodyIsAuthentic == BodySpec => []BodyAuthentic
<1>1. BodyInit => BodyInv /\ BodyAuthentic
  BY DEF BodyInit, BodyInv, BodyAuthentic, Bodies
<1> QED
  BY <1>1, BodyStep, PTL DEF BodySpec

---------------------------------------------------------------------------
(* The locks. *)

LockSet == {Chain, Miners, MinersPage, Frontpage}
Guards == {"r", "w"} \X LockSet
Ops == [kind : {"r", "w", "drop"}, lock : LockSet, under : SUBSET Guards]

\* The guards under which a lock is asked for.
InOrder(o) ==
  \/ o.kind = "drop"
  \/ o.under = {}
  \/ o.under = {<<"r", Chain>>} /\ <<o.kind, o.lock>> \in {<<"r", Chain>>, <<"r", Miners>>, <<"w", Frontpage>>}
  \/ o.under = {<<"w", Miners>>} /\ <<o.kind, o.lock>> \in {<<"r", Chain>>, <<"w", MinersPage>>}
  \/ o.under = {<<"r", Miners>>} /\ <<o.kind, o.lock>> \in {<<"r", Chain>>, <<"r", Miners>>}

GoodOps == {o \in Ops : InOrder(o)}

\* What taking one lock for nothing else consists of.
Plain(kind, lock) == {Op(kind, lock, {}), Op("drop", lock, {<<kind, lock>>})}

LEMMA OpFacts ==
  ASSUME NEW kind, NEW lock, NEW under
  PROVE  /\ Op(kind, lock, under).kind = kind
         /\ Op(kind, lock, under).lock = lock
         /\ Op(kind, lock, under).under = under
BY DEF Op

LEMMA OpType ==
  ASSUME NEW kind \in {"r", "w", "drop"}, NEW lock \in LockSet, NEW under \in SUBSET Guards
  PROVE  Op(kind, lock, under) \in Ops
BY DEF Op, Ops

LEMMA OneOp ==
  ASSUME NEW S, NEW o \in S
  PROVE  <<o>> \in Seq(S)
OBVIOUS

LEMMA Joined ==
  ASSUME NEW S, NEW p \in Seq(S), NEW q \in Seq(S)
  PROVE  p \o q \in Seq(S)
BY ConcatProperties

\* A handler that is good inside stays good under a guard.
LEMMA UnderGood ==
  ASSUME NEW S, NEW T, NEW body \in Seq(S), NEW kind, NEW lock,
         Op(kind, lock, {}) \in T,
         Op("drop", lock, {<<kind, lock>>}) \in T,
         \A x \in S : Op(x.kind, x.lock, x.under \cup {<<kind, lock>>}) \in T
  PROVE  Under(kind, lock, body) \in Seq(T)
<1> DEFINE inner == [i \in DOMAIN body |->
                       Op(body[i].kind, body[i].lock, body[i].under \cup {<<kind, lock>>})]
           first == <<Op(kind, lock, {})>>
           last == <<Op("drop", lock, {<<kind, lock>>})>>
<1>1. Len(body) \in Nat /\ DOMAIN body = 1 .. Len(body) /\ \A i \in DOMAIN body : body[i] \in S
  BY LenProperties, ElementOfSeq
<1>2. inner \in [1 .. Len(body) -> T]
  BY <1>1
<1>3. inner \in Seq(T)
  <2> HIDE DEF inner
  <2> QED
    BY <1>1, <1>2
<1>4. first \in Seq(T) /\ last \in Seq(T)
  BY OneOp
<1>5. Under(kind, lock, body) = first \o inner \o last
  BY DEF Under
<1> HIDE DEF first, inner, last
<1> QED
  BY <1>3, <1>4, <1>5, Joined

LEMMA PlainLists ==
  ASSUME NEW lock
  PROVE  Reading(lock) \in Seq(Plain("r", lock)) /\ Writing(lock) \in Seq(Plain("w", lock))
<1> DEFINE None == {}
<1>1. <<>> \in Seq(None)
  OBVIOUS
<1>2. ASSUME NEW kind
      PROVE  Under(kind, lock, <<>>) \in Seq(Plain(kind, lock))
  <2>1. \A x \in None : Op(x.kind, x.lock, x.under \cup {<<kind, lock>>}) \in Plain(kind, lock)
    OBVIOUS
  <2>2. /\ Op(kind, lock, {}) \in Plain(kind, lock)
        /\ Op("drop", lock, {<<kind, lock>>}) \in Plain(kind, lock)
    BY DEF Plain
  <2> HIDE DEF None
  <2> QED
    BY <1>1, <2>1, <2>2, UnderGood
<1> QED
  BY <1>2 DEF Reading, Writing

LEMMA WiderList ==
  ASSUME NEW S, NEW T, S \subseteq T, NEW p \in Seq(S)
  PROVE  p \in Seq(T)
OBVIOUS

LEMMA PlainGood ==
  ASSUME NEW kind \in {"r", "w"}, NEW lock \in LockSet
  PROVE  Plain(kind, lock) \subseteq GoodOps
<1>1. /\ {} \in SUBSET Guards
      /\ {<<kind, lock>>} \in SUBSET Guards
  BY DEF Guards
<1>2. Op(kind, lock, {}) \in Ops /\ Op("drop", lock, {<<kind, lock>>}) \in Ops
  BY <1>1, OpType
<1>3. InOrder(Op(kind, lock, {})) /\ InOrder(Op("drop", lock, {<<kind, lock>>}))
  BY OpFacts DEF InOrder
<1> QED
  BY <1>2, <1>3 DEF Plain, GoodOps

LEMMA Lists ==
  ASSUME NEW lock \in LockSet
  PROVE  Reading(lock) \in Seq(GoodOps) /\ Writing(lock) \in Seq(GoodOps)
<1>1. Plain("r", lock) \subseteq GoodOps /\ Plain("w", lock) \subseteq GoodOps
  BY PlainGood
<1> QED
  BY <1>1, PlainLists, WiderList

\* The ways in which the handlers ask for one lock under another.
LEMMA NestedGood ==
  ASSUME NEW k \in {"r", "w"}, NEW outer \in LockSet, NEW j \in {"r", "w"}, NEW inner \in LockSet,
         \/ k = "r" /\ outer = Chain /\ <<j, inner>> \in {<<"r", Chain>>, <<"r", Miners>>, <<"w", Frontpage>>}
         \/ k = "w" /\ outer = Miners /\ <<j, inner>> \in {<<"r", Chain>>, <<"w", MinersPage>>}
         \/ k = "r" /\ outer = Miners /\ <<j, inner>> \in {<<"r", Chain>>, <<"r", Miners>>},
         NEW x \in Plain(j, inner)
  PROVE  Op(x.kind, x.lock, x.under \cup {<<k, outer>>}) \in GoodOps
<1> DEFINE o == Op(x.kind, x.lock, x.under \cup {<<k, outer>>})
<1>1. CASE x = Op(j, inner, {})
  <2>1. x.kind = j /\ x.lock = inner /\ x.under = {}
    BY <1>1, OpFacts
  <2>2. {<<k, outer>>} \in SUBSET Guards
    BY DEF Guards
  <2>3. o = Op(j, inner, {<<k, outer>>})
    BY <2>1
  <2>4. o \in Ops
    BY <2>2, <2>3, OpType
  <2>5. o.kind = j /\ o.lock = inner /\ o.under = {<<k, outer>>}
    BY <2>3, OpFacts
  <2> QED
    BY <2>4, <2>5 DEF GoodOps, InOrder
<1>2. CASE x = Op("drop", inner, {<<j, inner>>})
  <2>1. x.kind = "drop" /\ x.lock = inner /\ x.under = {<<j, inner>>}
    BY <1>2, OpFacts
  <2>2. {<<j, inner>>} \cup {<<k, outer>>} \in SUBSET Guards
    BY DEF Guards
  <2>3. o = Op("drop", inner, {<<j, inner>>} \cup {<<k, outer>>})
    BY <2>1
  <2>4. o \in Ops /\ o.kind = "drop"
    BY <2>2, <2>3, OpType, OpFacts
  <2> QED
    BY <2>4 DEF GoodOps, InOrder
<1> QED
  BY <1>1, <1>2 DEF Plain

\* One handler or two under a guard.
LEMMA GuardGood ==
  ASSUME NEW k \in {"r", "w"}, NEW outer \in LockSet, NEW S, NEW body \in Seq(S),
         \A x \in S : Op(x.kind, x.lock, x.under \cup {<<k, outer>>}) \in GoodOps
  PROVE  Under(k, outer, body) \in Seq(GoodOps)
<1>1. Op(k, outer, {}) \in GoodOps /\ Op("drop", outer, {<<k, outer>>}) \in GoodOps
  BY PlainGood DEF Plain
<1> QED
  BY <1>1, UnderGood

\* A recount, with any number of reads of CHAIN.
LEMMA MinersWritten ==
  ASSUME NEW body \in Seq(Plain("r", Chain) \cup Plain("w", MinersPage))
  PROVE  Under("w", Miners, body) \in Seq(GoodOps)
<1> DEFINE S == Plain("r", Chain) \cup Plain("w", MinersPage)
<1>1. Chain \in LockSet /\ MinersPage \in LockSet /\ Miners \in LockSet
  BY DEF LockSet
<1>2. ASSUME NEW x \in Plain("r", Chain)
      PROVE  Op(x.kind, x.lock, x.under \cup {<<"w", Miners>>}) \in GoodOps
  BY <1>1, NestedGood
<1>3. ASSUME NEW x \in Plain("w", MinersPage)
      PROVE  Op(x.kind, x.lock, x.under \cup {<<"w", Miners>>}) \in GoodOps
  BY <1>1, NestedGood
<1>4. \A x \in S : Op(x.kind, x.lock, x.under \cup {<<"w", Miners>>}) \in GoodOps
  BY <1>2, <1>3
<1> HIDE DEF S
<1>5. body \in Seq(S)
  BY DEF S
<1> QED
  BY <1>1, <1>4, <1>5, GuardGood

LEMMA MinersRead ==
  ASSUME NEW body \in Seq(Plain("r", Chain) \cup Plain("r", Miners))
  PROVE  Under("r", Miners, body) \in Seq(GoodOps)
<1> DEFINE S == Plain("r", Chain) \cup Plain("r", Miners)
<1>1. Chain \in LockSet /\ Miners \in LockSet
  BY DEF LockSet
<1>2. ASSUME NEW x \in Plain("r", Chain)
      PROVE  Op(x.kind, x.lock, x.under \cup {<<"r", Miners>>}) \in GoodOps
  BY <1>1, NestedGood
<1>3. ASSUME NEW x \in Plain("r", Miners)
      PROVE  Op(x.kind, x.lock, x.under \cup {<<"r", Miners>>}) \in GoodOps
  BY <1>1, NestedGood
<1>4. \A x \in S : Op(x.kind, x.lock, x.under \cup {<<"r", Miners>>}) \in GoodOps
  BY <1>2, <1>3
<1> HIDE DEF S
<1>5. body \in Seq(S)
  BY DEF S
<1> QED
  BY <1>1, <1>4, <1>5, GuardGood

LEMMA ChainRead ==
  ASSUME NEW body \in Seq(Plain("r", Chain) \cup Plain("r", Miners) \cup Plain("w", Frontpage))
  PROVE  Under("r", Chain, body) \in Seq(GoodOps)
<1> DEFINE S == Plain("r", Chain) \cup Plain("r", Miners) \cup Plain("w", Frontpage)
<1>1. Chain \in LockSet /\ Miners \in LockSet /\ Frontpage \in LockSet
  BY DEF LockSet
<1>2. ASSUME NEW x \in Plain("r", Chain)
      PROVE  Op(x.kind, x.lock, x.under \cup {<<"r", Chain>>}) \in GoodOps
  BY <1>1, NestedGood
<1>3. ASSUME NEW x \in Plain("r", Miners)
      PROVE  Op(x.kind, x.lock, x.under \cup {<<"r", Chain>>}) \in GoodOps
  BY <1>1, NestedGood
<1>4. ASSUME NEW x \in Plain("w", Frontpage)
      PROVE  Op(x.kind, x.lock, x.under \cup {<<"r", Chain>>}) \in GoodOps
  BY <1>1, NestedGood
<1>5. \A x \in S : Op(x.kind, x.lock, x.under \cup {<<"r", Chain>>}) \in GoodOps
  BY <1>2, <1>3, <1>4
<1> HIDE DEF S
<1>6. body \in Seq(S)
  BY DEF S
<1> QED
  BY <1>1, <1>5, <1>6, GuardGood

Handlers ==
  {Recount, Start, SyncHeaders, FinishBatch, HandleNewHeader, ApplyBlock, ApplyFork,
   MinerPage, BlockPage, MinersPageData, FrontPage} \cup Lookups

LEMMA HandlersGood == Handlers \subseteq Seq(GoodOps)
<1>1. /\ Reading(Chain) \in Seq(GoodOps) /\ Writing(Chain) \in Seq(GoodOps)
      /\ Reading(Miners) \in Seq(GoodOps) /\ Reading(MinersPage) \in Seq(GoodOps)
      /\ Reading(Frontpage) \in Seq(GoodOps) /\ Writing(Frontpage) \in Seq(GoodOps)
  BY Lists DEF LockSet
<1>2. Recount \in Seq(GoodOps) /\ RecountFrom \in Seq(GoodOps) /\ Extend \in Seq(GoodOps)
  <2> DEFINE S == Plain("r", Chain) \cup Plain("w", MinersPage)
  <2>1. Reading(Chain) \in Seq(S) /\ Writing(MinersPage) \in Seq(S)
    <3>1. Plain("r", Chain) \subseteq S /\ Plain("w", MinersPage) \subseteq S
      OBVIOUS
    <3> HIDE DEF S
    <3> QED
      BY <3>1, PlainLists, WiderList
  <2>2. ASSUME NEW body \in Seq(S)
        PROVE  Under("w", Miners, body) \in Seq(GoodOps)
    BY MinersWritten
  <2> HIDE DEF S
  <2>3. /\ Reading(Chain) \o Reading(Chain) \in Seq(S)
        /\ Reading(Chain) \o Writing(MinersPage) \in Seq(S)
    BY <2>1, Joined
  <2>4. Reading(Chain) \o Reading(Chain) \o Writing(MinersPage) \in Seq(S)
    BY <2>1, <2>3, Joined
  <2> QED
    BY <2>1, <2>2, <2>3, <2>4 DEF Recount, RecountFrom, Extend
<1>3. MinerPage \in Seq(GoodOps)
  <2> DEFINE S == Plain("r", Chain) \cup Plain("r", Miners)
  <2>1. Reading(Chain) \in Seq(S) /\ Reading(Miners) \in Seq(S)
    <3>1. Plain("r", Chain) \subseteq S /\ Plain("r", Miners) \subseteq S
      OBVIOUS
    <3> HIDE DEF S
    <3> QED
      BY <3>1, PlainLists, WiderList
  <2>2. ASSUME NEW body \in Seq(S)
        PROVE  Under("r", Miners, body) \in Seq(GoodOps)
    BY MinersRead
  <2> HIDE DEF S
  <2> QED
    BY <2>1, <2>2, Joined DEF MinerPage
<1>4. /\ Under("r", Chain, Reading(Chain)) \in Seq(GoodOps)
      /\ Under("r", Chain, Reading(Miners) \o Writing(Frontpage)) \in Seq(GoodOps)
  <2> DEFINE S == Plain("r", Chain) \cup Plain("r", Miners) \cup Plain("w", Frontpage)
  <2>1. Reading(Chain) \in Seq(S) /\ Reading(Miners) \in Seq(S) /\ Writing(Frontpage) \in Seq(S)
    <3>1. Plain("r", Chain) \subseteq S /\ Plain("r", Miners) \subseteq S /\ Plain("w", Frontpage) \subseteq S
      OBVIOUS
    <3> HIDE DEF S
    <3> QED
      BY <3>1, PlainLists, WiderList
  <2>2. ASSUME NEW body \in Seq(S)
        PROVE  Under("r", Chain, body) \in Seq(GoodOps)
    BY ChainRead
  <2> HIDE DEF S
  <2>3. Reading(Miners) \o Writing(Frontpage) \in Seq(S)
    BY <2>1, Joined
  <2> QED
    BY <2>1, <2>2, <2>3
<1>5. /\ \A p, q \in Seq(GoodOps) : p \o q \in Seq(GoodOps)
  BY Joined
<1>6. UpdateFrontpage \in Seq(GoodOps)
  BY <1>1, <1>4, <1>5 DEF UpdateFrontpage
<1>7. Reading(Chain) \o Reading(Chain) \o Reading(Miners) \in Seq(GoodOps)
  BY <1>1, <1>5
<1>8. GenerateFrontpage \in Seq(GoodOps)
  BY <1>1, <1>5, <1>7 DEF GenerateFrontpage
<1>9. Start \in Seq(GoodOps) /\ SyncHeaders \in Seq(GoodOps) /\ HandleNewHeader \in Seq(GoodOps)
  BY <1>1, <1>4, <1>5, <1>8 DEF Start, SyncHeaders, HandleNewHeader
<1>10. ApplyBlock \in Seq(GoodOps) /\ ApplyFork \in Seq(GoodOps)
  BY <1>1, <1>2, <1>5, <1>6, <1>8 DEF ApplyBlock, ApplyFork
<1>11. FinishBatch \in Seq(GoodOps)
  <2>1. Reading(Chain) \o Extend \in Seq(GoodOps)
    BY <1>1, <1>2, <1>5
  <2>2. Reading(Chain) \o Extend \o Writing(Chain) \in Seq(GoodOps)
    BY <1>1, <1>5, <2>1
  <2> QED
    BY <1>5, <1>6, <2>2 DEF FinishBatch
<1>12. BlockPage \in Seq(GoodOps) /\ MinersPageData \in Seq(GoodOps) /\ FrontPage \in Seq(GoodOps)
  BY <1>1, <1>5 DEF BlockPage, MinersPageData, FrontPage
<1> QED
  BY <1>1, <1>2, <1>3, <1>9, <1>10, <1>11, <1>12 DEF Handlers, Lookups

LocksInv ==
  /\ program \in [Tasks -> Seq(GoodOps)]
  /\ counter \in [Tasks -> Nat]

LEMMA LocksStep == LocksInv /\ [LocksNext]_lockVars => LocksInv'
<1> SUFFICES ASSUME LocksInv, [LocksNext]_lockVars
             PROVE  LocksInv'
  OBVIOUS
<1>1. ASSUME NEW t \in Tasks, NEW p \in Programs(t), Begin(t, p)
      PROVE  LocksInv'
  <2>1. p \in Handlers
    BY DEF Programs, Handlers
  <2>2. p \in Seq(GoodOps)
    BY <2>1, HandlersGood
  <2>3. /\ program' = [program EXCEPT ![t] = p]
        /\ counter' = [counter EXCEPT ![t] = 0]
    BY <1>1 DEF Begin
  <2> QED
    BY <2>2, <2>3 DEF LocksInv
<1>2. ASSUME NEW t \in Tasks, Enqueue(t)
      PROVE  LocksInv'
  BY <1>2 DEF Enqueue, LocksInv
<1>3. ASSUME NEW t \in Tasks, Step(t)
      PROVE  LocksInv'
  <2>1. program' = program /\ counter' = [counter EXCEPT ![t] = counter[t] + 1]
    BY <1>3 DEF Step
  <2> QED
    BY <2>1 DEF LocksInv
<1>4. CASE UNCHANGED lockVars
  BY <1>4 DEF LocksInv, lockVars
<1> QED
  BY <1>1, <1>2, <1>3, <1>4 DEF LocksNext

\* A blocked task asks for a lock, under guards that are in order.
LEMMA BlockedAsks ==
  ASSUME LocksInv, NEW t \in Blocked
  PROVE  /\ Running(t) /\ Next_op(t) \in GoodOps
         /\ Next_op(t).kind \in {"r", "w"}
         /\ Asks(t, Next_op(t).kind, Next_op(t).lock)
<1>1. t \in Tasks /\ Running(t) /\ ~Ready(t)
  BY DEF Blocked
<1>2. program[t] \in Seq(GoodOps) /\ counter[t] \in Nat /\ counter[t] < Len(program[t])
  BY <1>1 DEF LocksInv, Running
<1>3. counter[t] + 1 \in 1 .. Len(program[t])
  BY <1>2
<1>4. Next_op(t) \in GoodOps
  BY <1>2, <1>3, ElementOfSeq DEF Next_op
<1>5. Next_op(t).kind \in {"r", "w", "drop"}
  BY <1>4 DEF GoodOps, Ops
<1>6. Next_op(t).kind # "drop"
  BY <1>1 DEF Ready
<1> QED
  BY <1>1, <1>4, <1>5, <1>6 DEF Asks

\* What a blocked task that holds a lock asks for.
LEMMA HoldersAsk ==
  ASSUME LocksInv, NEW u \in Blocked
  PROVE  /\ Holds(u, Chain) => Asks(u, "r", Chain) \/ Asks(u, "r", Miners) \/ Asks(u, "w", Frontpage)
         /\ Holds(u, Miners) => Asks(u, "r", Chain) \/ Asks(u, "r", Miners) \/ Asks(u, "w", MinersPage)
         /\ HoldsWrite(u, Miners) => Asks(u, "r", Chain) \/ Asks(u, "w", MinersPage)
         /\ ~HoldsWrite(u, Chain) /\ ~Holds(u, MinersPage) /\ ~Holds(u, Frontpage)
         /\ ~(Holds(u, Chain) /\ Holds(u, Miners))
<1> DEFINE o == Next_op(u)
<1>1. Running(u) /\ InOrder(o) /\ o.kind \in {"r", "w"} /\ Asks(u, o.kind, o.lock)
  BY BlockedAsks DEF GoodOps
<1>2. \/ o.under = {}
      \/ o.under = {<<"r", Chain>>} /\ <<o.kind, o.lock>> \in {<<"r", Chain>>, <<"r", Miners>>, <<"w", Frontpage>>}
      \/ o.under = {<<"w", Miners>>} /\ <<o.kind, o.lock>> \in {<<"r", Chain>>, <<"w", MinersPage>>}
      \/ o.under = {<<"r", Miners>>} /\ <<o.kind, o.lock>> \in {<<"r", Chain>>, <<"r", Miners>>}
  BY <1>1 DEF InOrder
<1>3. \A lock : /\ Holds(u, lock) <=> <<"r", lock>> \in o.under \/ <<"w", lock>> \in o.under
                /\ HoldsWrite(u, lock) <=> <<"w", lock>> \in o.under
  BY <1>1 DEF Holds, HoldsWrite
<1> HIDE DEF o
<1>4. CASE o.under = {}
  BY <1>3, <1>4
<1>5. CASE o.under = {<<"r", Chain>>} /\ <<o.kind, o.lock>> \in {<<"r", Chain>>, <<"r", Miners>>, <<"w", Frontpage>>}
  BY <1>1, <1>3, <1>5, LocksAssumption
<1>6. CASE o.under = {<<"w", Miners>>} /\ <<o.kind, o.lock>> \in {<<"r", Chain>>, <<"w", MinersPage>>}
  BY <1>1, <1>3, <1>6, LocksAssumption
<1>7. CASE o.under = {<<"r", Miners>>} /\ <<o.kind, o.lock>> \in {<<"r", Chain>>, <<"r", Miners>>}
  BY <1>1, <1>3, <1>7, LocksAssumption
<1> QED
  BY <1>2, <1>4, <1>5, <1>6, <1>7

\* A task asks for one thing.
LEMMA AsksOnce ==
  ASSUME NEW t, NEW k, NEW l, NEW j, NEW m, Asks(t, k, l), Asks(t, j, m)
  PROVE  k = j /\ l = m
BY DEF Asks

\* Who stops a task, by what the task asks for.
LEMMA WhoStops ==
  ASSUME NEW t, NEW u, NEW lock, Stops(u, t)
  PROVE  /\ Asks(t, "w", lock) => Holds(u, lock)
         /\ Asks(t, "r", lock) => HoldsWrite(u, lock) \/ (u \in queued /\ Asks(u, "w", lock))
BY DEF Stops, Asks, Holds

LEMMA DeadlockedClosed ==
  /\ Deadlocked \subseteq Blocked
  /\ \A t \in Deadlocked : \E u \in Deadlocked : Stops(u, t)
<1> DEFINE Closed(D) == \A t \in D : \E u \in D : Stops(u, t)
           Family == {D \in SUBSET Blocked : Closed(D)}
<1>1. Deadlocked = UNION Family
  BY DEF Deadlocked
<1>2. \A D \in Family : D \subseteq Blocked /\ Closed(D)
  OBVIOUS
<1> HIDE DEF Family
<1>3. ASSUME NEW t \in Deadlocked
      PROVE  t \in Blocked /\ \E u \in Deadlocked : Stops(u, t)
  <2>1. PICK D \in Family : t \in D
    BY <1>1
  <2>2. D \subseteq Deadlocked
    BY <1>1
  <2> QED
    BY <1>2, <2>1, <2>2
<1> QED
  BY <1>3

LEMMA LocksInvSafe == LocksInv => DeadlockNeedsNestedRead
<1> SUFFICES ASSUME LocksInv, NEW x \in Deadlocked
             PROVE  \E t, u \in Deadlocked, lock \in {Chain, Miners} :
                      /\ u \in queued /\ Asks(u, "w", lock)
                      /\ Asks(t, "r", lock)
                      /\ Holds(t, Miners) \/ Holds(t, lock)
  BY DEF DeadlockNeedsNestedRead
<1> DEFINE Found(t, u, lock) == /\ u \in queued /\ Asks(u, "w", lock)
                                /\ Asks(t, "r", lock)
                                /\ Holds(t, Miners) \/ Holds(t, lock)
<1>1. \A t \in Deadlocked : t \in Blocked /\ \E u \in Deadlocked : Stops(u, t)
  BY DeadlockedClosed
<1>2. \* nobody waits for one of the two pages
      ASSUME NEW t \in Deadlocked, NEW lock \in {MinersPage, Frontpage}
      PROVE  ~Asks(t, "w", lock) /\ ~Asks(t, "r", lock)
  <2>1. PICK u \in Deadlocked : Stops(u, t)
    BY <1>1
  <2>2. ~Holds(u, lock) /\ ~HoldsWrite(u, lock)
    BY <1>1, HoldersAsk DEF Holds
  <2>3. ~Asks(t, "w", lock)
    BY <2>1, <2>2, WhoStops
  <2>4. SUFFICES ASSUME Asks(t, "r", lock) PROVE FALSE
    BY <2>3
  <2>5. Asks(u, "w", lock)
    BY <2>1, <2>2, <2>4, WhoStops
  <2>6. PICK v \in Deadlocked : Stops(v, u)
    BY <1>1
  <2>7. Holds(v, lock)
    BY <2>5, <2>6, WhoStops
  <2> QED
    BY <1>1, <2>7, HoldersAsk
<1>3. \* a holder of MINER_DATA that asks for CHAIN
      ASSUME NEW t \in Deadlocked, Asks(t, "r", Chain), Holds(t, Miners) \/ Holds(t, Chain)
      PROVE  \E u \in Deadlocked : Found(t, u, Chain)
  <2>1. PICK u \in Deadlocked : Stops(u, t)
    BY <1>1
  <2>2. ~HoldsWrite(u, Chain)
    BY <1>1, HoldersAsk
  <2>3. u \in queued /\ Asks(u, "w", Chain)
    BY <1>3, <2>1, <2>2, WhoStops
  <2> QED
    BY <1>3, <2>3
<1>4. \* a holder of MINER_DATA
      ASSUME NEW t \in Deadlocked, Holds(t, Miners)
      PROVE  \E s, u \in Deadlocked, lock \in {Chain, Miners} : Found(s, u, lock)
  <2>1. Asks(t, "r", Chain) \/ Asks(t, "r", Miners)
    BY <1>1, <1>2, <1>4, HoldersAsk
  <2>2. CASE Asks(t, "r", Chain)
    BY <1>3, <1>4, <2>2
  <2>3. CASE Asks(t, "r", Miners)
    <3>1. PICK u \in Deadlocked : Stops(u, t)
      BY <1>1
    <3>2. CASE HoldsWrite(u, Miners)
      <4>1. Asks(u, "r", Chain)
        BY <1>1, <1>2, <3>2, HoldersAsk
      <4>2. Holds(u, Miners)
        BY <3>2 DEF Holds
      <4> QED
        BY <1>3, <4>1, <4>2
    <3>3. CASE u \in queued /\ Asks(u, "w", Miners)
      BY <1>4, <2>3, <3>3
    <3> QED
      BY <2>3, <3>1, <3>2, <3>3, WhoStops
  <2> QED
    BY <2>1, <2>2, <2>3
<1>5. \* a task that asks for MINER_DATA
      ASSUME NEW t \in Deadlocked, Asks(t, "r", Miners) \/ Asks(t, "w", Miners)
      PROVE  \E s, u \in Deadlocked, lock \in {Chain, Miners} : Found(s, u, lock)
  <2>1. PICK u \in Deadlocked : Stops(u, t)
    BY <1>1
  <2>2. Holds(u, Miners) \/ Asks(u, "w", Miners)
    BY <1>5, <2>1, WhoStops DEF Holds
  <2>3. CASE Holds(u, Miners)
    BY <1>4, <2>3
  <2>4. CASE Asks(u, "w", Miners)
    <3>1. PICK v \in Deadlocked : Stops(v, u)
      BY <1>1
    <3>2. Holds(v, Miners)
      BY <2>4, <3>1, WhoStops
    <3> QED
      BY <1>4, <3>2
  <2> QED
    BY <2>2, <2>3, <2>4
<1>6. \* a holder of CHAIN
      ASSUME NEW t \in Deadlocked, Holds(t, Chain)
      PROVE  \E s, u \in Deadlocked, lock \in {Chain, Miners} : Found(s, u, lock)
  <2>1. Asks(t, "r", Chain) \/ Asks(t, "r", Miners)
    BY <1>1, <1>2, <1>6, HoldersAsk
  <2> QED
    BY <1>3, <1>5, <1>6, <2>1
<1>7. \* a task that asks for CHAIN
      ASSUME NEW t \in Deadlocked, Asks(t, "r", Chain) \/ Asks(t, "w", Chain)
      PROVE  \E s, u \in Deadlocked, lock \in {Chain, Miners} : Found(s, u, lock)
  <2>1. PICK u \in Deadlocked : Stops(u, t)
    BY <1>1
  <2>2. Holds(u, Chain) \/ Asks(u, "w", Chain)
    BY <1>7, <2>1, WhoStops DEF Holds
  <2>3. CASE Holds(u, Chain)
    BY <1>6, <2>3
  <2>4. CASE Asks(u, "w", Chain)
    <3>1. PICK v \in Deadlocked : Stops(v, u)
      BY <1>1
    <3>2. Holds(v, Chain)
      BY <2>4, <3>1, WhoStops
    <3> QED
      BY <1>6, <3>2
  <2> QED
    BY <2>2, <2>3, <2>4
<1>8. \E k \in {"r", "w"}, lock \in LockSet : Asks(x, k, lock)
  <2>1. x \in Blocked
    BY <1>1
  <2>2. Next_op(x) \in GoodOps /\ Next_op(x).kind \in {"r", "w"} /\ Asks(x, Next_op(x).kind, Next_op(x).lock)
    BY <2>1, BlockedAsks
  <2>3. Next_op(x).lock \in LockSet
    BY <2>2 DEF GoodOps, Ops
  <2> QED
    BY <2>2, <2>3
<1>9. \/ Asks(x, "r", Chain) \/ Asks(x, "w", Chain)
      \/ Asks(x, "r", Miners) \/ Asks(x, "w", Miners)
  BY <1>2, <1>8 DEF LockSet
<1> QED
  BY <1>5, <1>7, <1>9

\* The handlers that take CHAIN, MINER_DATA, MINERS_PAGE_DATA and
\* FRONTPAGE_STATS, with any number of connections and requests at a time: a
\* deadlock takes a nested read and a writer queued between its two reads.
THEOREM DeadlocksAreNestedReads == LocksSpec => []DeadlockNeedsNestedRead
<1>1. LocksInit => LocksInv
  <2> SUFFICES ASSUME LocksInit PROVE LocksInv
    OBVIOUS
  <2>1. <<>> \in Seq(GoodOps)
    OBVIOUS
  <2> QED
    BY <2>1 DEF LocksInit, LocksInv
<1> QED
  BY <1>1, LocksStep, LocksInvSafe, PTL DEF LocksSpec

---------------------------------------------------------------------------
(* The writer of the block sync. *)

\* How many blocks were taken from the channel.
Received == IF chan = NoBlock THEN sent ELSE sent - 1

\* Cardinalities aside, the domains of the variables.
WriterTypes ==
  /\ sent \in 0..N
  /\ chan \in {NoBlock, sent}
  /\ closed \in BOOLEAN
  /\ pc \in {"check", "recv", "join", "collect", "drain", "done", "panicked"}
  /\ arena \in [Arenas -> SUBSET Blocks]
  /\ current_arena \in Arenas
  /\ flush \in [state  : {"idle", "write", "mark", "page", "panicked"},
                blocks : SUBSET Blocks,
                arena  : Arenas]
  /\ written \subseteq Blocks
  /\ lost \subseteq Blocks
  /\ failed \in BOOLEAN

\* The three runs, and which variable holds which.
Runs(q, s) ==
  /\ q <= s /\ s <= Received
  /\ Received - s <= MAX_BLOCKS_PER_FLUSH
  /\ batch = (s + 1)..Received
  /\ current_txouts = batch
  /\ processing \subseteq batch
  /\ arena[current_arena] = batch
  /\ flush.blocks = (q + 1)..s
  /\ previous_txouts = flush.blocks
  /\ flush.arena = previous_arena
  /\ arena[previous_arena] = flush.blocks

\* What the flush task has achieved.  What it ended with is on disk or lost.
Progress(q, s) ==
  /\ 1..q \subseteq written \cup lost
  /\ flush.state # "write" => 1..s \subseteq written \cup lost
  /\ flush.state \in {"write", "mark"} => marked = 1..q
  /\ flush.state \in {"page", "idle"} => marked = 1..s
  /\ marked = 1..q \/ marked = 1..s

\* Where the writer is.
Stage(s) ==
  /\ pc = "check" => s = Received
  /\ pc = "recv" => Received - s < MAX_BLOCKS_PER_FLUSH
  /\ pc = "collect" => processing = {}

\* The number of blocks is not one more than what full batches hold.
NoBlockOver == \A k \in Nat : N # k * MAX_BLOCKS_PER_FLUSH + 1

\* How the download ends: every batch but the last is full, and the loop is
\* left with all blocks handed to a flush unless one can be over.
Ending(s) ==
  /\ closed => sent = N
  /\ s = N \/ \E k \in Nat : s = k * MAX_BLOCKS_PER_FLUSH
  /\ pc \in {"join", "collect"} => Received = N \/ Received - s = MAX_BLOCKS_PER_FLUSH
  /\ pc \in {"drain", "done"} /\ NoBlockOver => s = N
  /\ pc = "done" => ~FlushRunning
  /\ flush.state = "panicked" /\ flush.blocks # {} => failed

Shape(q, s) == Runs(q, s) /\ Progress(q, s) /\ Stage(s) /\ Ending(s)

WriterInv == WriterTypes /\ \E q, s \in 0..N : Shape(q, s)

\* The number of blocks in a run.
LEMMA RunSize ==
  ASSUME NEW a \in Nat, NEW b \in Nat, a <= b
  PROVE  Cardinality((a + 1)..b) = b - a
<1>1. a + 1 \in Int /\ b \in Int
  OBVIOUS
<1>2. Cardinality((a + 1)..b) = IF a + 1 > b THEN 0 ELSE b - (a + 1) + 1
  BY <1>1, FS_Interval
<1> QED
  BY <1>2

LEMMA ReceivedType ==
  ASSUME WriterTypes
  PROVE  Received \in 0..N /\ (chan # NoBlock => sent = Received + 1)
BY BlockWriterAssumption DEF WriterTypes, Received, NoBlock

\* The invariant implies the properties.
LEMMA ShapeSafe ==
  ASSUME WriterInv
  PROVE  /\ TypeOK /\ DependenciesFound /\ BuffersIntact
         /\ BatchStartsEmpty /\ MarkedInOrder
<1>1. PICK q \in 0..N, s \in 0..N : Shape(q, s)
  BY DEF WriterInv
<1> DEFINE r == Received
<1>2. N \in Nat /\ r \in 0..N /\ WriterTypes
  BY ReceivedType, BlockWriterAssumption DEF WriterInv
<1>3. /\ Runs(q, s) /\ Progress(q, s) /\ Stage(s)
      /\ q <= s /\ s <= r
  BY <1>1 DEF Shape, Runs
<1>4. Cardinality(batch) = r - s
  BY <1>2, <1>3, RunSize DEF Runs
<1>5. batch \subseteq Blocks /\ flush.blocks \subseteq Blocks /\ marked \subseteq Blocks
  <2>1. batch \subseteq Blocks
    BY <1>2, <1>3 DEF Runs, Blocks
  <2>2. flush.blocks \subseteq Blocks
    BY <1>2, <1>3 DEF Runs, Blocks
  <2>3. marked = 1..q \/ marked = 1..s
    BY <1>3 DEF Progress
  <2> QED
    BY <1>2, <2>1, <2>2, <2>3 DEF Blocks
<1>6. TypeOK
  <2>1. Cardinality(batch) <= MAX_BLOCKS_PER_FLUSH
    BY <1>3, <1>4 DEF Runs
  <2>2. chan \in Blocks \cup {NoBlock}
    BY <1>2 DEF WriterTypes, Blocks, NoBlock
  <2> QED
    BY <1>2, <1>3, <1>5, <2>1, <2>2 DEF TypeOK, WriterTypes, Runs
<1>7. DependenciesFound
  <2> SUFFICES ASSUME NEW b \in processing, NEW i \in 1..(b - 1)
               PROVE  i \in current_txouts \cup previous_txouts \cup written \cup lost
    BY DEF DependenciesFound
  <2>1. b \in (s + 1)..r /\ i \in Int /\ 1 <= i /\ i < r
    BY <1>2, <1>3 DEF Runs
  <2>2. CASE i <= q
    BY <1>3, <2>1, <2>2 DEF Progress
  <2>3. CASE q < i /\ i <= s
    BY <1>3, <2>1, <2>3 DEF Runs
  <2>4. CASE s < i
    BY <1>2, <1>3, <2>1, <2>4 DEF Runs
  <2> QED
    BY <1>2, <2>1, <2>2, <2>3, <2>4
<1>8. BuffersIntact
  BY <1>3 DEF Runs, BuffersIntact
<1>9. BatchStartsEmpty
  BY <1>2, <1>3 DEF Runs, Stage, BatchStartsEmpty
<1>10. MarkedInOrder
  <2>1. PICK k \in {q, s} : marked = 1..k /\ 1..k \subseteq written \cup lost
    <3>1. CASE marked = 1..q
      BY <1>3, <3>1 DEF Progress
    <3>2. CASE marked = 1..s /\ flush.state # "write"
      BY <1>3, <3>2 DEF Progress
    <3>3. CASE flush.state = "write"
      BY <1>3, <3>3 DEF Progress
    <3> QED
      BY <1>3, <3>1, <3>2, <3>3 DEF Progress
  <2>2. Cardinality(1..k) = k
    <3>1. k \in Nat /\ 0 <= k /\ 0 + 1 = 1
      BY <1>2
    <3> QED
      BY <3>1, FS_Interval
  <2> QED
    BY <2>1, <2>2 DEF MarkedInOrder
<1> QED
  BY <1>6, <1>7, <1>8, <1>9, <1>10

\* The invariant implies that nothing is left over.
LEMMA EndingSafe ==
  ASSUME WriterInv, NoBlockOver
  PROVE  AllFlushed
<1> SUFFICES ASSUME pc = "done", ~failed
             PROVE  marked = Blocks
  BY DEF AllFlushed
<1>1. PICK q \in 0..N, s \in 0..N : Shape(q, s)
  BY DEF WriterInv
<1>2. N \in Nat /\ s = N /\ flush.blocks = (q + 1)..s /\ q <= s
  BY <1>1, BlockWriterAssumption DEF Shape, Ending, Runs
<1>3. flush.state \in {"idle", "panicked"} /\ (flush.state = "panicked" => flush.blocks = {})
  BY <1>1 DEF WriterInv, WriterTypes, Shape, Ending, FlushRunning
<1>4. CASE flush.state = "idle"
  BY <1>1, <1>2, <1>4 DEF Shape, Progress, Blocks
<1>5. CASE flush.state = "panicked"
  <2>1. q = s
    BY <1>2, <1>3, <1>5
  <2> QED
    BY <1>1, <1>2, <1>5, <2>1 DEF Shape, Progress, Blocks
<1> QED
  BY <1>3, <1>4, <1>5

LEMMA WriterInitial ==
  Init => WriterInv
<1> SUFFICES ASSUME Init PROVE WriterInv
  OBVIOUS
<1>1. WriterTypes
  <2>1. arena \in [Arenas -> SUBSET Blocks] /\ current_arena \in Arenas
    BY DEF Init, Arenas
  <2>2. flush \in [state  : {"idle", "write", "mark", "page", "panicked"},
                  blocks : SUBSET Blocks, arena : Arenas]
    BY DEF Init, Arenas
  <2>3. sent \in 0..N /\ chan \in {NoBlock, sent}
    BY BlockWriterAssumption DEF Init
  <2> QED
    BY <2>1, <2>2, <2>3 DEF Init, WriterTypes
<1>2. Received = 0 /\ 0 \in 0..N
  BY BlockWriterAssumption DEF Init, Received
<1>3. Runs(0, 0)
  BY <1>2, BlockWriterAssumption DEF Init, Runs, previous_arena, Arenas
<1>4. Progress(0, 0)
  BY DEF Init, Progress
<1>5. Stage(0)
  BY <1>2 DEF Init, Stage
<1>6. Ending(0)
  <2>1. 0 \in Nat /\ 0 = 0 * MAX_BLOCKS_PER_FLUSH
    BY BlockWriterAssumption
  <2> QED
    BY <2>1 DEF Init, Ending
<1> QED
  BY <1>1, <1>2, <1>3, <1>4, <1>5, <1>6 DEF WriterInv, Shape

\* A step that moves only the writer's pc.
LEMMA OnlyPc ==
  ASSUME WriterInv, UNCHANGED <<masterVars, batchVars, flush, diskVars>>,
         pc' \in {"check", "recv", "join", "collect", "drain", "done", "panicked"},
         NEW q \in 0..N, NEW s \in 0..N, Shape(q, s), Stage(s)', Ending(s)'
  PROVE  WriterInv'
<1>1. WriterTypes'
  BY DEF WriterInv, WriterTypes, masterVars, batchVars, diskVars
<1>2. Runs(q, s)' /\ Progress(q, s)'
  BY DEF Shape, Runs, Progress, Received, previous_arena, masterVars, batchVars, diskVars
<1> QED
  BY <1>1, <1>2 DEF WriterInv, Shape

LEMMA WriterStep ==
  WriterInv /\ [Next]_vars => WriterInv'
<1> SUFFICES ASSUME WriterInv, [Next]_vars PROVE WriterInv'
  OBVIOUS
<1>t. WriterTypes /\ N \in Nat /\ MAX_BLOCKS_PER_FLUSH \in Nat \ {0}
      /\ Received \in 0..N /\ (chan # NoBlock => sent = Received + 1)
  BY ReceivedType, BlockWriterAssumption DEF WriterInv
<1>p. PICK q \in 0..N, s \in 0..N : Shape(q, s)
  BY DEF WriterInv
<1>s. Runs(q, s) /\ Progress(q, s) /\ Stage(s) /\ Ending(s)
  BY <1>p DEF Shape
<1>1. CASE Send
  <2>1. Received' = Received
    BY <1>1, <1>t DEF Send, Received, WriterTypes, NoBlock
  <2>2. WriterTypes'
    BY <1>1, <1>t DEF Send, WriterTypes, batchVars, diskVars
  <2>3. Runs(q, s)' /\ Progress(q, s)' /\ Stage(s)'
    BY <1>1, <1>s, <2>1
    DEF Send, Runs, Progress, Stage, previous_arena, batchVars, diskVars
  <2>4. Ending(s)'
    BY <1>1, <1>t, <1>s, <2>1 DEF Send, Ending, FlushRunning, WriterTypes, diskVars
  <2> QED
    BY <2>2, <2>3, <2>4 DEF WriterInv, Shape
<1>2. CASE DropSender
  <2>1. WriterTypes'
    BY <1>2, <1>t DEF DropSender, WriterTypes, batchVars, diskVars
  <2>2. Runs(q, s)' /\ Progress(q, s)' /\ Stage(s)'
    BY <1>2, <1>s
    DEF DropSender, Runs, Progress, Stage, Received, previous_arena, batchVars, diskVars
  <2>3. Ending(s)'
    BY <1>2, <1>s DEF DropSender, Ending, Received, FlushRunning, diskVars
  <2> QED
    BY <2>1, <2>2, <2>3 DEF WriterInv, Shape
<1>3. CASE CheckClosed
  <2>1. Received' = Received
    BY <1>3 DEF CheckClosed, Received, masterVars
  <2>2. Stage(s)'
    BY <1>3, <1>t, <1>s, <2>1 DEF CheckClosed, Stage
  <2>3. pc' \in {"drain", "recv"}
    BY <1>3 DEF CheckClosed
  <2>4. ASSUME pc' = "drain", NoBlockOver
        PROVE  s = N
    <3>1. closed /\ sent = N /\ s = Received /\ Received \in {N, N - 1}
      BY <1>3, <1>t, <1>s, <2>4 DEF CheckClosed, Ending, Stage, Received
    <3>2. ASSUME NEW k \in Nat, s = k * MAX_BLOCKS_PER_FLUSH
          PROVE  s # N - 1
      <4>1. N # s + 1
        BY <2>4, <3>2 DEF NoBlockOver
      <4> QED
        BY <1>t, <4>1
    <3> QED
      BY <1>s, <3>1, <3>2 DEF Ending
  <2>5. Ending(s)'
    BY <1>3, <1>s, <2>1, <2>3, <2>4
    DEF CheckClosed, Ending, NoBlockOver, FlushRunning, masterVars, diskVars
  <2> QED
    BY <1>3, <1>p, <2>2, <2>3, <2>5, OnlyPc DEF CheckClosed
<1>4. CASE Recv
  <2> DEFINE r == Received
  <2>1. chan = r + 1 /\ Received' = r + 1 /\ r + 1 \in Blocks
    BY <1>4, <1>t DEF Recv, Received, WriterTypes, NoBlock, Blocks
  <2> HIDE DEF r
  <2>2. /\ s \in Nat /\ r \in Nat /\ s <= r /\ q <= s
        /\ batch = (s + 1)..r /\ r - s < MAX_BLOCKS_PER_FLUSH
    BY <1>4, <1>t, <1>s DEF Recv, Runs, Stage, r
  <2>3. batch' = (s + 1)..(r + 1)
    BY <1>4, <2>1, <2>2 DEF Recv
  <2>4. Cardinality(batch') = r + 1 - s
    BY <2>2, <2>3, RunSize
  <2>5. WriterTypes'
    <3>1. arena' \in [Arenas -> SUBSET Blocks]
      BY <1>4, <1>t, <2>1 DEF Recv, WriterTypes
    <3> QED
      BY <1>4, <1>t, <3>1 DEF Recv, WriterTypes, diskVars
  <2>6. Runs(q, s)'
    <3>1. /\ current_arena \in Arenas /\ previous_arena \in Arenas
          /\ previous_arena # current_arena
          /\ arena \in [Arenas -> SUBSET Blocks]
      BY <1>t DEF WriterTypes, previous_arena, Arenas
    <3>2. /\ arena'[current_arena'] = batch'
          /\ arena'[previous_arena'] = flush.blocks
      BY <1>4, <1>s, <3>1 DEF Recv, Runs, previous_arena
    <3>3. current_txouts' = batch' /\ processing' \subseteq batch'
      BY <1>4, <1>s DEF Recv, InsertTransactions, Runs
    <3>4. /\ flush.blocks = (q + 1)..s /\ previous_txouts' = flush.blocks
          /\ flush.arena = previous_arena' /\ flush' = flush
      BY <1>4, <1>s DEF Recv, Runs, previous_arena
    <3>5. /\ q <= s /\ s <= Received' /\ Received' - s <= MAX_BLOCKS_PER_FLUSH
      BY <1>t, <2>1, <2>2
    <3> QED
      BY <2>1, <2>3, <3>2, <3>3, <3>4, <3>5 DEF Runs
  <2>7. Progress(q, s)'
    BY <1>4, <1>s DEF Recv, Progress, diskVars
  <2>8. Stage(s)'
    BY <1>4, <1>t, <2>1, <2>2, <2>4 DEF Recv, Stage, BatchFull
  <2>9. Ending(s)'
    <3>1. pc' \in {"join", "recv"}
      BY <1>4 DEF Recv
    <3>2. pc' = "join" => Received' - s = MAX_BLOCKS_PER_FLUSH
      <4>1. pc' = "join" => Cardinality(batch') = MAX_BLOCKS_PER_FLUSH
        BY <1>4 DEF Recv, BatchFull
      <4> QED
        BY <1>t, <2>1, <2>2, <2>4, <4>1
    <3> QED
      BY <1>4, <1>s, <3>1, <3>2 DEF Recv, Ending, diskVars
  <2> QED
    BY <2>5, <2>6, <2>7, <2>8, <2>9 DEF WriterInv, Shape
<1>5. CASE RecvNone
  <2>1. Stage(s)'
    BY <1>5 DEF RecvNone, Stage
  <2>2. Ending(s)'
    BY <1>5, <1>s DEF RecvNone, ChannelEnded, Ending, Received, masterVars, diskVars
  <2> QED
    BY <1>5, <1>p, <2>1, <2>2, OnlyPc DEF RecvNone
<1>6. CASE JoinBatch
  <2>1. Stage(s)'
    BY <1>6 DEF JoinBatch, Stage, batchVars
  <2>2. Ending(s)'
    BY <1>6, <1>s DEF JoinBatch, Ending, Received, masterVars, diskVars
  <2> QED
    BY <1>6, <1>p, <2>1, <2>2, OnlyPc DEF JoinBatch
<1>7. CASE SwapAndSpawn
  <2>r. PICK r \in 0..N : r = Received
    BY <1>t
  <2>1. flush.state = "idle" /\ processing = {}
    BY <1>7, <1>t, <1>s
    DEF SwapAndSpawn, Collected, VectorsBack, FlushRunning, WriterTypes, Stage
  <2>2. Received' = r /\ r \in 0..N
    BY <1>7, <2>r DEF SwapAndSpawn, Received, masterVars
  <2>3. /\ current_arena \in Arenas /\ previous_arena \in Arenas
        /\ previous_arena # current_arena /\ previous_arena' = current_arena
        /\ current_arena' = previous_arena
        /\ arena \in [Arenas -> SUBSET Blocks]
    BY <1>7, <1>t DEF SwapAndSpawn, NextArena, WriterTypes, previous_arena, Arenas
  <2>4. batch \subseteq Blocks /\ batch = (s + 1)..r /\ q <= s /\ s <= r
    BY <1>s, <2>r, <2>3 DEF Runs
  <2>5. WriterTypes'
    <3>1. arena' \in [Arenas -> SUBSET Blocks] /\ current_arena' \in Arenas
      BY <1>7, <2>3 DEF SwapAndSpawn, ResetPrevious
    <3>2. flush' \in [state  : {"idle", "write", "mark", "page", "panicked"},
                     blocks : SUBSET Blocks, arena : Arenas]
      BY <1>7, <2>3, <2>4 DEF SwapAndSpawn
    <3> QED
      BY <1>7, <1>t, <3>1, <3>2 DEF SwapAndSpawn, WriterTypes, masterVars, diskVars
  <2>6. Runs(s, r)'
    <3>1. arena'[previous_arena] = {} /\ arena'[current_arena] = batch
      BY <1>7, <1>s, <2>3 DEF SwapAndSpawn, ResetPrevious, Runs
    <3>2. /\ batch' = {} /\ current_txouts' = {} /\ processing' = {}
          /\ flush'.blocks = batch /\ previous_txouts' = batch
          /\ flush'.arena = current_arena
      BY <1>7, <1>s, <2>1 DEF SwapAndSpawn, NextPreviousTxouts, Runs
    <3>3. (r + 1)..r = {}
      BY <2>2
    <3>4. s <= r /\ r <= Received' /\ Received' - r <= MAX_BLOCKS_PER_FLUSH
      BY <1>t, <2>2, <2>4
    <3> QED
      BY <2>2, <2>3, <2>4, <3>1, <3>2, <3>3, <3>4 DEF Runs
  <2>7. Progress(s, r)'
    BY <1>7, <1>s, <2>1 DEF SwapAndSpawn, Progress, diskVars
  <2>8. Stage(r)'
    BY <1>7, <2>2 DEF SwapAndSpawn, Stage
  <2>9. Ending(r)'
    <3>1. r = N \/ \E k \in Nat : r = k * MAX_BLOCKS_PER_FLUSH
      <4>1. CASE r - s = MAX_BLOCKS_PER_FLUSH /\ r # N
        <5>1. PICK k \in Nat : s = k * MAX_BLOCKS_PER_FLUSH
          BY <1>t, <1>s, <2>4, <4>1 DEF Ending
        <5>2. k + 1 \in Nat /\ (k + 1) * MAX_BLOCKS_PER_FLUSH = k * MAX_BLOCKS_PER_FLUSH + MAX_BLOCKS_PER_FLUSH
          BY <1>t
        <5>3. r = (k + 1) * MAX_BLOCKS_PER_FLUSH
          BY <1>t, <4>1, <5>1, <5>2
        <5> QED
          BY <5>2, <5>3
      <4> QED
        BY <1>7, <1>s, <2>r, <4>1 DEF SwapAndSpawn, Ending
    <3>2. flush'.state = "write" /\ pc' = "check"
      BY <1>7 DEF SwapAndSpawn
    <3> QED
      BY <1>7, <1>s, <3>1, <3>2 DEF SwapAndSpawn, Ending, masterVars
  <2> QED
    BY <2>2, <2>5, <2>6, <2>7, <2>8, <2>9 DEF WriterInv, Shape
<1>8. CASE TakePanics
  <2>1. Stage(s)'
    BY <1>8 DEF TakePanics, Stage
  <2>2. Ending(s)'
    BY <1>8, <1>s DEF TakePanics, Ending, masterVars, diskVars
  <2> QED
    BY <1>8, <1>p, <2>1, <2>2, OnlyPc DEF TakePanics
<1>9. CASE Finish
  <2>1. Stage(s)'
    BY <1>9 DEF Finish, Stage
  <2>2. Ending(s)'
    BY <1>9, <1>s DEF Finish, Drained, FlushRunning, Ending, NoBlockOver, masterVars, diskVars
  <2> QED
    BY <1>9, <1>p, <2>1, <2>2, OnlyPc DEF Finish
<1>10. ASSUME NEW b \in Blocks, FinishProcessing(b) \/ GiveUpProcessing(b)
       PROVE  WriterInv'
  <2>1. /\ UNCHANGED <<masterVars, pc, batch, current_txouts, previous_txouts, arena,
                       current_arena, flush, written, marked, failed>>
        /\ processing' \subseteq processing
        /\ lost \subseteq lost' /\ lost' \subseteq Blocks
        /\ processing = {} => processing' = {}
    BY <1>10, <1>t DEF FinishProcessing, GiveUpProcessing, WriterTypes, diskVars
  <2>2. WriterTypes'
    BY <2>1, <1>t DEF WriterTypes, masterVars
  <2>3. Runs(q, s)' /\ Stage(s)'
    BY <2>1, <1>s DEF Runs, Stage, Received, previous_arena, masterVars
  <2>4. Progress(q, s)'
    <3>1. flush' = flush /\ written' = written /\ marked' = marked
      BY <2>1
    <3> QED
      BY <2>1, <1>s, <3>1 DEF Progress
  <2>5. Ending(s)'
    BY <2>1, <1>s DEF Ending, NoBlockOver, Received, FlushRunning, masterVars
  <2> QED
    BY <2>2, <2>3, <2>4, <2>5 DEF WriterInv, Shape
<1>11. CASE Flush
  <2> USE DEF FlushTo
  <2>d. FlushWrite \/ TableFails \/ FlushMark \/ FlushPage \/ FlushPanics
    BY <1>11 DEF Flush
  <2>1. /\ UNCHANGED <<masterVars, pc, batchVars>>
        /\ flush' = [flush EXCEPT !.state = flush'.state]
        /\ flush'.state \in {"idle", "mark", "page", "panicked"}
        /\ flush'.blocks = flush.blocks /\ flush'.arena = flush.arena
    BY <2>d, <1>t DEF FlushWrite, TableFails, FlushMark, FlushPage, FlushPanics, WriterTypes
  <2>2. /\ flush.blocks \subseteq Blocks
        /\ written' \subseteq Blocks /\ lost' \subseteq Blocks /\ failed' \in BOOLEAN
    BY <2>d, <1>t
    DEF FlushWrite, TableFails, FlushMark, FlushPage, FlushPanics, WriterTypes, diskVars
  <2>3. WriterTypes'
    BY <1>t, <2>1, <2>2 DEF WriterTypes, masterVars, batchVars
  <2>4. Runs(q, s)' /\ Stage(s)'
    BY <1>s, <2>1 DEF Runs, Stage, Received, previous_arena, masterVars, batchVars
  <2>5. 1..s = 1..q \cup flush.blocks
    BY <1>s DEF Runs
  <2>6. Progress(q, s)'
    <3>t. flush \in [state : {"idle", "write", "mark", "page", "panicked"},
                     blocks : SUBSET Blocks, arena : Arenas]
      BY <1>t DEF WriterTypes
    <3>1. CASE FlushWrite
      <4>1. /\ written' = written \cup (flush.blocks \ lost) /\ lost' = lost
            /\ flush'.state = "mark" /\ marked' = marked /\ flush.state = "write"
        BY <3>1, <3>t DEF FlushWrite
      <4> QED
        BY <1>s, <2>5, <4>1 DEF Progress
    <3>2. CASE TableFails
      <4>1. /\ lost' = lost \cup flush.blocks /\ written' = written
            /\ flush'.state = "mark" /\ marked' = marked /\ flush.state = "write"
        BY <3>2, <3>t DEF TableFails
      <4> QED
        BY <1>s, <2>5, <4>1 DEF Progress
    <3>3. CASE FlushMark
      <4>1. /\ marked' = marked \cup flush.blocks /\ written' = written /\ lost' = lost
            /\ flush'.state = "page" /\ flush.state = "mark"
        BY <3>3, <3>t DEF FlushMark
      <4> QED
        BY <1>s, <2>5, <4>1 DEF Progress
    <3>4. CASE FlushPage
      <4>1. /\ marked' = marked /\ written' = written /\ lost' = lost
            /\ flush'.state = "idle" /\ flush.state = "page"
        BY <3>4, <3>t DEF FlushPage, diskVars
      <4> QED
        BY <1>s, <4>1 DEF Progress
    <3>5. CASE FlushPanics
      <4>1. /\ marked' = marked /\ written' = written /\ lost' = lost
            /\ flush'.state = "panicked"
            /\ flush.state \in {"mark", "page"} \/ flush.blocks = {}
        BY <3>5, <3>t DEF FlushPanics
      <4> QED
        BY <1>s, <2>5, <4>1 DEF Progress
    <3> QED
      BY <2>d, <3>1, <3>2, <3>3, <3>4, <3>5
  <2>7. Ending(s)'
    <3>1. FlushRunning
      BY <2>d DEF FlushWrite, TableFails, FlushMark, FlushPage, FlushPanics, FlushRunning
    <3>2. flush'.state = "panicked" /\ flush'.blocks # {} => failed'
      <4>1. flush \in [state  : {"idle", "write", "mark", "page", "panicked"},
                      blocks : SUBSET Blocks, arena : Arenas]
        BY <1>t DEF WriterTypes
      <4>2. CASE FlushWrite \/ TableFails \/ FlushMark \/ FlushPage
        BY <4>1, <4>2 DEF FlushWrite, TableFails, FlushMark, FlushPage
      <4>3. CASE FlushPanics
        <5>1. failed' = (failed \/ flush.blocks # {})
          BY <4>3 DEF FlushPanics
        <5> QED
          BY <2>1, <5>1, Zenon
      <4> QED
        BY <2>d, <4>2, <4>3
    <3> QED
      BY <1>s, <2>1, <3>1, <3>2 DEF Ending, NoBlockOver, Received, masterVars
  <2> QED
    BY <2>3, <2>4, <2>6, <2>7 DEF WriterInv, Shape
<1>12. CASE UNCHANGED vars
  <2>1. UNCHANGED <<masterVars, batchVars, flush, diskVars>> /\ pc' = pc
    BY <1>12 DEF vars
  <2>2. Stage(s)'
    BY <1>s, <2>1 DEF Stage, Received, masterVars, batchVars
  <2>3. Ending(s)'
    BY <1>s, <2>1 DEF Ending, NoBlockOver, Received, FlushRunning, masterVars, diskVars
  <2> QED
    BY <1>t, <1>p, <2>1, <2>2, <2>3, OnlyPc DEF WriterTypes
<1> QED
  BY <1>1, <1>2, <1>3, <1>4, <1>5, <1>6, <1>7, <1>8, <1>9, <1>10, <1>11, <1>12
  DEF Next, Writer

LEMMA WriterAlways ==
  Spec => [](TypeOK /\ DependenciesFound /\ BuffersIntact /\ BatchStartsEmpty
             /\ MarkedInOrder)
<1>1. WriterInv => TypeOK /\ DependenciesFound /\ BuffersIntact /\ BatchStartsEmpty
                   /\ MarkedInOrder
  BY ShapeSafe
<1> QED
  BY <1>1, WriterInitial, WriterStep, PTL DEF Spec

\* receive_and_process_blocks keeps its variables in their domains, and a batch
\* within MAX_BLOCKS_PER_FLUSH.
THEOREM WriterTypeCorrect == Spec => []TypeOK
BY WriterAlways, PTL

\* process_block finds the outputs of every earlier block in one of the two
\* maps or on disk, whatever the flush task is doing, unless that block was
\* given up or one of its tables failed.
THEOREM DependenciesAlwaysFound == Spec => []DependenciesFound
BY WriterAlways, PTL

\* Neither arena is reset while the flush task or a map of outputs points into
\* it.
THEOREM BuffersStayIntact == Spec => []BuffersIntact
BY WriterAlways, PTL

\* The assertion that a batch starts in an empty arena never fails.
THEOREM BatchesStartEmpty == Spec => []BatchStartsEmpty
BY WriterAlways, PTL

\* Blocks are marked as downloaded in chain order, and none before its write
\* has ended: a marked block is on disk, or it was given up or one of its
\* tables failed, for any number of blocks and any pattern of failures.
THEOREM BlocksMarkedInOrder == Spec => []MarkedInOrder
BY WriterAlways, PTL

\* When sync_blocks returns and no flush task panicked, every block was marked, for any
\* number of blocks but one more than a multiple of MAX_BLOCKS_PER_FLUSH: with
\* such a number the loop may end with the last block in the channel, as the run
\* writer_last shows.
THEOREM NothingLeftOver ==
  ASSUME NoBlockOver
  PROVE  Spec => []AllFlushed
<1>1. WriterInv => AllFlushed
  BY EndingSafe
<1> QED
  BY <1>1, WriterInitial, WriterStep, PTL DEF Spec
=============================================================================

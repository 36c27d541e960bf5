--------------------------- MODULE BlockTreeProofs ---------------------------
(***************************************************************************)
(* What the other proofs use of module BlockTree, of lists and of          *)
(* induction: a set of naturals that holds 0 and every successor is all of *)
(* them, and a set of blocks that holds the genesis block and every child  *)
(* of a member is all of them.  With the second, what PathTo computes is   *)
(* proved: a path is closed under parents, its beginnings are paths, each  *)
(* block follows its parent, and a closed set cuts it in two.              *)
(***************************************************************************)
EXTENDS BlockTree, SequenceTheorems, FiniteSetTheorems, WellFoundedInduction, TLAPS

-----------------------------------------------------------------------------
(* Induction, over the naturals and over the tree of blocks, in terms of    *)
(* sets.                                                                    *)

LEMMA LeastNatural ==
  ASSUME NEW T \in SUBSET Nat, T # {}
  PROVE  \E n \in T : \A m \in T : n <= m
<1> DEFINE R == {p \in Nat \X Nat : p[1] < p[2]}
<1>1. IsWellFoundedOn(OpToRel(<, Nat), Nat)
  BY NatLessThanWellFounded
<1>2. OpToRel(<, Nat) = R
  BY DEF OpToRel
<1>3. IsWellFoundedOn(R, Nat)
  BY <1>1, <1>2
<1> HIDE DEF R
<1>4. PICK n \in T : \A m \in T : ~(<<m, n>> \in R)
  BY <1>3, WFMin
<1>5. ASSUME NEW m \in T
      PROVE  n <= m
  <2>1. ~(<<m, n>> \in R) /\ <<m, n>> \in Nat \X Nat
    BY <1>4
  <2>2. ~(m < n)
    BY <2>1 DEF R
  <2> QED
    BY <2>2
<1> QED
  BY <1>5

LEMMA NaturalsInSet ==
  ASSUME NEW T, 0 \in T, \A n \in Nat : n \in T => n + 1 \in T
  PROVE  Nat \subseteq T
<1> DEFINE out == Nat \ T
<1> SUFFICES ASSUME out # {}
             PROVE  FALSE
  OBVIOUS
<1>1. PICK n \in out : \A m \in out : n <= m
  BY LeastNatural
<1>2. n # 0 /\ n - 1 \in Nat /\ n - 1 \notin out
  BY <1>1
<1> QED
  BY <1>2

\* Work decreases towards Genesis.
LEMMA WorkType ==
  /\ \A b \in Blocks : Work[b] \in Nat
  /\ \A b \in Blocks \ {Genesis} : Parent[b] \in Blocks /\ Work[Parent[b]] < Work[b]
BY TreeAssumption

LEMMA BlocksInSet ==
  ASSUME NEW T, Genesis \in T,
         \A b \in Blocks \ {Genesis} : Parent[b] \in T => b \in T
  PROVE  Blocks \subseteq T
<1> DEFINE works == {Work[b] : b \in Blocks \ T}
<1> SUFFICES ASSUME Blocks \ T # {}
             PROVE  FALSE
  OBVIOUS
<1>1. works \in SUBSET Nat /\ works # {}
  BY WorkType
<1>2. PICK n \in works : \A m \in works : n <= m
  BY <1>1, LeastNatural
<1>3. PICK b \in Blocks \ T : Work[b] = n
  BY <1>2
<1>4. b # Genesis /\ Parent[b] \in Blocks /\ Work[Parent[b]] < n
  BY <1>3, WorkType
<1>5. Parent[b] \notin T
  BY <1>3, <1>4
<1>6. Work[Parent[b]] \in works
  BY <1>4, <1>5
<1>7. n <= Work[Parent[b]] /\ n \in Nat /\ Work[Parent[b]] \in Nat
  BY <1>1, <1>2, <1>6
<1> QED
  BY <1>4, <1>7

-----------------------------------------------------------------------------
(* Filtered.                                                                *)

LEMMA FilteringDef ==
  ASSUME NEW U, NEW s \in Seq(U), NEW S
  PROVE  Filtering(s, S) =
           [i \in 0..Len(s) |->
              IF i = 0 THEN <<>>
              ELSE IF s[i] \in S THEN Append(Filtering(s, S)[i - 1], s[i])
                                 ELSE Filtering(s, S)[i - 1]]
<1> DEFINE Value(g, i) == IF i = 0 THEN <<>>
                          ELSE IF s[i] \in S THEN Append(g[i - 1], s[i]) ELSE g[i - 1]
           Is(n, g) == g = [i \in 0..n |-> Value(g, i)]
           T == {n \in Nat : \E g : Is(n, g)}
<1>1. 0 \in T
  <2> DEFINE g == [i \in 0..0 |-> <<>>]
  <2>1. Is(0, g)
    OBVIOUS
  <2> QED
    BY <2>1
<1>2. ASSUME NEW n \in Nat, n \in T
      PROVE  n + 1 \in T
  <2>1. PICK g : Is(n, g)
    BY <1>2
  <2> DEFINE h == [i \in 0..(n + 1) |-> IF i <= n THEN g[i]
                                        ELSE IF s[i] \in S THEN Append(g[n], s[i]) ELSE g[n]]
  <2>2. \A i \in 0..n : g[i] = Value(g, i)
    BY <2>1
  <2>3. ASSUME NEW i \in 0..(n + 1)
        PROVE  h[i] = Value(h, i)
    <3>1. CASE i = 0
      BY <3>1, <2>2
    <3>2. CASE i \in 1..n
      <4>1. i - 1 \in 0..n /\ i - 1 \in 0..(n + 1)
        BY <3>2
      <4>2. h[i] = g[i] /\ h[i - 1] = g[i - 1]
        BY <4>1, <3>2
      <4> QED
        BY <4>2, <2>2, <3>2
    <3>3. CASE i = n + 1
      <4>1. h[n] = g[n] /\ i - 1 = n /\ i # 0
        BY <3>3
      <4> QED
        BY <4>1, <3>3
    <3> QED
      BY <3>1, <3>2, <3>3
  <2>4. h = [i \in 0..(n + 1) |-> h[i]]
    OBVIOUS
  <2> HIDE DEF h
  <2>5. Is(n + 1, h)
    BY <2>3, <2>4
  <2> QED
    BY <2>5
<1>3. Nat \subseteq T
  <2> HIDE DEF T
  <2> QED
    BY <1>1, <1>2, NaturalsInSet
<1>4. \E g : Is(Len(s), g)
  BY <1>3, LenProperties
<1> QED
  BY <1>4 DEF Filtering

LEMMA FilteringStep ==
  ASSUME NEW U, NEW s \in Seq(U), NEW S
  PROVE  /\ Filtering(s, S)[0] = <<>>
         /\ \A i \in 1..Len(s) :
              Filtering(s, S)[i] = IF s[i] \in S THEN Append(Filtering(s, S)[i - 1], s[i])
                                                 ELSE Filtering(s, S)[i - 1]
<1> DEFINE F == Filtering(s, S)
           Value(i) == IF i = 0 THEN <<>>
                       ELSE IF s[i] \in S THEN Append(F[i - 1], s[i]) ELSE F[i - 1]
<1>1. Len(s) \in Nat
  BY LenProperties
<1>2. F = [i \in 0..Len(s) |-> Value(i)]
  BY FilteringDef
<1> HIDE DEF F, Value
<1>3. \A i \in 0..Len(s) : F[i] = Value(i)
  BY <1>2
<1>4. F[0] = <<>>
  BY <1>1, <1>3 DEF Value
<1>5. ASSUME NEW i \in 1..Len(s)
      PROVE  F[i] = IF s[i] \in S THEN Append(F[i - 1], s[i]) ELSE F[i - 1]
  <2>1. i \in 0..Len(s) /\ i # 0
    BY <1>1
  <2>2. F[i] = Value(i)
    BY <2>1, <1>3
  <2> QED
    BY <2>1, <2>2, Zenon DEF Value
<1> QED
  BY <1>4, <1>5 DEF F

\* What is left of a list is a list of its elements.
LEMMA FilteredType ==
  ASSUME NEW U, NEW s \in Seq(U), NEW S
  PROVE  Filtered(s, S) \in Seq(U)
<1> DEFINE F == Filtering(s, S)
           T == {n \in Nat : n <= Len(s) => F[n] \in Seq(U)}
<1>1. Len(s) \in Nat /\ \A i \in 1..Len(s) : s[i] \in U
  BY LenProperties, ElementOfSeq
<1>2. /\ F[0] = <<>>
      /\ \A i \in 1..Len(s) : F[i] = IF s[i] \in S THEN Append(F[i - 1], s[i]) ELSE F[i - 1]
  BY FilteringStep
<1> HIDE DEF F
<1>3. 0 \in T
  BY <1>2, EmptySeq
<1>4. ASSUME NEW n \in Nat, n \in T
      PROVE  n + 1 \in T
  <2> SUFFICES ASSUME n + 1 <= Len(s)
               PROVE  F[n + 1] \in Seq(U)
    OBVIOUS
  <2>1. n + 1 \in 1..Len(s) /\ (n + 1) - 1 = n
    BY <1>1
  <2>2. F[n] \in Seq(U)
    BY <1>1, <1>4
  <2>3. F[n + 1] = IF s[n + 1] \in S THEN Append(F[n], s[n + 1]) ELSE F[n]
    BY <2>1, <1>2
  <2>4. s[n + 1] \in U
    BY <2>1, <1>1
  <2> QED
    BY <2>2, <2>3, <2>4, AppendProperties
<1>5. Nat \subseteq T
  <2> HIDE DEF T
  <2> QED
    BY <1>3, <1>4, NaturalsInSet
<1>6. F[Len(s)] \in Seq(U)
  BY <1>1, <1>5
<1> QED
  BY <1>6 DEF Filtered, F

LEMMA FilteredEmpty ==
  ASSUME NEW S
  PROVE  Filtered(<<>>, S) = <<>>
<1>1. \A s \in Seq(Blocks) : Filtering(s, S)[0] = <<>>
  BY FilteringStep
<1>2. <<>> \in Seq(Blocks) /\ Len(<<>>) = 0
  BY EmptySeq
<1> QED
  BY <1>1, <1>2 DEF Filtered

LEMMA FilteredAppend ==
  ASSUME NEW U, NEW s \in Seq(U), NEW e \in U, NEW S
  PROVE  Filtered(Append(s, e), S) =
           IF e \in S THEN Append(Filtered(s, S), e) ELSE Filtered(s, S)
<1> DEFINE t == Append(s, e)
           F == Filtering(s, S)
           G == Filtering(t, S)
           T == {n \in Nat : n <= Len(s) => F[n] = G[n]}
<1>1. /\ t \in Seq(U) /\ Len(t) = Len(s) + 1 /\ Len(s) \in Nat
      /\ \A i \in 1..Len(s) : t[i] = s[i]
      /\ t[Len(s) + 1] = e
  BY AppendProperties, LenProperties
<1> HIDE DEF t
<1>2. /\ F[0] = <<>>
      /\ \A i \in 1..Len(s) : F[i] = IF s[i] \in S THEN Append(F[i - 1], s[i]) ELSE F[i - 1]
  BY FilteringStep
<1>3. /\ G[0] = <<>>
      /\ \A i \in 1..Len(t) : G[i] = IF t[i] \in S THEN Append(G[i - 1], t[i]) ELSE G[i - 1]
  BY <1>1, FilteringStep
<1> HIDE DEF F, G
<1>4. 0 \in T
  BY <1>2, <1>3
<1>5. ASSUME NEW n \in Nat, n \in T
      PROVE  n + 1 \in T
  <2> SUFFICES ASSUME n + 1 <= Len(s)
               PROVE  F[n + 1] = G[n + 1]
    OBVIOUS
  <2>1. n + 1 \in 1..Len(s) /\ n + 1 \in 1..Len(t) /\ (n + 1) - 1 = n
    BY <1>1
  <2>2. F[n] = G[n] /\ s[n + 1] = t[n + 1]
    BY <1>1, <1>5, <2>1
  <2>3. F[n + 1] = IF s[n + 1] \in S THEN Append(F[n], s[n + 1]) ELSE F[n]
    BY <2>1, <1>2
  <2>4. G[n + 1] = IF t[n + 1] \in S THEN Append(G[n], t[n + 1]) ELSE G[n]
    BY <2>1, <1>3
  <2> QED
    BY <2>2, <2>3, <2>4
<1>6. Nat \subseteq T
  <2> HIDE DEF T
  <2> QED
    BY <1>4, <1>5, NaturalsInSet
<1>7. F[Len(s)] = G[Len(s)]
  BY <1>1, <1>6
<1>8. G[Len(t)] = IF e \in S THEN Append(G[Len(s)], e) ELSE G[Len(s)]
  <2> DEFINE n == Len(s)
  <2>1. n + 1 \in 1..Len(t) /\ (n + 1) - 1 = n /\ Len(t) = n + 1 /\ t[n + 1] = e
    BY <1>1
  <2> HIDE DEF n
  <2>2. G[n + 1] = IF t[n + 1] \in S THEN Append(G[n], t[n + 1]) ELSE G[n]
    BY <2>1, <1>3
  <2> QED
    BY <2>1, <2>2 DEF n
<1> QED
  BY <1>7, <1>8 DEF Filtered, F, G, t

-----------------------------------------------------------------------------
(* The tree and its paths.                                                  *)

LEMMA MostWorkExists ==
  ASSUME NEW S \in SUBSET Blocks, S # {}
  PROVE  \E b \in S : \A c \in S : Work[c] <= Work[b]
<1> DEFINE HasMost(X) == \E b \in X : \A c \in X : Work[c] <= Work[b]
           T == {n \in Nat : \A X \in SUBSET Blocks : Cardinality(X) = n /\ X # {} => HasMost(X)}
<1>1. \A X \in SUBSET Blocks : IsFiniteSet(X) /\ Cardinality(X) \in Nat
  BY TreeAssumption, FS_Subset, FS_CardinalityType
<1>2. 0 \in T
  BY <1>1, FS_EmptySet
<1>3. ASSUME NEW n \in Nat, n \in T
      PROVE  n + 1 \in T
  <2> SUFFICES ASSUME NEW X \in SUBSET Blocks, Cardinality(X) = n + 1, X # {}
               PROVE  HasMost(X)
    OBVIOUS
  <2>1. PICK x \in X : TRUE
    OBVIOUS
  <2> DEFINE Y == X \ {x}
  <2>2. Cardinality(Y) = n /\ Y \in SUBSET Blocks
    <3>1. IsFiniteSet(X)
      BY <1>1
    <3>2. Cardinality(Y) = Cardinality(X) - 1
      BY <3>1, FS_RemoveElement
    <3> QED
      BY <3>2
  <2>3. CASE Y = {}
    <3>1. \A c \in X : c = x
      BY <2>3
    <3> QED
      BY <3>1, WorkType
  <2>4. CASE Y # {}
    <3>1. PICK b \in Y : \A c \in Y : Work[c] <= Work[b]
      BY <2>2, <2>4, <1>3
    <3>2. /\ b \in X /\ Work[b] \in Nat /\ Work[x] \in Nat
          /\ \A c \in X : Work[c] \in Nat /\ (c = x \/ c \in Y)
      BY <3>1, WorkType
    <3>3. CASE Work[b] <= Work[x]
      BY <3>1, <3>2, <3>3
    <3>4. CASE Work[x] <= Work[b]
      BY <3>1, <3>2, <3>4
    <3> QED
      BY <3>2, <3>3, <3>4
  <2> QED
    BY <2>3, <2>4
<1>4. Nat \subseteq T
  <2> HIDE DEF T
  <2> QED
    BY <1>2, <1>3, NaturalsInSet
<1> QED
  BY <1>1, <1>4

LEMMA PathDef ==
  /\ PathTo[Genesis] = <<Genesis>>
  /\ \A b \in Blocks \ {Genesis} : PathTo[b] = Append(PathTo[Parent[b]], b)
<1> DEFINE Value(g, b) == IF b = Genesis THEN <<b>> ELSE Append(g[Parent[b]], b)
           Below(n) == {b \in Blocks : Work[b] < n}
           Is(n, g) == g = [b \in Below(n) |-> Value(g, b)]
           T == {n \in Nat : \E g : Is(n, g)}
<1>1. 0 \in T
  <2>1. Below(0) = {}
    BY WorkType
  <2> DEFINE g == [b \in Below(0) |-> <<>>]
  <2>2. Is(0, g)
    BY <2>1
  <2> QED
    BY <2>2
<1>2. ASSUME NEW n \in Nat, n \in T
      PROVE  n + 1 \in T
  <2>1. PICK g : Is(n, g)
    BY <1>2
  <2>2. \A b \in Below(n) : g[b] = Value(g, b)
    BY <2>1
  <2>3. \A b \in Below(n + 1) \ {Genesis} : Parent[b] \in Below(n)
    BY WorkType
  <2>4. Below(n) \subseteq Below(n + 1)
    BY WorkType
  <2> HIDE DEF Below
  <2> DEFINE h == [b \in Below(n + 1) |-> IF b \in Below(n) THEN g[b] ELSE Value(g, b)]
  <2>5. ASSUME NEW b \in Below(n + 1)
        PROVE  h[b] = Value(h, b)
    <3>1. h[b] = Value(g, b)
      BY <2>2
    <3>2. CASE b = Genesis
      BY <3>1, <3>2
    <3>3. CASE b # Genesis
      <4>1. h[Parent[b]] = g[Parent[b]]
        BY <2>3, <2>4, <3>3
      <4> QED
        BY <3>1, <3>3, <4>1
    <3> QED
      BY <3>2, <3>3
  <2>6. h = [b \in Below(n + 1) |-> h[b]]
    OBVIOUS
  <2> HIDE DEF h
  <2>7. Is(n + 1, h)
    BY <2>5, <2>6
  <2> QED
    BY <2>7
<1>3. Nat \subseteq T
  <2> HIDE DEF T
  <2> QED
    BY <1>1, <1>2, NaturalsInSet
<1>4. \E n \in Nat : Blocks = Below(n)
  <2>1. PICK m \in Blocks : \A c \in Blocks : Work[c] <= Work[m]
    BY MostWorkExists, TreeAssumption
  <2>2. Work[m] + 1 \in Nat /\ \A c \in Blocks : Work[c] < Work[m] + 1
    BY <2>1, WorkType
  <2> QED
    BY <2>2
<1>5. \E g : g = [b \in Blocks |-> Value(g, b)]
  BY <1>3, <1>4
<1>6. PathTo = [b \in Blocks |-> Value(PathTo, b)]
  BY <1>5 DEF PathTo
<1>7. \A b \in Blocks : PathTo[b] = Value(PathTo, b)
  BY <1>6
<1> QED
  BY <1>7, TreeAssumption

-----------------------------------------------------------------------------
(* Lists.                                                                   *)

LEMMA ListBasics ==
  ASSUME NEW U, NEW s \in Seq(U)
  PROVE  /\ Len(s) \in Nat
         /\ DOMAIN s = 1..Len(s)
         /\ \A i \in 1..Len(s) : s[i] \in U /\ s[i] \in ToSet(s)
         /\ ToSet(s) = {s[i] : i \in 1..Len(s)}
         /\ ToSet(s) \subseteq U
         /\ s # <<>> => Len(s) >= 1 /\ Last(s) \in U /\ Last(s) \in ToSet(s)
         /\ Len(s) = 0 <=> s = <<>>
<1>1. Len(s) \in Nat /\ DOMAIN s = 1..Len(s) /\ \A i \in 1..Len(s) : s[i] \in U
  BY LenProperties, ElementOfSeq
<1>2. ToSet(s) = {s[i] : i \in 1..Len(s)}
  BY <1>1 DEF ToSet
<1>3. ToSet(s) \subseteq U /\ \A i \in 1..Len(s) : s[i] \in ToSet(s)
  BY <1>1, <1>2
<1>4. Len(s) = 0 <=> s = <<>>
  BY <1>1, EmptySeq
<1>5. ASSUME s # <<>>
      PROVE  Len(s) >= 1 /\ Last(s) \in U /\ Last(s) \in ToSet(s)
  <2>1. Len(s) \in 1..Len(s)
    BY <1>1, <1>4, <1>5
  <2> QED
    BY <2>1, <1>1, <1>3 DEF Last
<1> QED
  BY <1>1, <1>2, <1>3, <1>4, <1>5

LEMMA EmptyBasics ==
  ToSet(<<>>) = {} /\ Len(<<>>) = 0 /\ \A U : <<>> \in Seq(U)
BY EmptySeq DEF ToSet

LEMMA AppendBasics ==
  ASSUME NEW U, NEW s \in Seq(U), NEW e \in U
  PROVE  /\ Append(s, e) \in Seq(U) /\ Append(s, e) # <<>>
         /\ Last(Append(s, e)) = e
         /\ ToSet(Append(s, e)) = ToSet(s) \cup {e}
<1> DEFINE t == Append(s, e)
<1>1. /\ t \in Seq(U) /\ t # <<>> /\ Len(t) = Len(s) + 1
      /\ \A i \in 1..Len(s) : t[i] = s[i]
      /\ t[Len(s) + 1] = e
  BY AppendProperties
<1>2. Len(s) \in Nat
  BY LenProperties
<1> HIDE DEF t
<1>3. ToSet(s) = {s[i] : i \in 1..Len(s)} /\ ToSet(t) = {t[i] : i \in 1..(Len(s) + 1)}
  BY <1>1, ListBasics
<1>4. 1..(Len(s) + 1) = 1..Len(s) \cup {Len(s) + 1}
  BY <1>2
<1>5. ToSet(t) = ToSet(s) \cup {e}
  BY <1>1, <1>3, <1>4
<1>6. Last(t) = e
  BY <1>1 DEF Last
<1> QED
  BY <1>1, <1>5, <1>6 DEF t

LEMMA ConcatBasics ==
  ASSUME NEW U, NEW s \in Seq(U), NEW t \in Seq(U)
  PROVE  /\ s \o t \in Seq(U)
         /\ Len(s \o t) = Len(s) + Len(t)
         /\ ToSet(s \o t) = ToSet(s) \cup ToSet(t)
         /\ t # <<>> => s \o t # <<>> /\ Last(s \o t) = Last(t)
         /\ s # <<>> => s \o t # <<>>
         /\ s \o <<>> = s /\ <<>> \o t = t
<1> DEFINE st == s \o t
<1>1. /\ st \in Seq(U) /\ Len(st) = Len(s) + Len(t)
      /\ \A i \in 1..(Len(s) + Len(t)) :
           st[i] = IF i <= Len(s) THEN s[i] ELSE t[i - Len(s)]
  BY ConcatProperties
<1>2. Len(s) \in Nat /\ Len(t) \in Nat
  BY LenProperties
<1> HIDE DEF st
<1>3. /\ ToSet(s) = {s[i] : i \in 1..Len(s)} /\ ToSet(t) = {t[i] : i \in 1..Len(t)}
      /\ ToSet(st) = {st[i] : i \in 1..(Len(s) + Len(t))}
  BY <1>1, ListBasics
<1>4. ToSet(st) \subseteq ToSet(s) \cup ToSet(t)
  <2> SUFFICES ASSUME NEW i \in 1..(Len(s) + Len(t))
               PROVE  st[i] \in ToSet(s) \cup ToSet(t)
    BY <1>3
  <2>1. CASE i <= Len(s)
    <3>1. i \in 1..Len(s) /\ st[i] = s[i]
      BY <1>1, <1>2, <2>1
    <3> QED
      BY <3>1, <1>3
  <2>2. CASE ~(i <= Len(s))
    <3>1. i - Len(s) \in 1..Len(t) /\ st[i] = t[i - Len(s)]
      BY <1>1, <1>2, <2>2
    <3> QED
      BY <3>1, <1>3
  <2> QED
    BY <2>1, <2>2
<1>5. ToSet(s) \subseteq ToSet(st)
  <2> SUFFICES ASSUME NEW i \in 1..Len(s)
               PROVE  s[i] \in ToSet(st)
    BY <1>3
  <2>1. i \in 1..(Len(s) + Len(t)) /\ st[i] = s[i]
    BY <1>1, <1>2
  <2> QED
    BY <2>1, <1>3
<1>6. ToSet(t) \subseteq ToSet(st)
  <2> SUFFICES ASSUME NEW i \in 1..Len(t)
               PROVE  t[i] \in ToSet(st)
    BY <1>3
  <2> DEFINE j == i + Len(s)
  <2>1. j \in 1..(Len(s) + Len(t)) /\ ~(j <= Len(s)) /\ j - Len(s) = i
    BY <1>2
  <2> HIDE DEF j
  <2>2. st[j] = t[i]
    BY <1>1, <2>1
  <2> QED
    BY <2>1, <2>2, <1>3
<1>7. ASSUME t # <<>>
      PROVE  st # <<>> /\ Last(st) = Last(t)
  <2>1. Len(t) >= 1
    BY <1>7, ListBasics
  <2>2. /\ Len(s) + Len(t) \in 1..(Len(s) + Len(t)) /\ ~(Len(s) + Len(t) <= Len(s))
        /\ (Len(s) + Len(t)) - Len(s) = Len(t)
    BY <2>1, <1>2
  <2>3. st[Len(s) + Len(t)] = t[Len(t)]
    BY <1>1, <2>2
  <2>4. Len(st) # 0
    BY <1>1, <1>2, <2>1
  <2> QED
    BY <1>1, <2>3, <2>4, ListBasics DEF Last
<1>8. ASSUME s # <<>>
      PROVE  st # <<>>
  <2>1. Len(s) >= 1
    BY <1>8, ListBasics
  <2> QED
    BY <2>1, <1>1, <1>2, ListBasics
<1>9. s \o <<>> = s /\ <<>> \o t = t
  BY ConcatEmptySeq
<1> QED
  BY <1>1, <1>4, <1>5, <1>6, <1>7, <1>8, <1>9 DEF st

LEMMA AppendOfConcat ==
  ASSUME NEW U, NEW s \in Seq(U), NEW t \in Seq(U), NEW e \in U
  PROVE  s \o Append(t, e) = Append(s \o t, e)
<1>1. <<e>> \in Seq(U) /\ s \o t \in Seq(U)
  BY ConcatProperties
<1>2. Append(t, e) = t \o <<e>> /\ Append(s \o t, e) = (s \o t) \o <<e>>
  BY <1>1, AppendIsConcat
<1>3. (s \o t) \o <<e>> = s \o (t \o <<e>>)
  BY <1>1, ConcatAssociative
<1> QED
  BY <1>2, <1>3

LEMMA SingleBasics ==
  ASSUME NEW U, NEW e \in U
  PROVE  /\ <<e>> = Append(<<>>, e) /\ <<e>> \in Seq(U) /\ <<e>> # <<>>
         /\ Len(<<e>>) = 1 /\ Last(<<e>>) = e /\ ToSet(<<e>>) = {e}
<1>1. <<e>> = Append(<<>>, e) /\ <<e>> \in Seq(U) /\ <<e>> # <<>> /\ Len(<<e>>) = 1
  OBVIOUS
<1>2. Last(<<e>>) = e
  BY DEF Last
<1>3. ToSet(<<e>>) = {e}
  BY DEF ToSet
<1> QED
  BY <1>1, <1>2, <1>3

LEMMA ListSplit ==
  ASSUME NEW U, NEW s \in Seq(U), NEW k \in 0..Len(s)
  PROVE  /\ SubSeq(s, 1, k) \in Seq(U) /\ SubSeq(s, k + 1, Len(s)) \in Seq(U)
         /\ Len(SubSeq(s, 1, k)) = k /\ Len(SubSeq(s, k + 1, Len(s))) = Len(s) - k
         /\ SubSeq(s, 1, k) \o SubSeq(s, k + 1, Len(s)) = s
<1> DEFINE n == Len(s)
           a == SubSeq(s, 1, k)
           b == SubSeq(s, k + 1, n)
           c == a \o b
<1>1. n \in Nat /\ k \in Nat /\ k <= n /\ DOMAIN s = 1..n /\ \A i \in 1..n : s[i] \in U
  BY ListBasics
<1>2. a \in Seq(U) /\ Len(a) = k /\ \A i \in 1..k : a[i] = s[i]
  <2> HIDE DEF n
  <2>1. \A i \in 1..k : s[i] \in U
    BY <1>1
  <2>2. /\ a \in Seq(U) /\ Len(a) = (IF 1 <= k THEN k - 1 + 1 ELSE 0)
        /\ \A i \in 1..(k - 1 + 1) : a[i] = s[1 + i - 1]
    BY <1>1, <2>1, SubSeqProperties
  <2> HIDE DEF a
  <2>3. ASSUME NEW i \in 1..k
        PROVE  a[i] = s[i]
    <3>1. i \in 1..(k - 1 + 1) /\ 1 + i - 1 = i
      BY <1>1
    <3> QED
      BY <2>2, <3>1
  <2> QED
    BY <1>1, <2>2, <2>3
<1>3. b \in Seq(U) /\ Len(b) = n - k /\ \A i \in 1..(n - k) : b[i] = s[k + i]
  <2> HIDE DEF n
  <2>1. \A i \in (k + 1)..n : s[i] \in U
    BY <1>1
  <2> DEFINE l == k + 1
  <2>2. l \in Int /\ n \in Int
    BY <1>1
  <2>3. /\ b \in Seq(U) /\ Len(b) = (IF l <= n THEN n - l + 1 ELSE 0)
        /\ \A i \in 1..(n - l + 1) : b[i] = s[l + i - 1]
    <3> HIDE DEF l
    <3>1. \A i \in l..n : s[i] \in U
      BY <2>1 DEF l
    <3> QED
      BY <3>1, <2>2, SubSeqProperties DEF l
  <2> HIDE DEF b
  <2>4. ASSUME NEW i \in 1..(n - k)
        PROVE  b[i] = s[k + i]
    <3>1. i \in 1..(n - l + 1) /\ l + i - 1 = k + i
      BY <1>1
    <3> QED
      BY <2>3, <3>1
  <2> QED
    BY <1>1, <2>3, <2>4
<1> HIDE DEF a, b
<1>4. c \in Seq(U) /\ Len(c) = Len(a) + Len(b)
      /\ \A i \in 1..(Len(a) + Len(b)) : c[i] = IF i <= Len(a) THEN a[i] ELSE b[i - Len(a)]
  BY <1>2, <1>3, ConcatProperties
<1> HIDE DEF c
<1>5. Len(c) = n /\ \A i \in 1..n : c[i] = IF i <= k THEN a[i] ELSE b[i - k]
  <2> HIDE DEF n
  <2>1. Len(a) = k /\ Len(b) = n - k
    BY <1>2, <1>3
  <2> QED
    BY <1>1, <1>4, <2>1
<1>6. ASSUME NEW i \in 1..n
      PROVE  c[i] = s[i]
  <2> HIDE DEF n
  <2>1. CASE i <= k
    BY <2>1, <1>1, <1>2, <1>5
  <2>2. CASE ~(i <= k)
    <3>1. i - k \in 1..(n - k) /\ k + (i - k) = i
      BY <2>2, <1>1
    <3>2. c[i] = b[i - k]
      BY <2>2, <1>5
    <3>3. b[i - k] = s[k + (i - k)]
      BY <3>1, <1>3
    <3> QED
      BY <3>1, <3>2, <3>3
  <2> QED
    BY <2>1, <2>2
<1>7. c = s
  BY <1>4, <1>5, <1>6, SeqEqual
<1> QED
  BY <1>2, <1>3, <1>7 DEF a, b, c

LEMMA TailBasics ==
  ASSUME NEW U, NEW s \in Seq(U), s # <<>>
  PROVE  /\ Tail(s) \in Seq(U) /\ Len(Tail(s)) = Len(s) - 1 /\ Len(s) > 0 /\ Len(s) \in Nat
         /\ \A i \in 1..(Len(s) - 1) : Tail(s)[i] = s[i + 1]
         /\ Head(s) = s[1] /\ s[1] \in U
<1>1. Len(s) \in Nat /\ Len(s) # 0 /\ \A i \in 1..Len(s) : s[i] \in U
  BY ListBasics, EmptySeq
<1>2. /\ Tail(s) \in Seq(U) /\ Len(Tail(s)) = Len(s) - 1
      /\ \A i \in 1..Len(Tail(s)) : Tail(s)[i] = s[i + 1]
  BY HeadTailProperties
<1>3. Head(s) = s[1]
  BY <1>1, HeadTailProperties
<1> QED
  BY <1>1, <1>2, <1>3

-----------------------------------------------------------------------------
(* Paths.                                                                   *)

Closed(S) == \A b \in S \ {Genesis} : Parent[b] \in S

LEMMA PathType ==
  ASSUME NEW b \in Blocks
  PROVE  /\ PathTo[b] \in Seq(Blocks) /\ PathTo[b] # <<>>
         /\ Last(PathTo[b]) = b
         /\ b \in ToSet(PathTo[b]) /\ ToSet(PathTo[b]) \subseteq Blocks
<1> DEFINE T == {a \in Blocks : /\ PathTo[a] \in Seq(Blocks) /\ PathTo[a] # <<>>
                                /\ Last(PathTo[a]) = a}
<1>1. Genesis \in T
  <2>1. PathTo[Genesis] = <<Genesis>> /\ Genesis \in Blocks
    BY PathDef, TreeAssumption
  <2>2. /\ <<Genesis>> \in Seq(Blocks) /\ <<Genesis>> # <<>> /\ Last(<<Genesis>>) = Genesis
    BY <2>1, SingleBasics
  <2> QED
    BY <2>1, <2>2
<1>2. ASSUME NEW a \in Blocks \ {Genesis}, Parent[a] \in T
      PROVE  a \in T
  <2> DEFINE p == PathTo[Parent[a]]
  <2>1. PathTo[a] = Append(p, a) /\ p \in Seq(Blocks)
    BY <1>2, PathDef
  <2> HIDE DEF p
  <2>2. /\ Append(p, a) \in Seq(Blocks) /\ Append(p, a) # <<>>
        /\ Last(Append(p, a)) = a
    BY <2>1, AppendBasics
  <2> QED
    BY <2>1, <2>2
<1>3. Blocks \subseteq T
  <2> HIDE DEF T
  <2> QED
    BY <1>1, <1>2, BlocksInSet
<1> QED
  BY <1>3, ListBasics

LEMMA PathSet ==
  /\ ToSet(PathTo[Genesis]) = {Genesis}
  /\ \A b \in Blocks \ {Genesis} : ToSet(PathTo[b]) = ToSet(PathTo[Parent[b]]) \cup {b}
<1>1. ToSet(PathTo[Genesis]) = {Genesis}
  BY PathDef, TreeAssumption, SingleBasics
<1>2. ASSUME NEW b \in Blocks \ {Genesis}
      PROVE  ToSet(PathTo[b]) = ToSet(PathTo[Parent[b]]) \cup {b}
  <2>1. Parent[b] \in Blocks
    BY WorkType
  <2> DEFINE p == PathTo[Parent[b]]
  <2>2. p \in Seq(Blocks)
    BY <2>1, PathType
  <2>3. PathTo[b] = Append(p, b)
    BY PathDef
  <2> HIDE DEF p
  <2>4. ToSet(Append(p, b)) = ToSet(p) \cup {b}
    BY <2>2, AppendBasics
  <2> QED
    BY <2>3, <2>4 DEF p
<1> QED
  BY <1>1, <1>2

\* A path holds Genesis and is closed under Parent, and a closed set holds the
\* path to each of its blocks.
LEMMA PathClosed ==
  ASSUME NEW b \in Blocks
  PROVE  Closed(ToSet(PathTo[b])) /\ Genesis \in ToSet(PathTo[b])
<1> DEFINE T == {a \in Blocks : Closed(ToSet(PathTo[a])) /\ Genesis \in ToSet(PathTo[a])}
<1>1. Genesis \in T
  BY PathSet, TreeAssumption DEF Closed
<1>2. ASSUME NEW a \in Blocks \ {Genesis}, Parent[a] \in T
      PROVE  a \in T
  <2>1. ToSet(PathTo[a]) = ToSet(PathTo[Parent[a]]) \cup {a}
    BY PathSet
  <2>2. Parent[a] \in ToSet(PathTo[Parent[a]])
    BY <1>2, PathType
  <2> QED
    BY <1>2, <2>1, <2>2 DEF Closed
<1>3. Blocks \subseteq T
  <2> HIDE DEF T
  <2> QED
    BY <1>1, <1>2, BlocksInSet
<1> QED
  BY <1>3

LEMMA ClosedHoldsPath ==
  ASSUME NEW S, Closed(S), NEW b \in Blocks, b \in S
  PROVE  ToSet(PathTo[b]) \subseteq S
<1> DEFINE T == {a \in Blocks : a \in S => ToSet(PathTo[a]) \subseteq S}
<1>1. Genesis \in T
  BY PathSet, TreeAssumption
<1>2. ASSUME NEW a \in Blocks \ {Genesis}, Parent[a] \in T
      PROVE  a \in T
  BY <1>2, PathSet DEF Closed
<1>3. Blocks \subseteq T
  <2> HIDE DEF T
  <2> QED
    BY <1>1, <1>2, BlocksInSet
<1> QED
  BY <1>3

LEMMA ClosedUnion ==
  ASSUME NEW S, NEW T, Closed(S), Closed(T)
  PROVE  Closed(S \cup T)
BY DEF Closed

\* A beginning of a path is a path.
LEMMA PathPrefix ==
  ASSUME NEW b \in Blocks, NEW x \in Seq(Blocks), NEW y \in Seq(Blocks), x # <<>>,
         PathTo[b] = x \o y
  PROVE  x = PathTo[Last(x)]
<1> DEFINE Good(a) == \A u, v \in Seq(Blocks) :
                        u # <<>> /\ PathTo[a] = u \o v => u = PathTo[Last(u)]
           T == {a \in Blocks : Good(a)}
<1>1. Genesis \in T
  <2> SUFFICES ASSUME NEW u \in Seq(Blocks), NEW v \in Seq(Blocks), u # <<>>,
                      PathTo[Genesis] = u \o v
               PROVE  u = PathTo[Last(u)]
    BY TreeAssumption
  <2>1. Len(u \o v) = 1
    BY PathDef
  <2>2. Len(u) \in Nat /\ Len(v) \in Nat /\ Len(u) >= 1 /\ Len(u \o v) = Len(u) + Len(v)
    BY ListBasics, ConcatBasics
  <2>3. Len(v) = 0
    BY <2>1, <2>2
  <2>4. v = <<>>
    BY <2>3, ListBasics
  <2>5. u = PathTo[Genesis]
    BY <2>4, ConcatBasics
  <2> QED
    BY <2>5, PathType, TreeAssumption
<1>2. ASSUME NEW a \in Blocks \ {Genesis}, Parent[a] \in T
      PROVE  a \in T
  <2> SUFFICES ASSUME NEW u \in Seq(Blocks), NEW v \in Seq(Blocks), u # <<>>,
                      PathTo[a] = u \o v
               PROVE  u = PathTo[Last(u)]
    OBVIOUS
  <2>1. CASE v = <<>>
    <3>1. u = PathTo[a]
      BY <2>1, ConcatBasics
    <3> QED
      BY <3>1, PathType
  <2>2. CASE v # <<>>
    <3>1. PICK w \in Seq(Blocks), e \in Blocks : v = Append(w, e)
      BY <2>2, SequenceEmptyOrAppend
    <3>2. u \o v = Append(u \o w, e) /\ u \o w \in Seq(Blocks)
      BY <3>1, AppendOfConcat, ConcatBasics
    <3> DEFINE p  == PathTo[Parent[a]]
               uw == u \o w
    <3>3. p \in Seq(Blocks)
      BY <1>2, PathType
    <3>4. Append(p, a) = Append(uw, e) /\ uw \in Seq(Blocks) /\ a \in Blocks
      BY <3>2, PathDef
    <3> HIDE DEF p, uw
    <3>5. p = uw
      BY <3>3, <3>4, AppendInjective
    <3> QED
      BY <3>5, <1>2 DEF p, uw
  <2> QED
    BY <2>1, <2>2
<1>3. Blocks \subseteq T
  <2> HIDE DEF T
  <2> QED
    BY <1>1, <1>2, BlocksInSet
<1> QED
  BY <1>3

\* What follows a beginning of a path starts with a child of its end.
LEMMA PathLink ==
  ASSUME NEW x \in Seq(Blocks), x # <<>>, NEW e \in Blocks, PathTo[e] = Append(x, e)
  PROVE  e # Genesis /\ Parent[e] = Last(x) /\ x = PathTo[Last(x)]
<1>2. Append(x, e) = PathTo[e]
  OBVIOUS
<1>3. e # Genesis
  <2> SUFFICES ASSUME e = Genesis
               PROVE  FALSE
    OBVIOUS
  <2>1. Append(x, e) = <<Genesis>>
    BY <1>2, PathDef
  <2>2. Len(Append(x, e)) = Len(x) + 1 /\ Len(x) \in Nat /\ Len(x) >= 1
    BY AppendProperties, ListBasics
  <2> QED
    BY <2>1, <2>2
<1>4. Parent[e] \in Blocks
  BY <1>3, WorkType
<1> DEFINE p == PathTo[Parent[e]]
<1>5. p \in Seq(Blocks) /\ Last(p) = Parent[e]
  BY <1>4, PathType
<1>6. Append(x, e) = Append(p, e)
  BY <1>2, <1>3, PathDef
<1>7. x = p
  <2> HIDE DEF p
  <2> QED
    BY <1>5, <1>6, AppendInjective
<1> QED
  BY <1>3, <1>5, <1>7

\* A closed set cuts a path in two: what is in it and what follows.
LEMMA PathCut ==
  ASSUME NEW S, Closed(S), NEW b \in Blocks
  PROVE  LET in  == Filtered(PathTo[b], S)
             out == Filtered(PathTo[b], Blocks \ S)
         IN  /\ in \in Seq(Blocks) /\ out \in Seq(Blocks)
             /\ in \o out = PathTo[b]
             /\ ToSet(in) \subseteq S /\ ToSet(out) \cap S = {}
             /\ b \in S => in = PathTo[b] /\ out = <<>>
             /\ b \notin S => out # <<>> /\ Last(out) = b
             /\ Genesis \in S => in # <<>>
<1> DEFINE in(a)  == Filtered(PathTo[a], S)
           out(a) == Filtered(PathTo[a], Blocks \ S)
           Cut(a) == /\ in(a) \in Seq(Blocks) /\ out(a) \in Seq(Blocks)
                     /\ in(a) \o out(a) = PathTo[a]
                     /\ ToSet(in(a)) \subseteq S /\ ToSet(out(a)) \cap S = {}
                     /\ a \in S => in(a) = PathTo[a] /\ out(a) = <<>>
                     /\ a \notin S => out(a) # <<>> /\ Last(out(a)) = a
                     /\ Genesis \in S => in(a) # <<>>
           T == {a \in Blocks : Cut(a)}
<1>1. Genesis \in T
  <2>1. PathTo[Genesis] = Append(<<>>, Genesis) /\ <<>> \in Seq(Blocks) /\ Genesis \in Blocks
    BY PathDef, EmptyBasics, TreeAssumption
  <2>2. /\ in(Genesis) = IF Genesis \in S THEN Append(<<>>, Genesis) ELSE <<>>
        /\ out(Genesis) = IF Genesis \in Blocks \ S THEN Append(<<>>, Genesis) ELSE <<>>
    <3>1. \A X : Filtered(Append(<<>>, Genesis), X) =
                   IF Genesis \in X THEN Append(Filtered(<<>>, X), Genesis)
                                    ELSE Filtered(<<>>, X)
      BY <2>1, FilteredAppend
    <3>2. \A X : Filtered(<<>>, X) = <<>>
      BY FilteredEmpty
    <3>3. \A X : Filtered(PathTo[Genesis], X) =
                   IF Genesis \in X THEN Append(<<>>, Genesis) ELSE <<>>
      BY <3>1, <3>2, <2>1, Zenon
    <3> QED
      BY <3>3
  <2>3. /\ Append(<<>>, Genesis) \in Seq(Blocks) /\ Append(<<>>, Genesis) # <<>>
        /\ Last(Append(<<>>, Genesis)) = Genesis
        /\ ToSet(Append(<<>>, Genesis)) = {Genesis} /\ ToSet(<<>>) = {}
    BY <2>1, SingleBasics, EmptyBasics
  <2>4. /\ Append(<<>>, Genesis) \o <<>> = Append(<<>>, Genesis)
        /\ <<>> \o Append(<<>>, Genesis) = Append(<<>>, Genesis)
    BY <2>1, <2>3, ConcatBasics
  <2> HIDE DEF in, out
  <2>5. Cut(Genesis)
    BY <2>1, <2>2, <2>3, <2>4
  <2> QED
    BY <2>1, <2>5
<1>2. ASSUME NEW a \in Blocks \ {Genesis}, Parent[a] \in T
      PROVE  a \in T
  <2> DEFINE p == Parent[a]
  <2>1. p \in Blocks /\ Cut(p) /\ PathTo[p] \in Seq(Blocks)
    BY <1>2, PathType
  <2>2. PathTo[a] = Append(PathTo[p], a)
    BY PathDef
  <2>3. /\ in(a) = IF a \in S THEN Append(in(p), a) ELSE in(p)
        /\ out(a) = IF a \in Blocks \ S THEN Append(out(p), a) ELSE out(p)
    <3> DEFINE q == PathTo[p]
    <3>1. q \in Seq(Blocks) /\ a \in Blocks /\ PathTo[a] = Append(q, a)
      BY <2>1, <2>2
    <3> HIDE DEF q
    <3>2. \A X : Filtered(Append(q, a), X) =
                   IF a \in X THEN Append(Filtered(q, X), a) ELSE Filtered(q, X)
      BY <3>1, FilteredAppend
    <3>3. \A X : Filtered(PathTo[a], X) =
                   IF a \in X THEN Append(Filtered(q, X), a) ELSE Filtered(q, X)
      BY <3>1, <3>2, Zenon
    <3> QED
      BY <3>3 DEF q
  <2>4. a \in S => p \in S
    BY DEF Closed
  <2> HIDE DEF in, out, p
  <2>5. CASE a \in S
    <3>1. in(a) = Append(PathTo[p], a) /\ out(a) = <<>> /\ in(p) = PathTo[p]
      BY <2>1, <2>3, <2>4, <2>5
    <3>2. in(a) \in Seq(Blocks) /\ in(a) # <<>> /\ ToSet(in(a)) = ToSet(PathTo[p]) \cup {a}
      BY <2>1, <3>1, AppendBasics
    <3>3. in(a) \o out(a) = in(a) /\ ToSet(out(a)) = {} /\ out(a) \in Seq(Blocks)
      BY <3>1, <3>2, ConcatBasics, EmptyBasics
    <3>4. ToSet(in(a)) \subseteq S
      BY <3>1, <3>2, <2>1, <2>5
    <3> QED
      BY <3>1, <3>2, <3>3, <3>4, <2>2, <2>5
  <2>6. CASE a \notin S
    <3>1. in(a) = in(p) /\ out(a) = Append(out(p), a)
      BY <2>3, <2>6
    <3>2. /\ out(a) \in Seq(Blocks) /\ out(a) # <<>> /\ Last(out(a)) = a
          /\ ToSet(out(a)) = ToSet(out(p)) \cup {a}
      BY <2>1, <3>1, AppendBasics
    <3>3. in(a) \o out(a) = Append(in(p) \o out(p), a)
      <4>1. in(p) \in Seq(Blocks) /\ out(p) \in Seq(Blocks) /\ a \in Blocks
        BY <2>1
      <4>2. in(p) \o Append(out(p), a) = Append(in(p) \o out(p), a)
        BY <4>1, AppendOfConcat
      <4> QED
        BY <3>1, <4>2, Zenon
    <3> QED
      BY <3>1, <3>2, <3>3, <2>1, <2>2, <2>6
  <2> QED
    BY <2>5, <2>6
<1>3. Blocks \subseteq T
  <2> HIDE DEF T
  <2> QED
    BY <1>1, <1>2, BlocksInSet
<1>4. Cut(b)
  BY <1>3
<1> QED
  BY <1>4

\* Every block of a path follows its parent.
LEMMA PathStep ==
  ASSUME NEW b \in Blocks
  PROVE  \A i \in 2..Len(PathTo[b]) :
           PathTo[b][i] # Genesis /\ Parent[PathTo[b][i]] = PathTo[b][i - 1]
<1> DEFINE Linked(s) == \A i \in 2..Len(s) : s[i] # Genesis /\ Parent[s[i]] = s[i - 1]
           T == {a \in Blocks : Linked(PathTo[a])}
<1>1. Genesis \in T
  <2>1. PathTo[Genesis] = <<Genesis>> /\ Len(<<Genesis>>) = 1 /\ Genesis \in Blocks
    BY PathDef, TreeAssumption
  <2>2. Linked(<<Genesis>>)
    BY <2>1
  <2> HIDE DEF Linked
  <2> QED
    BY <2>1, <2>2
<1>2. ASSUME NEW a \in Blocks \ {Genesis}, Parent[a] \in T
      PROVE  a \in T
  <2> DEFINE p == PathTo[Parent[a]]
             q == Append(p, a)
  <2>1. Parent[a] \in Blocks /\ PathTo[a] = q
    BY PathDef, WorkType
  <2>2. p \in Seq(Blocks) /\ p # <<>> /\ Last(p) = Parent[a]
    BY <2>1, PathType
  <2>3. Linked(p)
    BY <1>2
  <2> HIDE DEF p
  <2>4. /\ Len(p) \in Nat /\ Len(p) >= 1 /\ Len(q) = Len(p) + 1
        /\ \A i \in 1..Len(p) : q[i] = p[i]
        /\ q[Len(p) + 1] = a
    BY <2>2, AppendProperties, ListBasics
  <2>5. p[Len(p)] = Parent[a]
    BY <2>2 DEF Last
  <2> HIDE DEF q
  <2>6. ASSUME NEW i \in 2..Len(q)
        PROVE  q[i] # Genesis /\ Parent[q[i]] = q[i - 1]
    <3>1. CASE i <= Len(p)
      <4>1. i \in 2..Len(p) /\ i \in 1..Len(p) /\ i - 1 \in 1..Len(p)
        BY <2>4, <3>1
      <4> QED
        BY <2>3, <2>4, <4>1
    <3>2. CASE i = Len(p) + 1
      <4>1. i - 1 = Len(p) /\ Len(p) \in 1..Len(p)
        BY <2>4, <3>2
      <4>2. q[i] = a /\ q[i - 1] = Parent[a]
        BY <2>4, <2>5, <3>2, <4>1
      <4> QED
        BY <4>2
    <3> QED
      BY <2>4, <3>1, <3>2
  <2> QED
    BY <2>1, <2>6
<1>3. Blocks \subseteq T
  <2> HIDE DEF T
  <2> QED
    BY <1>1, <1>2, BlocksInSet
<1> QED
  BY <1>3

\* So a path can be applied from any point on: each block comes after its parent.
LEMMA SuffixOrdered ==
  ASSUME NEW b \in Blocks, NEW x \in Seq(Blocks), NEW y \in Seq(Blocks), x # <<>>,
         PathTo[b] = x \o y
  PROVE  \A i \in 1..Len(y) :
           y[i] # Genesis /\ Parent[y[i]] \in ToSet(x) \cup {y[k] : k \in 1..(i - 1)}
<1> DEFINE s == x \o y
<1>1. \A i \in 2..Len(s) : s[i] # Genesis /\ Parent[s[i]] = s[i - 1]
  BY PathStep
<1>2. /\ Len(x) \in Nat /\ Len(x) >= 1 /\ Len(y) \in Nat /\ Len(s) = Len(x) + Len(y)
      /\ \A i \in 1..Len(x) : x[i] \in ToSet(x)
  BY ListBasics, ConcatBasics
<1>3. \A i \in 1..(Len(x) + Len(y)) : s[i] = IF i <= Len(x) THEN x[i] ELSE y[i - Len(x)]
  BY ConcatProperties
<1> HIDE DEF s
<1> SUFFICES ASSUME NEW i \in 1..Len(y)
             PROVE  y[i] # Genesis /\ Parent[y[i]] \in ToSet(x) \cup {y[k] : k \in 1..(i - 1)}
  OBVIOUS
<1> DEFINE n == Len(x) + i
<1>4. n \in 2..Len(s) /\ n \in 1..(Len(x) + Len(y)) /\ n - 1 \in 1..(Len(x) + Len(y))
      /\ ~(n <= Len(x)) /\ n - Len(x) = i
  BY <1>2
<1>5. s[n] = y[i]
  BY <1>3, <1>4
<1>6. y[i] # Genesis /\ Parent[y[i]] = s[n - 1]
  BY <1>1, <1>4, <1>5
<1>7. CASE i = 1
  <2>1. n - 1 = Len(x) /\ n - 1 <= Len(x) /\ Len(x) \in 1..Len(x)
    BY <1>2, <1>7
  <2>2. s[n - 1] = x[Len(x)]
    BY <1>3, <1>4, <2>1
  <2> QED
    BY <1>2, <1>6, <2>1, <2>2
<1>8. CASE i # 1
  <2>1. ~(n - 1 <= Len(x)) /\ (n - 1) - Len(x) = i - 1 /\ i - 1 \in 1..(i - 1)
    BY <1>2, <1>8
  <2>2. s[n - 1] = y[i - 1]
    BY <1>3, <1>4, <2>1
  <2> QED
    BY <1>6, <2>1, <2>2
<1> QED
  BY <1>7, <1>8
=============================================================================

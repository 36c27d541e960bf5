---------------------------- MODULE ExplorerProofs ----------------------------
(***************************************************************************)
(* For every finite tree of blocks, all rules, timestamps, sizes of page   *)
(* and batch, and any number of stops, failed writes and blocks that are   *)
(* given up: what is flagged is stored but for what failed, no lookup      *)
(* behind the front page fails but by a race or for a block that is not    *)
(* all there, and the statistics and the front page show the applied chain *)
(* until a block is given up.                                              *)
(*                                                                         *)
(* The invariant has four parts.  StateInv: types, counts that are those   *)
(* of the recent blocks, and known blocks wherever a block is waited for.  *)
(* StoredInv: what is flagged, fetched, or about to be, is stored, or its  *)
(* write failed, or it was left empty.  These hold always; the other two   *)
(* until a block is given up, and again after the next start.  ChainInv:   *)
(* the applied chain, the job, the plan and the queue form paths of the    *)
(* tree, whose parents are downloaded when their turn comes.  ShownInv:    *)
(* what was counted and shown is the applied chain at each stage of a job. *)
(***************************************************************************)
EXTENDS Explorer, BlockTreeProofs

-----------------------------------------------------------------------------
(* The top header.                                                          *)

LEMMA MostWorkIn ==
  ASSUME NEW S \in SUBSET Blocks, S # {}
  PROVE  MostWork(S) \in S
BY MostWorkExists DEF MostWork

-----------------------------------------------------------------------------
(* The lists of the pages.                                                  *)

LEMMA FunctionIsList ==
  ASSUME NEW U, NEW n \in Nat, NEW f \in [1..n -> U]
  PROVE  f \in Seq(U) /\ Len(f) = n
<1>1. f \in Seq(U)
  BY SeqDef
<1>2. Len(f) \in Nat /\ DOMAIN f = 1..Len(f) /\ DOMAIN f = 1..n
  BY <1>1, LenProperties
<1> QED
  BY <1>1, <1>2

LEMMA ReverseBasics ==
  ASSUME NEW U, NEW s \in Seq(U)
  PROVE  /\ Reverse(s) \in Seq(U) /\ Len(Reverse(s)) = Len(s)
         /\ \A i \in 1..Len(s) : Reverse(s)[i] = s[Len(s) - i + 1]
         /\ ToSet(Reverse(s)) = ToSet(s)
<1> DEFINE r == Reverse(s)
           n == Len(s)
<1>1. n \in Nat /\ \A i \in 1..n : s[i] \in U
  BY ListBasics
<1>2. \A i \in 1..n : n - i + 1 \in 1..n
  BY <1>1
<1>3. r = [i \in 1..n |-> s[n - i + 1]]
  BY DEF Reverse
<1>4. ToSet(s) = {s[i] : i \in 1..n}
  BY ListBasics
<1> HIDE DEF r, n
<1>5. r \in [1..n -> U]
  BY <1>1, <1>2, <1>3
<1>6. r \in Seq(U) /\ Len(r) = n
  BY <1>1, <1>5, FunctionIsList
<1>7. \A i \in 1..n : r[i] = s[n - i + 1]
  BY <1>3
<1>8. ToSet(r) = {r[i] : i \in 1..n}
  BY <1>6, ListBasics
<1>9. \A i \in 1..n : r[i] \in ToSet(s)
  BY <1>2, <1>4, <1>7
<1>10. ASSUME NEW i \in 1..n
       PROVE  s[i] \in ToSet(r)
  <2> DEFINE j == n - i + 1
  <2>1. j \in 1..n /\ n - j + 1 = i
    BY <1>1
  <2> HIDE DEF j
  <2>2. r[j] = s[i]
    BY <2>1, <1>7
  <2> QED
    BY <2>1, <2>2, <1>8
<1> QED
  BY <1>4, <1>6, <1>7, <1>8, <1>9, <1>10 DEF r, n

LEMMA ReverseEmpty == Reverse(<<>>) = <<>>
<1>1. \A s \in Seq(Blocks) : Reverse(s) \in Seq(Blocks) /\ Len(Reverse(s)) = Len(s)
  BY ReverseBasics
<1>2. <<>> \in Seq(Blocks) /\ Len(<<>>) = 0
  BY EmptyBasics
<1> QED
  BY <1>1, <1>2, EmptySeq

LEMMA ReverseConcat ==
  ASSUME NEW U, NEW s \in Seq(U), NEW t \in Seq(U)
  PROVE  Reverse(s \o t) = Reverse(t) \o Reverse(s)
<1> DEFINE st == s \o t
           rs == Reverse(s)
           rt == Reverse(t)
           r  == Reverse(st)
           c  == rt \o rs
           m  == Len(s)
           n  == Len(t)
<1>1. m \in Nat /\ n \in Nat
  BY ListBasics
<1>2. /\ st \in Seq(U) /\ Len(st) = m + n
      /\ \A i \in 1..(m + n) : st[i] = IF i <= m THEN s[i] ELSE t[i - m]
  BY ConcatProperties
<1>3. /\ rs \in Seq(U) /\ Len(rs) = m /\ \A i \in 1..m : rs[i] = s[m - i + 1]
      /\ rt \in Seq(U) /\ Len(rt) = n /\ \A i \in 1..n : rt[i] = t[n - i + 1]
  BY ReverseBasics
<1> HIDE DEF st
<1>4. r \in Seq(U) /\ Len(r) = m + n /\ \A i \in 1..(m + n) : r[i] = st[(m + n) - i + 1]
  BY <1>2, ReverseBasics
<1> HIDE DEF rs, rt, r
<1>5. /\ c \in Seq(U) /\ Len(c) = n + m
      /\ \A i \in 1..(n + m) : c[i] = IF i <= n THEN rt[i] ELSE rs[i - n]
  <2>1. rt \in Seq(U) /\ rs \in Seq(U)
    BY <1>3
  <2>2. /\ c \in Seq(U) /\ Len(c) = Len(rt) + Len(rs)
        /\ \A i \in 1..(Len(rt) + Len(rs)) :
             c[i] = IF i <= Len(rt) THEN rt[i] ELSE rs[i - Len(rt)]
    BY <2>1, ConcatProperties
  <2>3. Len(rt) = n /\ Len(rs) = m
    BY <1>3
  <2> HIDE DEF c, m, n
  <2> QED
    BY <2>2, <2>3
<1> HIDE DEF c, m, n
<1>6. ASSUME NEW i \in 1..(m + n)
      PROVE  r[i] = c[i]
  <2> DEFINE j == (m + n) - i + 1
  <2>1. j \in 1..(m + n) /\ r[i] = st[j]
    BY <1>1, <1>4
  <2>2. CASE i <= n
    <3>1. ~(j <= m) /\ j - m = n - i + 1 /\ i \in 1..n
      BY <1>1, <2>2
    <3>2. st[j] = t[n - i + 1]
      BY <1>2, <2>1, <3>1
    <3>3. c[i] = rt[i]
      BY <1>1, <1>5, <2>2
    <3> QED
      BY <2>1, <3>1, <3>2, <3>3, <1>3
  <2>3. CASE ~(i <= n)
    <3>1. j <= m /\ i - n \in 1..m /\ m - (i - n) + 1 = j
      BY <1>1, <2>3
    <3>2. st[j] = s[j]
      BY <1>2, <2>1, <3>1
    <3>3. c[i] = rs[i - n]
      BY <1>1, <1>5, <2>3
    <3> QED
      BY <2>1, <3>1, <3>2, <3>3, <1>3
  <2> QED
    BY <2>2, <2>3
<1>7. Len(r) = Len(c)
  BY <1>1, <1>4, <1>5
<1>8. \A i \in 1..Len(r) : r[i] = c[i]
  BY <1>4, <1>6
<1>9. r = c
  BY <1>4, <1>5, <1>7, <1>8, SeqEqual
<1> QED
  BY <1>9 DEF r, c, st, rs, rt

LEMMA FirstNBasics ==
  ASSUME NEW U, NEW s \in Seq(U), NEW n \in Nat
  PROVE  /\ FirstN(s, n) \in Seq(U)
         /\ Len(FirstN(s, n)) = IF n < Len(s) THEN n ELSE Len(s)
         /\ \A i \in 1..Len(FirstN(s, n)) : FirstN(s, n)[i] = s[i]
         /\ ToSet(FirstN(s, n)) \subseteq ToSet(s)
<1> DEFINE k == IF n < Len(s) THEN n ELSE Len(s)
           f == FirstN(s, n)
<1>1. Len(s) \in Nat /\ \A i \in 1..Len(s) : s[i] \in U /\ s[i] \in ToSet(s)
  BY ListBasics
<1>2. k \in Nat /\ k <= Len(s)
  BY <1>1
<1>3. f = SubSeq(s, 1, k)
  BY DEF FirstN
<1> HIDE DEF k, f
<1>4. \A i \in 1..k : s[i] \in U
  BY <1>1, <1>2
<1>5. /\ f \in Seq(U) /\ Len(f) = (IF 1 <= k THEN k - 1 + 1 ELSE 0)
      /\ \A i \in 1..(k - 1 + 1) : f[i] = s[1 + i - 1]
  BY <1>2, <1>3, <1>4, SubSeqProperties
<1>6. Len(f) = k
  BY <1>2, <1>5
<1>7. ASSUME NEW i \in 1..Len(f)
      PROVE  f[i] = s[i] /\ f[i] \in ToSet(s)
  <2>1. i \in 1..(k - 1 + 1) /\ 1 + i - 1 = i /\ i \in 1..Len(s)
    BY <1>1, <1>2, <1>6
  <2> QED
    BY <2>1, <1>1, <1>5
<1>8. ToSet(f) \subseteq ToSet(s)
  BY <1>5, <1>7, ListBasics
<1> QED
  BY <1>5, <1>6, <1>7, <1>8 DEF k, f

\* Keeping the first n of two lists is the first n of one and, of the first n
\* of the other, as many as still fit.
LEMMA FirstNConcat ==
  ASSUME NEW U, NEW s \in Seq(U), NEW t \in Seq(U), NEW n \in Nat
  PROVE  FirstN(s \o t, n) = FirstN(s, n) \o FirstN(FirstN(t, n), n - Len(FirstN(s, n)))
<1> DEFINE st == s \o t
           a == FirstN(s, n)
           b == FirstN(t, n)
           k == n - Len(a)
           d == FirstN(b, k)
           l == FirstN(st, n)
           r == a \o d
<1>1. Len(s) \in Nat /\ Len(t) \in Nat
  BY ListBasics
<1>2. /\ st \in Seq(U) /\ Len(st) = Len(s) + Len(t)
      /\ \A i \in 1..(Len(s) + Len(t)) : st[i] = IF i <= Len(s) THEN s[i] ELSE t[i - Len(s)]
  BY ConcatProperties
<1>3. /\ a \in Seq(U) /\ Len(a) = (IF n < Len(s) THEN n ELSE Len(s))
      /\ \A i \in 1..Len(a) : a[i] = s[i]
  BY FirstNBasics
<1>4. /\ b \in Seq(U) /\ Len(b) = (IF n < Len(t) THEN n ELSE Len(t))
      /\ \A i \in 1..Len(b) : b[i] = t[i]
  BY FirstNBasics
<1> HIDE DEF st, a, b
<1>5. k \in Nat
  BY <1>1, <1>3
<1>6. /\ l \in Seq(U) /\ Len(l) = (IF n < Len(st) THEN n ELSE Len(st))
      /\ \A i \in 1..Len(l) : l[i] = st[i]
  BY <1>2, FirstNBasics
<1>k. k = n - Len(a)
  OBVIOUS
<1> HIDE DEF k
<1>7. /\ d \in Seq(U) /\ Len(d) = (IF k < Len(b) THEN k ELSE Len(b))
      /\ \A i \in 1..Len(d) : d[i] = b[i]
  BY <1>4, <1>5, FirstNBasics
<1> HIDE DEF d, l
<1>8. /\ r \in Seq(U) /\ Len(r) = Len(a) + Len(d)
      /\ \A i \in 1..(Len(a) + Len(d)) : r[i] = IF i <= Len(a) THEN a[i] ELSE d[i - Len(a)]
  <2>1. a \in Seq(U) /\ d \in Seq(U)
    BY <1>3, <1>7
  <2> QED
    BY <2>1, ConcatProperties
<1> HIDE DEF r
<1>9. Len(l) = Len(r) /\ Len(l) \in Nat /\ Len(r) = Len(a) + Len(d)
  <2>1. Len(r) = Len(a) + Len(d)
    BY <1>8
  <2>2. Len(st) = Len(s) + Len(t)
    BY <1>2
  <2>3. Len(a) = (IF n < Len(s) THEN n ELSE Len(s)) /\ Len(b) = (IF n < Len(t) THEN n ELSE Len(t))
    BY <1>3, <1>4
  <2>4. Len(l) = (IF n < Len(st) THEN n ELSE Len(st)) /\ Len(d) = (IF k < Len(b) THEN k ELSE Len(b))
    BY <1>6, <1>7
  <2> DEFINE ls == Len(s)
             lt == Len(t)
             la == Len(a)
             lb == Len(b)
             ld == Len(d)
  <2>5. ls \in Nat /\ lt \in Nat /\ n \in Nat /\ k = n - la
    BY <1>1, <1>k
  <2>6. /\ la = (IF n < ls THEN n ELSE ls) /\ lb = (IF n < lt THEN n ELSE lt)
        /\ ld = (IF k < lb THEN k ELSE lb)
    BY <2>3, <2>4
  <2>7. Len(l) = (IF n < ls + lt THEN n ELSE ls + lt) /\ Len(r) = la + ld
    BY <2>1, <2>2, <2>4
  <2> HIDE DEF ls, lt, la, lb, ld
  <2>8. Len(l) = Len(r) /\ Len(l) \in Nat
    BY <2>5, <2>6, <2>7
  <2> QED
    BY <2>1, <2>8
<1>10. ASSUME NEW i \in 1..Len(l)
       PROVE  l[i] = r[i]
  <2>1. i \in 1..(Len(s) + Len(t)) /\ i \in 1..(Len(a) + Len(d)) /\ l[i] = st[i]
    BY <1>1, <1>2, <1>6, <1>9
  <2>2. CASE i <= Len(a)
    <3>1. i \in 1..Len(a) /\ i <= Len(s)
      BY <2>1, <2>2, <1>1, <1>3
    <3> QED
      BY <2>1, <2>2, <3>1, <1>2, <1>3, <1>8
  <2>3. CASE ~(i <= Len(a))
    <3>1. Len(a) = Len(s)
      BY <2>3, <1>1, <1>2, <1>3, <1>6
    <3>2. /\ i - Len(s) \in 1..Len(d) /\ i - Len(s) \in 1..Len(b) /\ ~(i <= Len(s))
      BY <2>1, <2>3, <3>1, <1>1, <1>4, <1>5, <1>7
    <3>3. st[i] = t[i - Len(s)]
      BY <2>1, <3>2, <1>2
    <3>4. r[i] = d[i - Len(s)]
      BY <2>1, <2>3, <3>1, <1>8
    <3> QED
      BY <2>1, <3>2, <3>3, <3>4, <1>4, <1>7
  <2> QED
    BY <2>2, <2>3
<1>11. l = r
  BY <1>6, <1>8, <1>9, <1>10, SeqEqual
<1> QED
  BY <1>11 DEF l, r, d, k, a, b, st

\* FlattenSeq concatenates one list after the other.
LEMMA FlattenDef ==
  ASSUME NEW U, NEW ss \in Seq(Seq(U)), ss # <<>>
  PROVE  \E f : /\ FlattenSeq(ss) = f[Len(ss)]
                /\ \A i \in 1..Len(ss) : f[i] = IF i = 1 THEN ss[i] ELSE f[i - 1] \o ss[i]
<1> DEFINE Value(g, i) == IF i = 1 THEN ss[i] ELSE g[i - 1] \o ss[i]
           Is(n, g) == g = [i \in 1..n |-> Value(g, i)]
           T == {n \in Nat : \E g : Is(n, g)}
<1>1. 0 \in T
  <2> DEFINE g == [i \in 1..0 |-> <<>>]
  <2>1. Is(0, g)
    OBVIOUS
  <2> QED
    BY <2>1
<1>2. ASSUME NEW n \in Nat, n \in T
      PROVE  n + 1 \in T
  <2>1. PICK g : Is(n, g)
    BY <1>2
  <2> DEFINE h == [i \in 1..(n + 1) |-> IF i <= n THEN g[i] ELSE Value(g, i)]
  <2>2. \A i \in 1..n : g[i] = Value(g, i)
    BY <2>1
  <2>3. ASSUME NEW i \in 1..(n + 1)
        PROVE  h[i] = Value(h, i)
    <3>1. h[i] = Value(g, i)
      BY <2>2
    <3>2. CASE i = 1
      BY <3>1, <3>2
    <3>3. CASE i # 1
      <4>1. i - 1 \in 1..n /\ i - 1 \in 1..(n + 1)
        BY <3>3
      <4>2. h[i - 1] = g[i - 1]
        BY <4>1
      <4> QED
        BY <3>1, <3>3, <4>2
    <3> QED
      BY <3>2, <3>3
  <2>4. h = [i \in 1..(n + 1) |-> h[i]]
    OBVIOUS
  <2> HIDE DEF h
  <2>5. Is(n + 1, h)
    BY <2>3, <2>4
  <2>6. \E g1 : Is(n + 1, g1)
    BY <2>5, Zenon
  <2> HIDE DEF Is
  <2> QED
    BY <2>6
<1>3. Nat \subseteq T
  <2> HIDE DEF T
  <2> QED
    BY <1>1, <1>2, NaturalsInSet
<1>4. Len(ss) \in Nat /\ Len(ss) # 0
  BY ListBasics
<1>5. \E g : Is(Len(ss), g)
  BY <1>3, <1>4
<1> DEFINE f == CHOOSE g : Is(Len(ss), g)
<1>6. Is(Len(ss), f)
  BY <1>5
<1>7. FlattenSeq(ss) = f[Len(ss)]
  BY <1>4 DEF FlattenSeq
<1> HIDE DEF f
<1>8. \A i \in 1..Len(ss) : f[i] = Value(f, i)
  BY <1>6
<1> QED
  BY <1>7, <1>8

LEMMA FlattenType ==
  ASSUME NEW U, NEW ss \in Seq(Seq(U))
  PROVE  FlattenSeq(ss) \in Seq(U)
<1>1. CASE ss = <<>>
  BY <1>1, EmptyBasics DEF FlattenSeq
<1>2. CASE ss # <<>>
  <2>1. PICK f : /\ FlattenSeq(ss) = f[Len(ss)]
                 /\ \A i \in 1..Len(ss) : f[i] = IF i = 1 THEN ss[i] ELSE f[i - 1] \o ss[i]
    BY <1>2, FlattenDef
  <2>2. /\ Len(ss) \in Nat /\ Len(ss) >= 1
        /\ \A i \in 1..Len(ss) : ss[i] \in Seq(U)
    BY <1>2, ListBasics
  <2> DEFINE T == {n \in Nat : n + 1 <= Len(ss) => f[n + 1] \in Seq(U)}
  <2>3. 0 \in T
    BY <2>1, <2>2
  <2>4. ASSUME NEW n \in Nat, n \in T
        PROVE  n + 1 \in T
    <3> SUFFICES ASSUME (n + 1) + 1 <= Len(ss)
                 PROVE  f[(n + 1) + 1] \in Seq(U)
      OBVIOUS
    <3> DEFINE k == (n + 1) + 1
    <3>1. k \in 1..Len(ss) /\ k # 1 /\ k - 1 = n + 1 /\ n + 1 <= Len(ss)
      BY <2>2
    <3>2. f[k - 1] \in Seq(U) /\ ss[k] \in Seq(U)
      BY <3>1, <2>2, <2>4
    <3> HIDE DEF k
    <3>3. f[k] = f[k - 1] \o ss[k]
      BY <3>1, <2>1
    <3>4. f[k - 1] \o ss[k] \in Seq(U)
      BY <3>2, ConcatProperties
    <3> QED
      BY <3>3, <3>4 DEF k
  <2>5. Nat \subseteq T
    <3> HIDE DEF T
    <3> QED
      BY <2>3, <2>4, NaturalsInSet
  <2>6. PICK k \in Nat : k + 1 = Len(ss)
    <3>1. Len(ss) - 1 \in Nat /\ (Len(ss) - 1) + 1 = Len(ss)
      BY <2>2
    <3> QED
      BY <3>1
  <2>7. k \in T
    <3> HIDE DEF T
    <3> QED
      BY <2>5
  <2>8. f[k + 1] \in Seq(U)
    BY <2>6, <2>7
  <2> QED
    BY <2>1, <2>6, <2>8
<1> QED
  BY <1>1, <1>2

LEMMA FlattenAppend ==
  ASSUME NEW U, NEW ss \in Seq(Seq(U)), NEW e \in Seq(U)
  PROVE  FlattenSeq(Append(ss, e)) = FlattenSeq(ss) \o e
<1> DEFINE tt == Append(ss, e)
           n  == Len(ss)
<1>1. /\ tt \in Seq(Seq(U)) /\ tt # <<>> /\ Len(tt) = n + 1
      /\ \A i \in 1..n : tt[i] = ss[i]
      /\ tt[n + 1] = e
  BY AppendProperties
<1>2. n \in Nat /\ (n = 0 <=> ss = <<>>)
  BY ListBasics
<1> HIDE DEF tt
<1>3. PICK g : /\ FlattenSeq(tt) = g[Len(tt)]
               /\ \A i \in 1..Len(tt) : g[i] = IF i = 1 THEN tt[i] ELSE g[i - 1] \o tt[i]
  BY <1>1, FlattenDef
<1>4. CASE ss = <<>>
  <2>1. n = 0 /\ FlattenSeq(ss) = <<>>
    BY <1>2, <1>4 DEF FlattenSeq
  <2>2. FlattenSeq(tt) = e
    BY <1>1, <1>3, <2>1
  <2>3. <<>> \o e = e
    BY ConcatBasics
  <2> QED
    BY <2>1, <2>2, <2>3 DEF tt
<1>5. CASE ss # <<>>
  <2>1. PICK f : /\ FlattenSeq(ss) = f[n]
                 /\ \A i \in 1..n : f[i] = IF i = 1 THEN ss[i] ELSE f[i - 1] \o ss[i]
    BY <1>5, FlattenDef
  <2> HIDE DEF n
  <2> DEFINE T == {m \in Nat : m + 1 <= n => f[m + 1] = g[m + 1]}
  <2>2. 0 \in T
    <3> SUFFICES ASSUME 1 <= n
                 PROVE  f[1] = g[1]
      OBVIOUS
    <3>1. 1 \in 1..n /\ 1 \in 1..Len(tt)
      BY <1>1, <1>2
    <3> QED
      BY <3>1, <1>1, <1>3, <2>1
  <2>3. ASSUME NEW m \in Nat, m \in T
        PROVE  m + 1 \in T
    <3> SUFFICES ASSUME (m + 1) + 1 <= n
                 PROVE  f[(m + 1) + 1] = g[(m + 1) + 1]
      OBVIOUS
    <3> DEFINE k == (m + 1) + 1
    <3>1. k \in 1..n /\ k \in 1..Len(tt) /\ k # 1 /\ k - 1 = m + 1 /\ m + 1 <= n
      BY <1>1, <1>2
    <3>2. f[k - 1] = g[k - 1]
      BY <3>1, <2>3
    <3> HIDE DEF k
    <3>3. f[k] = f[k - 1] \o ss[k]
      BY <3>1, <2>1
    <3>4. g[k] = g[k - 1] \o tt[k]
      BY <3>1, <1>3
    <3>5. tt[k] = ss[k]
      BY <3>1, <1>1
    <3> QED
      BY <3>2, <3>3, <3>4, <3>5 DEF k
  <2>4. Nat \subseteq T
    <3> HIDE DEF T
    <3> QED
      BY <2>2, <2>3, NaturalsInSet
  <2>5. n # 0
    BY <1>2, <1>5
  <2>6. n - 1 \in T /\ (n - 1) + 1 = n
    <3>1. n - 1 \in Nat /\ (n - 1) + 1 = n
      BY <1>2, <2>5
    <3> HIDE DEF T
    <3> QED
      BY <3>1, <2>4
  <2>7. f[n] = g[n]
    BY <1>2, <2>6
  <2>8. n + 1 \in 1..Len(tt) /\ n + 1 # 1 /\ (n + 1) - 1 = n
    BY <1>1, <1>2, <2>5
  <2>9. g[n + 1] = g[n] \o tt[n + 1]
    BY <1>3, <2>8
  <2>10. FlattenSeq(tt) = FlattenSeq(ss) \o e
    BY <1>1, <1>3, <2>1, <2>7, <2>9
  <2> QED
    BY <2>10 DEF tt
<1> QED
  BY <1>4, <1>5

\* The transactions of one block.
TxList(b) == [j \in 1..Txs[b] |-> <<b, j>>]

LEMMA TxListType ==
  ASSUME NEW b \in Blocks
  PROVE  TxList(b) \in Seq(Blocks \X Nat)
<1>1. Txs[b] \in Nat
  BY ExplorerAssumption
<1>2. \A j \in 1..Txs[b] : <<b, j>> \in Blocks \X Nat
  BY <1>1
<1>3. TxList(b) \in [1..Txs[b] -> Blocks \X Nat]
  BY <1>2 DEF TxList
<1> QED
  BY <1>1, <1>3, FunctionIsList

LEMMA TxListsOf ==
  ASSUME NEW s \in Seq(Blocks)
  PROVE  /\ [i \in DOMAIN s |-> TxList(s[i])] \in Seq(Seq(Blocks \X Nat))
         /\ Len([i \in DOMAIN s |-> TxList(s[i])]) = Len(s)
<1> DEFINE f == [i \in DOMAIN s |-> TxList(s[i])]
           V == Seq(Blocks \X Nat)
<1>1. Len(s) \in Nat /\ DOMAIN s = 1..Len(s) /\ \A i \in 1..Len(s) : s[i] \in Blocks
  BY ListBasics
<1>2. \A i \in 1..Len(s) : TxList(s[i]) \in V
  BY <1>1, TxListType
<1> HIDE DEF V
<1>3. f \in [1..Len(s) -> V]
  BY <1>1, <1>2
<1> HIDE DEF f
<1>4. f \in Seq(V) /\ Len(f) = Len(s)
  BY <1>1, <1>3, FunctionIsList
<1> QED
  BY <1>4 DEF f, V

LEMMA TxsOfAppend ==
  ASSUME NEW s \in Seq(Blocks), NEW b \in Blocks
  PROVE  /\ TxsOf(s) \in Seq(Blocks \X Nat)
         /\ TxsOf(Append(s, b)) = TxsOf(s) \o TxList(b)
<1> DEFINE Lists(t) == [i \in DOMAIN t |-> TxList(t[i])]
           sb == Append(s, b)
           V == Seq(Blocks \X Nat)
<1>1. \A t : TxsOf(t) = FlattenSeq(Lists(t))
  BY DEF TxsOf, TxList
<1>2. /\ sb \in Seq(Blocks) /\ Len(sb) = Len(s) + 1 /\ Len(s) \in Nat
      /\ \A i \in 1..Len(s) : sb[i] = s[i]
      /\ sb[Len(s) + 1] = b
  BY AppendProperties, ListBasics
<1> HIDE DEF sb
<1>3. DOMAIN s = 1..Len(s) /\ DOMAIN sb = 1..(Len(s) + 1)
  BY <1>2, ListBasics
<1>4. TxList(b) \in V
  BY TxListType
<1>5. /\ Lists(s) \in Seq(V) /\ Len(Lists(s)) = Len(s)
      /\ Lists(sb) \in Seq(V) /\ Len(Lists(sb)) = Len(s) + 1
  BY <1>2, TxListsOf
<1>6. /\ \A i \in 1..Len(s) : Lists(s)[i] = TxList(s[i])
      /\ \A i \in 1..(Len(s) + 1) : Lists(sb)[i] = TxList(sb[i])
  BY <1>3
<1> DEFINE ls == Lists(s)
           lb == Lists(sb)
           a  == Append(ls, TxList(b))
<1>7. /\ ls \in Seq(V) /\ Len(ls) = Len(s) /\ lb \in Seq(V) /\ Len(lb) = Len(s) + 1
      /\ \A i \in 1..Len(s) : ls[i] = TxList(s[i])
      /\ \A i \in 1..(Len(s) + 1) : lb[i] = TxList(sb[i])
  BY <1>5, <1>6
<1> HIDE DEF V, ls, lb
<1>8. /\ a \in Seq(V) /\ Len(a) = Len(ls) + 1
      /\ \A i \in 1..Len(ls) : a[i] = ls[i]
      /\ a[Len(ls) + 1] = TxList(b)
  BY <1>4, <1>7, AppendProperties
<1> HIDE DEF a
<1>9. ASSUME NEW i \in 1..(Len(s) + 1)
      PROVE  a[i] = lb[i]
  <2>1. CASE i \in 1..Len(s)
    BY <2>1, <1>2, <1>7, <1>8
  <2>2. CASE i = Len(s) + 1
    BY <2>2, <1>2, <1>7, <1>8
  <2> QED
    BY <2>1, <2>2, <1>2
<1>10. a = lb
  BY <1>7, <1>8, <1>9, SeqEqual
<1>11. FlattenSeq(a) = FlattenSeq(ls) \o TxList(b) /\ FlattenSeq(ls) \in Seq(Blocks \X Nat)
  BY <1>4, <1>7, FlattenAppend, FlattenType DEF V, a
<1> QED
  BY <1>1, <1>10, <1>11 DEF ls, lb, sb

LEMMA TxsOfType ==
  ASSUME NEW s \in Seq(Blocks)
  PROVE  TxsOf(s) \in Seq(Blocks \X Nat)
BY TxsOfAppend, TreeAssumption

LEMMA TxsOfEmpty == TxsOf(<<>>) = <<>>
<1>1. Len([i \in DOMAIN <<>> |-> TxList(<<>>[i])]) = 0
      /\ [i \in DOMAIN <<>> |-> TxList(<<>>[i])] \in Seq(Seq(Blocks \X Nat))
  BY TxListsOf, EmptyBasics
<1> DEFINE f == [i \in DOMAIN <<>> |-> TxList(<<>>[i])]
<1>2. TxsOf(<<>>) = FlattenSeq(f)
  BY DEF TxsOf, TxList
<1>3. f = <<>>
  BY <1>1, EmptySeq
<1>4. FlattenSeq(<<>>) = <<>>
  BY EmptyBasics DEF FlattenSeq
<1> QED
  BY <1>2, <1>3, <1>4

LEMMA TxsOfConcat ==
  ASSUME NEW s \in Seq(Blocks), NEW t \in Seq(Blocks)
  PROVE  TxsOf(s \o t) = TxsOf(s) \o TxsOf(t)
<1> DEFINE T == {n \in Nat : \A u \in Seq(Blocks) : Len(u) = n =>
                               TxsOf(s \o u) = TxsOf(s) \o TxsOf(u)}
           V == Blocks \X Nat
<1>1. TxsOf(s) \in Seq(V)
  BY TxsOfType
<1>2. 0 \in T
  <2> SUFFICES ASSUME NEW u \in Seq(Blocks), Len(u) = 0
               PROVE  TxsOf(s \o u) = TxsOf(s) \o TxsOf(u)
    OBVIOUS
  <2>1. u = <<>>
    BY ListBasics
  <2>2. s \o u = s /\ TxsOf(u) = <<>>
    BY <2>1, TxsOfEmpty, ConcatBasics
  <2>3. TxsOf(s) \o <<>> = TxsOf(s)
    BY <1>1, ConcatBasics
  <2> QED
    BY <2>2, <2>3
<1>3. ASSUME NEW n \in Nat, n \in T
      PROVE  n + 1 \in T
  <2> SUFFICES ASSUME NEW u \in Seq(Blocks), Len(u) = n + 1
               PROVE  TxsOf(s \o u) = TxsOf(s) \o TxsOf(u)
    OBVIOUS
  <2>1. u # <<>>
    BY ListBasics
  <2>2. PICK v \in Seq(Blocks), b \in Blocks : u = Append(v, b)
    BY <2>1, SequenceEmptyOrAppend
  <2>3. Len(v) = n
    <3>1. Len(u) = Len(v) + 1 /\ Len(v) \in Nat
      BY <2>2, AppendProperties, ListBasics
    <3> QED
      BY <3>1
  <2>4. TxsOf(s \o v) = TxsOf(s) \o TxsOf(v)
    BY <1>3, <2>3
  <2>5. s \o u = Append(s \o v, b) /\ s \o v \in Seq(Blocks)
    BY <2>2, AppendOfConcat, ConcatBasics
  <2>6. TxsOf(Append(s \o v, b)) = TxsOf(s \o v) \o TxList(b)
    BY <2>5, TxsOfAppend
  <2>7. TxsOf(u) = TxsOf(v) \o TxList(b)
    BY <2>2, TxsOfAppend
  <2>8. TxsOf(v) \in Seq(V) /\ TxList(b) \in Seq(V)
    BY TxsOfType, TxListType
  <2>9. (TxsOf(s) \o TxsOf(v)) \o TxList(b) = TxsOf(s) \o (TxsOf(v) \o TxList(b))
    <3> DEFINE x == TxsOf(s)
               y == TxsOf(v)
               z == TxList(b)
    <3>1. x \in Seq(V) /\ y \in Seq(V) /\ z \in Seq(V)
      BY <1>1, <2>8
    <3> HIDE DEF x, y, z, V
    <3>2. (x \o y) \o z = x \o (y \o z)
      BY <3>1, ConcatAssociative
    <3> QED
      BY <3>2 DEF x, y, z
  <2> QED
    BY <2>4, <2>5, <2>6, <2>7, <2>9
<1>4. Nat \subseteq T
  <2> HIDE DEF T
  <2> QED
    BY <1>2, <1>3, NaturalsInSet
<1>5. Len(t) \in Nat
  BY ListBasics
<1> QED
  BY <1>4, <1>5

-----------------------------------------------------------------------------
(* The lists of the miners.                                                 *)

MinersOf(r, s) == [i \in DOMAIN s |-> Miner(r, s[i])]

LEMMA MinersOfType ==
  ASSUME NEW r \in Configs, NEW s \in Seq(Blocks)
  PROVE  /\ MinersOf(r, s) \in Seq(Entries) /\ Len(MinersOf(r, s)) = Len(s)
         /\ \A i \in 1..Len(s) : /\ MinersOf(r, s)[i] = Miner(r, s[i])
                                 /\ MinersOf(r, s)[i].block = s[i]
<1> DEFINE f == MinersOf(r, s)
<1>1. Len(s) \in Nat /\ DOMAIN s = 1..Len(s) /\ \A i \in 1..Len(s) : s[i] \in Blocks
  BY ListBasics
<1>2. \A b \in Blocks : Owner[r][b] \in Miners \cup {Unknown}
  BY ExplorerAssumption
<1>3. \A b \in Blocks : Miner(r, b) \in Entries /\ Miner(r, b).block = b
  BY <1>2 DEF Miner, Entries
<1>4. f = [i \in 1..Len(s) |-> Miner(r, s[i])]
  BY <1>1 DEF MinersOf
<1> HIDE DEF f
<1>5. f \in [1..Len(s) -> Entries]
  BY <1>1, <1>3, <1>4
<1>6. f \in Seq(Entries) /\ Len(f) = Len(s)
  BY <1>1, <1>5, FunctionIsList
<1>7. \A i \in 1..Len(s) : f[i] = Miner(r, s[i])
  BY <1>4
<1>8. \A i \in 1..Len(s) : f[i].block = s[i]
  BY <1>1, <1>3, <1>7
<1> QED
  BY <1>6, <1>7, <1>8 DEF f

LEMMA MinersOfConcat ==
  ASSUME NEW r \in Configs, NEW s \in Seq(Blocks), NEW t \in Seq(Blocks)
  PROVE  MinersOf(r, s \o t) = MinersOf(r, s) \o MinersOf(r, t)
<1> DEFINE st == s \o t
           a == MinersOf(r, s)
           b == MinersOf(r, t)
           l == MinersOf(r, st)
           c == a \o b
           m == Len(s)
           n == Len(t)
<1>1. m \in Nat /\ n \in Nat
  BY ListBasics
<1>2. /\ st \in Seq(Blocks) /\ Len(st) = m + n
      /\ \A i \in 1..(m + n) : st[i] = IF i <= m THEN s[i] ELSE t[i - m]
  BY ConcatProperties
<1> HIDE DEF st
<1>3. /\ a \in Seq(Entries) /\ Len(a) = m /\ \A i \in 1..m : a[i] = Miner(r, s[i])
      /\ b \in Seq(Entries) /\ Len(b) = n /\ \A i \in 1..n : b[i] = Miner(r, t[i])
  BY MinersOfType
<1>4. l \in Seq(Entries) /\ Len(l) = m + n /\ \A i \in 1..(m + n) : l[i] = Miner(r, st[i])
  BY <1>2, MinersOfType
<1> HIDE DEF a, b, l
<1>5. /\ c \in Seq(Entries) /\ Len(c) = m + n
      /\ \A i \in 1..(m + n) : c[i] = IF i <= m THEN a[i] ELSE b[i - m]
  <2>1. a \in Seq(Entries) /\ b \in Seq(Entries)
    BY <1>3
  <2>2. /\ c \in Seq(Entries) /\ Len(c) = Len(a) + Len(b)
        /\ \A i \in 1..(Len(a) + Len(b)) : c[i] = IF i <= Len(a) THEN a[i] ELSE b[i - Len(a)]
    BY <2>1, ConcatProperties
  <2>3. Len(a) = m /\ Len(b) = n
    BY <1>3
  <2> HIDE DEF c, m, n
  <2> QED
    BY <2>2, <2>3
<1> HIDE DEF c, m, n
<1>6. ASSUME NEW i \in 1..(m + n)
      PROVE  l[i] = c[i]
  <2>1. CASE i <= m
    <3>1. i \in 1..m
      BY <1>1, <2>1
    <3>2. st[i] = s[i]
      BY <2>1, <1>2
    <3>3. c[i] = a[i]
      BY <2>1, <1>5
    <3>4. a[i] = Miner(r, s[i])
      BY <3>1, <1>3
    <3>5. l[i] = Miner(r, st[i])
      BY <1>4
    <3> QED
      BY <3>2, <3>3, <3>4, <3>5
  <2>2. CASE ~(i <= m)
    <3>1. i - m \in 1..n
      BY <1>1, <2>2
    <3>2. st[i] = t[i - m]
      BY <2>2, <1>2
    <3>3. c[i] = b[i - m]
      BY <2>2, <1>5
    <3>4. b[i - m] = Miner(r, t[i - m])
      BY <3>1, <1>3
    <3>5. l[i] = Miner(r, st[i])
      BY <1>4
    <3> QED
      BY <3>2, <3>3, <3>4, <3>5
  <2> QED
    BY <2>1, <2>2
<1>7. l = c
  BY <1>4, <1>5, <1>6, SeqEqual
<1> QED
  BY <1>7 DEF l, c, a, b, st

LEMMA CountOfType ==
  ASSUME NEW s \in Seq(Entries), NEW x
  PROVE  CountOf(s, x) \in Nat
<1> DEFINE at == {i \in DOMAIN s : s[i].miner = x}
<1>1. Len(s) \in Nat /\ DOMAIN s = 1..Len(s)
  BY ListBasics
<1>2. IsFiniteSet(1..Len(s))
  BY <1>1, FS_Interval
<1>3. IsFiniteSet(at)
  BY <1>1, <1>2, FS_Subset
<1> QED
  BY <1>3, FS_CardinalityType DEF CountOf

LEMMA CountOfConcat ==
  ASSUME NEW s \in Seq(Entries), NEW t \in Seq(Entries), NEW x
  PROVE  CountOf(s \o t, x) = CountOf(s, x) + CountOf(t, x)
<1> DEFINE st == s \o t
           m  == Len(s)
           n  == Len(t)
           A  == {i \in 1..m : s[i].miner = x}
           B  == {i \in 1..n : t[i].miner = x}
           C  == {i \in 1..(m + n) : st[i].miner = x}
           D  == {i \in (m + 1)..(m + n) : st[i].miner = x}
<1>1. m \in Nat /\ n \in Nat /\ DOMAIN s = 1..m /\ DOMAIN t = 1..n
  BY ListBasics
<1>2. /\ st \in Seq(Entries) /\ Len(st) = m + n
      /\ \A i \in 1..(m + n) : st[i] = IF i <= m THEN s[i] ELSE t[i - m]
  BY ConcatProperties
<1> HIDE DEF st
<1>3. DOMAIN st = 1..(m + n)
  BY <1>2, ListBasics
<1>4. /\ CountOf(s, x) = Cardinality(A) /\ CountOf(t, x) = Cardinality(B)
      /\ CountOf(st, x) = Cardinality(C)
  BY <1>1, <1>3 DEF CountOf
<1> HIDE DEF m, n
<1>5. IsFiniteSet(A) /\ IsFiniteSet(B) /\ IsFiniteSet(C) /\ IsFiniteSet(D)
  <2>1. IsFiniteSet(1..m) /\ IsFiniteSet(1..n) /\ IsFiniteSet(1..(m + n)) /\ IsFiniteSet((m + 1)..(m + n))
    BY <1>1, FS_Interval
  <2> QED
    BY <2>1, FS_Subset
<1>6. C = A \cup D /\ A \cap D = {}
  <2>1. \A i \in 1..m : i \in 1..(m + n) /\ st[i] = s[i] /\ i \notin (m + 1)..(m + n)
    BY <1>1, <1>2
  <2>2. 1..(m + n) = (1..m) \cup ((m + 1)..(m + n))
    BY <1>1
  <2> QED
    BY <2>1, <2>2
<1>7. ExistsBijection(B, D)
  <2> DEFINE f == [i \in B |-> i + m]
  <2>1. \A i \in B : i + m \in D
    <3> SUFFICES ASSUME NEW i \in B
                 PROVE  i + m \in D
      OBVIOUS
    <3> DEFINE j == i + m
    <3>1. j \in (m + 1)..(m + n) /\ j \in 1..(m + n) /\ ~(j <= m) /\ j - m = i
      BY <1>1
    <3>2. st[j] = t[i]
      <4> HIDE DEF j
      <4> QED
        BY <3>1, <1>2
    <3> QED
      BY <3>1, <3>2
  <2>2. f \in [B -> D] /\ \A i \in B : f[i] = i + m
    BY <2>1
  <2>3. \A i, j \in B : f[i] = f[j] => i = j
    BY <1>1, <2>2
  <2>4. \A j \in D : \E i \in B : f[i] = j
    <3> SUFFICES ASSUME NEW j \in D
                 PROVE  \E i \in B : i + m = j
      BY <2>2
    <3> DEFINE i == j - m
    <3>1. j \in 1..(m + n) /\ ~(j <= m) /\ i \in 1..n /\ i + m = j
      BY <1>1
    <3>2. st[j] = t[i]
      BY <3>1, <1>2
    <3> QED
      BY <3>1, <3>2
  <2> HIDE DEF f, B, D
  <2>5. f \in Bijection(B, D)
    <3>1. f \in Injection(B, D)
      BY <2>2, <2>3, Zenon DEF Injection, IsInjective
    <3>2. f \in Surjection(B, D)
      BY <2>2, <2>4, Zenon DEF Surjection
    <3> QED
      BY <3>1, <3>2 DEF Bijection
  <2> QED
    BY <2>5 DEF ExistsBijection
<1>8. Cardinality(D) = Cardinality(B)
  BY <1>5, <1>7, FS_Bijection
<1>9. Cardinality(C) = Cardinality(A) + Cardinality(D)
  <2>1. Cardinality(A \cup D) = Cardinality(A) + Cardinality(D) - Cardinality(A \cap D)
    BY <1>5, FS_Union
  <2>2. Cardinality(A \cap D) = 0
    BY <1>6, FS_EmptySet
  <2>3. Cardinality(A) \in Nat /\ Cardinality(D) \in Nat
    BY <1>5, FS_CardinalityType
  <2> DEFINE ka == Cardinality(A)
             kd == Cardinality(D)
             ku == Cardinality(A \cup D)
             ki == Cardinality(A \cap D)
  <2>4. Cardinality(C) = ku
    BY <1>6
  <2>5. ku = ka + kd - ki /\ ki = 0 /\ ka \in Nat /\ kd \in Nat
    BY <2>1, <2>2, <2>3
  <2> HIDE DEF ka, kd, ku, ki
  <2>6. ku = ka + kd
    BY <2>5
  <2> QED
    BY <2>4, <2>6 DEF ka, kd
<1> QED
  BY <1>4, <1>8, <1>9 DEF st

LEMMA CountOfEmpty == \A x : CountOf(<<>>, x) = 0
<1>1. \A x : {i \in DOMAIN <<>> : <<>>[i].miner = x} = {}
  OBVIOUS
<1> QED
  BY <1>1, FS_EmptySet DEF CountOf

LEMMA NewestOfType ==
  ASSUME NEW s \in Seq(Entries)
  PROVE  NewestOf(s) \in Seq(Entries)
<1>1. PAGE \in Nat
  BY ExplorerAssumption
<1>2. Reverse(s) \in Seq(Entries)
  BY ReverseBasics
<1> DEFINE r == Reverse(s)
<1> HIDE DEF r
<1>3. r \in Seq(Entries)
  BY <1>2 DEF r
<1>4. FirstN(r, PAGE) \in Seq(Entries)
  BY <1>1, <1>3, FirstNBasics
<1> QED
  BY <1>4 DEF NewestOf, r

LEMMA NewestOfEmpty == NewestOf(<<>>) = <<>>
<1>1. Reverse(<<>>) = <<>> /\ PAGE \in Nat
  BY ReverseEmpty, ExplorerAssumption
<1>2. Len(FirstN(<<>>, PAGE)) = 0 /\ FirstN(<<>>, PAGE) \in Seq({})
  <2>1. <<>> \in Seq({}) /\ Len(<<>>) = 0
    BY EmptyBasics
  <2>2. /\ FirstN(<<>>, PAGE) \in Seq({})
        /\ Len(FirstN(<<>>, PAGE)) = IF PAGE < Len(<<>>) THEN PAGE ELSE Len(<<>>)
    BY <2>1, <1>1, FirstNBasics
  <2> QED
    BY <2>1, <2>2, <1>1
<1> QED
  BY <1>1, <1>2, EmptySeq DEF NewestOf

-----------------------------------------------------------------------------
(* The two ways of counting.                                                *)

Counted(list) == [m \in Miners \cup {Unknown} |-> CountOf(list, m)]

LEMMA CountedType ==
  ASSUME NEW s \in Seq(Entries)
  PROVE  Counted(s) \in [Miners \cup {Unknown} -> Nat]
BY CountOfType DEF Counted

\* recalculate_full_miner_stats leaves the counts of the list it leaves.
LEMMA Recalculated ==
  ASSUME NEW r \in Configs, NEW synced \in Seq(Blocks), newest \in Seq(Entries),
         Recalculate(r, synced)
  PROVE  /\ config' = r
         /\ counted' = MinersOf(r, synced) /\ counted' \in Seq(Entries)
         /\ recent' \in Seq(Entries)
         /\ counts' = Counted(recent')
         /\ newest' \in Seq(Entries)
         /\ synced # <<>> => newest' = NewestOf(recent')
         /\ synced = <<>> => recent' = <<>> /\ newest' = newest
<1> DEFINE all == MinersOf(r, synced)
           S   == RecentSince(Time[Last(synced)] - RECENT_WINDOW)
           rec == Filtered(all, S)
<1>1. /\ config' = r
      /\ counted' = all
      /\ recent' = IF synced = <<>> THEN <<>> ELSE rec
      /\ counts' = [m \in Miners \cup {Unknown} |->
                      IF synced = <<>> THEN 0 ELSE CountOf(rec, m)]
      /\ newest' = IF synced = <<>> THEN newest ELSE NewestOf(rec)
  BY DEF Recalculate, MinersOf
<1>2. all \in Seq(Entries)
  BY MinersOfType
<1> HIDE DEF all, S
<1>3. rec \in Seq(Entries)
  BY <1>2, FilteredType
<1> HIDE DEF rec
<1>4. CASE synced = <<>>
  <2>1. recent' = <<>> /\ newest' = newest /\ counts' = [m \in Miners \cup {Unknown} |-> 0]
    BY <1>1, <1>4
  <2>2. counts' = Counted(recent')
    BY <2>1, CountOfEmpty DEF Counted
  <2> QED
    BY <1>1, <1>2, <1>4, <2>1, <2>2, EmptyBasics DEF all
<1>5. CASE synced # <<>>
  <2>1. recent' = rec /\ newest' = NewestOf(rec)
        /\ counts' = [m \in Miners \cup {Unknown} |-> CountOf(rec, m)]
    BY <1>1, <1>5
  <2> QED
    BY <1>1, <1>2, <1>3, <1>5, <2>1, NewestOfType DEF all, Counted
<1> QED
  BY <1>4, <1>5

LEMMA StaleRange ==
  ASSUME NEW after, recent \in Seq(Entries)
  PROVE  Stale(after) \in 0..Len(recent)
<1> DEFINE X == {i \in DOMAIN recent : \A j \in 1..i : Time[recent[j].block] < after}
<1>1. Len(recent) \in Nat /\ DOMAIN recent = 1..Len(recent)
  BY ListBasics
<1>2. IsFiniteSet(1..Len(recent)) /\ Cardinality(1..Len(recent)) = Len(recent)
  BY <1>1, FS_Interval
<1>3. X \subseteq 1..Len(recent)
  BY <1>1
<1> HIDE DEF X
<1>4. IsFiniteSet(X) /\ Cardinality(X) <= Cardinality(1..Len(recent))
  BY <1>2, <1>3, FS_Subset
<1>5. Cardinality(X) \in Nat
  BY <1>4, FS_CardinalityType
<1>6. Cardinality(X) <= Len(recent)
  BY <1>2, <1>4
<1>7. Cardinality(X) \in 0..Len(recent)
  BY <1>1, <1>5, <1>6
<1> QED
  BY <1>7 DEF Stale, X

\* callback_chain_extended keeps the counts of the list it keeps, however many
\* blocks are popped.
LEMMA Extended ==
  ASSUME NEW blocks \in Seq(Blocks), config \in Configs, counted \in Seq(Entries),
         recent \in Seq(Entries), counts = Counted(recent), Extend(blocks)
  PROVE  /\ config' = config
         /\ counted' = counted \o MinersOf(config, blocks) /\ counted' \in Seq(Entries)
         /\ recent' \in Seq(Entries)
         /\ counts' = Counted(recent')
         /\ newest' = NewestOf(recent') /\ newest' \in Seq(Entries)
<1> DEFINE new == MinersOf(config, blocks)
           k == Stale(Time[Last(blocks)] - RECENT_WINDOW)
           S == RecentSince(Time[Last(blocks)] - RECENT_WINDOW)
           gone == SubSeq(recent, 1, k)
           kept == SubSeq(recent, k + 1, Len(recent))
           fresh == Filtered(new, S)
<1>1. /\ counted' = counted \o new
      /\ recent' = kept \o fresh
      /\ counts' = CountsAfter(gone, fresh)
      /\ newest' = NewestOf(kept \o fresh)
      /\ config' = config
  BY DEF Extend, MinersOf
<1>2. new \in Seq(Entries)
  BY MinersOfType
<1>3. k \in 0..Len(recent)
  BY StaleRange
<1> HIDE DEF new, k, S
<1>4. gone \in Seq(Entries) /\ kept \in Seq(Entries) /\ gone \o kept = recent
  BY <1>3, ListSplit
<1>5. fresh \in Seq(Entries)
  BY <1>2, FilteredType
<1> HIDE DEF gone, kept, fresh
<1>6. kept \o fresh \in Seq(Entries) /\ counted \o new \in Seq(Entries)
  BY <1>2, <1>4, <1>5, ConcatBasics
<1>7. \A m : CountOf(recent, m) = CountOf(gone, m) + CountOf(kept, m)
  <2>1. \A m : CountOf(gone \o kept, m) = CountOf(gone, m) + CountOf(kept, m)
    BY <1>4, CountOfConcat
  <2> QED
    BY <2>1, <1>4
<1>8. \A m : CountOf(kept \o fresh, m) = CountOf(kept, m) + CountOf(fresh, m)
  BY <1>4, <1>5, CountOfConcat
<1>9. \A m : CountOf(gone, m) \in Nat /\ CountOf(kept, m) \in Nat /\ CountOf(fresh, m) \in Nat
  BY <1>4, <1>5, CountOfType
<1>10. DOMAIN counts = Miners \cup {Unknown}
       /\ \A m \in Miners \cup {Unknown} : counts[m] = CountOf(gone, m) + CountOf(kept, m)
  BY <1>7 DEF Counted
<1>11. ASSUME NEW m \in Miners \cup {Unknown}
       PROVE  counts[m] - CountOf(gone, m) + CountOf(fresh, m) = CountOf(kept \o fresh, m)
  <2> DEFINE x == CountOf(gone, m)
             y == CountOf(kept, m)
             z == CountOf(fresh, m)
             w == CountOf(kept \o fresh, m)
             v == counts[m]
  <2>1. x \in Nat /\ y \in Nat /\ z \in Nat /\ v = x + y /\ w = y + z
    BY <1>8, <1>9, <1>10
  <2> HIDE DEF x, y, z, w, v
  <2>2. v - x + z = w
    BY <2>1
  <2> QED
    BY <2>2 DEF x, z, w, v
<1>12. counts' = Counted(kept \o fresh)
  BY <1>1, <1>10, <1>11 DEF CountsAfter, Counted
<1> QED
  BY <1>1, <1>6, <1>12, NewestOfType DEF new

-----------------------------------------------------------------------------
(* The first part of the invariant: every variable has its type, the counts *)
(* are those of the recent blocks, and every block that something waits for *)
(* is a known one.                                                          *)

Live     == phase \in {"start", "sync", "keepup"}
Tracking == phase \in {"sync", "keepup"}

Entry == [block : Blocks, reorg : BOOLEAN, sibling : BOOLEAN]
Stages == {"idle", "write", "mark", "count", "page"}
Jobs == [stage : Stages, reorg : BOOLEAN, blocks : Seq(Blocks), ended : SUBSET Tables]

DiskTyped ==
  /\ rows \subseteq Blocks /\ flagged \subseteq Blocks
  /\ metrics \subseteq Blocks /\ stored \subseteq Blocks \X Tables
ChainTyped ==
  /\ phase \in {"down", "start", "sync", "keepup", "dead"}
  /\ known \subseteq Blocks /\ fetched \subseteq known /\ top \in Blocks
  /\ pending \subseteq Blocks
WorkTyped ==
  plan \in Seq(Blocks) /\ queue \in Seq(Entry) /\ job \in Jobs
MinersTyped ==
  /\ config \in Configs
  /\ counted \in Seq(Entries) /\ recent \in Seq(Entries)
  /\ newest \in Seq(Entries)
  /\ counts = Counted(recent)
PageTyped ==
  /\ page.blocks \in Seq(Blocks) /\ page.stats \in Seq(Blocks)
  /\ page.txs \in Seq(Blocks \X Nat)
HistTyped ==
  /\ stops \in 0..MaxStops
  /\ applied \in Seq(Blocks) /\ raced \in BOOLEAN /\ mixed \in BOOLEAN
Typed ==
  DiskTyped /\ ChainTyped /\ WorkTyped /\ MinersTyped /\ PageTyped /\ HistTyped

\* The histories of what failed.
FailTyped ==
  /\ unreadable \in Unreadable
  /\ torn \subseteq Blocks \X Tables /\ gap \in BOOLEAN /\ events \in 0..MaxEvents

LEMMA TypedIsTypeOK == Typed /\ FailTyped => TypeOK
<1> SUFFICES ASSUME Typed, FailTyped
             PROVE  TypeOK
  OBVIOUS
<1>1. counts \in [Miners \cup {Unknown} -> Nat]
  BY CountedType DEF Typed, MinersTyped
<1>2. DiskTyped /\ ChainTyped /\ WorkTyped /\ MinersTyped /\ PageTyped /\ HistTyped
  BY DEF Typed
<1>3. plan \in Seq(Blocks) /\ queue \in Seq([block : Blocks, reorg : BOOLEAN, sibling : BOOLEAN])
      /\ job \in [stage : {"idle", "write", "mark", "count", "page"},
                  reorg : BOOLEAN, blocks : Seq(Blocks), ended : SUBSET Tables]
  BY <1>2, Zenon DEF WorkTyped, Entry, Jobs, Stages
<1> QED
  BY <1>1, <1>2, <1>3, Zenon DEF TypeOK, FailTyped, DiskTyped, ChainTyped, MinersTyped, PageTyped, HistTyped

\* What is nowhere: before the start there is nothing in memory, a job exists
\* only while blocks are applied.
Shape ==
  /\ job.stage = "idle" => job = NoJob
  /\ job.stage # "idle" => Tracking /\ job.blocks # <<>>
  /\ phase = "down" => known = {} /\ fetched = {} /\ newest = <<>>
  /\ phase \in {"down", "start"} => plan = <<>> /\ queue = <<>> /\ job = NoJob /\ page = NoPage
Held ==
  /\ ToSet(job.blocks) \subseteq known /\ ToSet(plan) \subseteq known
  /\ \A i \in DOMAIN queue : queue[i].block \in known
  /\ Live => Genesis \in known /\ top \in known
  /\ Closed(known)

StateInv == Typed /\ Shape /\ Held

LEMMA NoJobFacts == NoJob \in Jobs /\ NoJob.stage = "idle" /\ NoJob.blocks = <<>> /\ ~NoJob.reorg
                    /\ NoJob.ended = {}
<1>1. <<>> \in Seq(Blocks)
  BY EmptyBasics
<1> QED
  BY <1>1 DEF NoJob, Jobs, Stages

LEMMA NoPageFacts ==
  /\ NoPage.blocks = <<>> /\ NoPage.txs = <<>> /\ NoPage.stats = <<>>
BY DEF NoPage

LEMMA NextStage ==
  ASSUME job \in Jobs, NEW s \in Stages, job' = [job EXCEPT !.stage = s]
  PROVE  /\ job' \in Jobs /\ job'.stage = s /\ job'.blocks = job.blocks /\ job'.reorg = job.reorg
         /\ job'.ended = job.ended
<1> DEFINE u == [job EXCEPT !.stage = s]
<1>1. /\ u \in Jobs /\ u.stage = s /\ u.blocks = job.blocks /\ u.reorg = job.reorg
      /\ u.ended = job.ended
  BY DEF Jobs
<1> QED
  BY <1>1

LEMMA NextEnded ==
  ASSUME job \in Jobs, NEW t \in Tables, EndTask(t)
  PROVE  /\ job' \in Jobs /\ job.stage = "write" /\ job'.stage = "write"
         /\ job'.blocks = job.blocks /\ job'.reorg = job.reorg
         /\ job'.ended = job.ended \cup {t}
<1> DEFINE e == job.ended \cup {t}
           u == [job EXCEPT !.ended = e]
<1>1. e \in SUBSET Tables
  BY DEF Jobs
<1>2. job.stage = "write" /\ job' = u
  BY DEF EndTask
<1> HIDE DEF e
<1>3. u \in Jobs /\ u.stage = job.stage /\ u.blocks = job.blocks /\ u.reorg = job.reorg /\ u.ended = e
  BY <1>1 DEF Jobs
<1> QED
  BY <1>2, <1>3 DEF e

LEMMA StateAtFirst == Init => StateInv
<1> SUFFICES ASSUME Init
             PROVE  StateInv
  OBVIOUS
<1>1. \A U : <<>> \in Seq(U)
  BY EmptyBasics
<1>2. ToSet(<<>>) = {} /\ DOMAIN <<>> = {}
  BY EmptyBasics
<1>3. Counted(<<>>) = [m \in Miners \cup {Unknown} |-> 0]
  BY CountOfEmpty DEF Counted
<1>4. DiskTyped
  BY DEF Init, DiskTyped
<1>5. ChainTyped
  BY TreeAssumption DEF Init, ChainTyped
<1>6. WorkTyped
  BY <1>1, NoJobFacts DEF Init, WorkTyped
<1>7. MinersTyped
  BY <1>1, <1>3 DEF Init, MinersTyped
<1>8. PageTyped
  BY <1>1, NoPageFacts DEF Init, PageTyped
<1>9. HistTyped
  <2>1. 0 \in 0..MaxStops
    BY ExplorerAssumption
  <2> QED
    BY <1>1, <2>1, Zenon DEF Init, HistTyped
<1>10. Shape
  BY NoJobFacts DEF Init, Shape
<1>11. Held
  BY <1>2, NoJobFacts DEF Init, Held, Live, Closed
<1> QED
  BY <1>4, <1>5, <1>6, <1>7, <1>8, <1>9, <1>10, <1>11 DEF StateInv, Typed

\* The blocks below a closed set of blocks are all there.
LEMMA LoadedClosed ==
  ASSUME rows \subseteq Blocks
  PROVE  /\ Loaded \subseteq Blocks /\ Genesis \in Loaded /\ Closed(Loaded)
         /\ LoadedFetched \subseteq Loaded /\ Closed(LoadedFetched)
         /\ LoadedFetched \subseteq flagged
<1>1. Genesis \in Blocks
  BY TreeAssumption
<1>2. Loaded \subseteq Blocks /\ Genesis \in Loaded
  BY <1>1 DEF Loaded
<1>3. LoadedFetched \subseteq Loaded
  BY DEF Loaded, LoadedFetched
<1>4. ASSUME NEW b \in Blocks \ {Genesis}
      PROVE  /\ Parent[b] \in ToSet(PathTo[b])
             /\ ToSet(PathTo[Parent[b]]) \subseteq ToSet(PathTo[b])
  <2>1. Parent[b] \in Blocks
    BY WorkType
  <2>2. Parent[b] \in ToSet(PathTo[Parent[b]])
    BY <2>1, PathType
  <2>3. ToSet(PathTo[b]) = ToSet(PathTo[Parent[b]]) \cup {b}
    BY PathSet
  <2> QED
    BY <2>2, <2>3
<1>5. Closed(Loaded)
  BY <1>4 DEF Closed, Loaded
<1>6. Closed(LoadedFetched)
  BY <1>4 DEF Closed, LoadedFetched
<1>7. LoadedFetched \subseteq flagged
  <2>1. \A b \in Blocks : b \in ToSet(PathTo[b])
    BY PathType
  <2> QED
    BY <2>1 DEF LoadedFetched
<1> QED
  BY <1>2, <1>3, <1>5, <1>6, <1>7

LEMMA FilteredWithin ==
  ASSUME NEW U, NEW s \in Seq(U), NEW S
  PROVE  Filtered(s, S) \in Seq(U) /\ ToSet(Filtered(s, S)) \subseteq ToSet(s)
<1> DEFINE V == ToSet(s)
           f == Filtered(s, S)
<1>1. Len(s) \in Nat /\ s \in [1..Len(s) -> V]
  <2>1. Len(s) \in Nat /\ DOMAIN s = 1..Len(s) /\ \A i \in 1..Len(s) : s[i] \in V
    BY ListBasics
  <2>2. s = [i \in DOMAIN s |-> s[i]]
    BY SeqDef
  <2> QED
    BY <2>1, <2>2
<1> HIDE DEF V
<1>2. s \in Seq(V)
  BY <1>1, FunctionIsList
<1>3. f \in Seq(V)
  BY <1>2, FilteredType
<1>4. f \in Seq(U)
  BY FilteredType
<1> HIDE DEF f
<1>5. ToSet(f) \subseteq V
  BY <1>3, ListBasics
<1> QED
  BY <1>4, <1>5 DEF f, V

LEMMA SyncedType ==
  ASSUME NEW b \in Blocks
  PROVE  SyncedUpTo(b) \in Seq(Blocks)
<1> DEFINE p == PathTo[b]
<1>1. p \in Seq(Blocks)
  BY PathType
<1> HIDE DEF p
<1>2. Filtered(p, fetched) \in Seq(Blocks)
  BY <1>1, FilteredType
<1> QED
  BY <1>2 DEF p, SyncedUpTo

LEMMA MissingType ==
  ASSUME top \in Blocks
  PROVE  Missing \in Seq(Blocks) /\ ToSet(Missing) \subseteq ToSet(PathTo[top])
<1> DEFINE p == PathTo[top]
           S == Blocks \ fetched
<1>1. p \in Seq(Blocks)
  BY PathType
<1> HIDE DEF p, S
<1>2. Filtered(p, S) \in Seq(Blocks)
  BY <1>1, FilteredType
<1>3. ToSet(Filtered(p, S)) \subseteq ToSet(p)
  BY <1>1, FilteredWithin
<1> QED
  BY <1>2, <1>3 DEF p, S, Missing

\* What LearnHeader puts at the end of the chain watcher's queue.
LEMMA Enqueued ==
  ASSUME queue \in Seq(Entry), NEW added \in Seq(Blocks), NEW replaces \in BOOLEAN,
         Enqueue(added, replaces)
  PROVE  /\ queue' \in Seq(Entry) /\ Len(queue') = Len(queue) + Len(added)
         /\ \A i \in 1..Len(queue) : queue'[i] = queue[i]
         /\ \A i \in 1..Len(added) : /\ queue'[Len(queue) + i].block = added[i]
                                     /\ queue'[Len(queue) + i].reorg = (i = 1 /\ Len(added) > 1)
                                     /\ queue'[Len(queue) + i].sibling = replaces
<1> DEFINE Item(i) == [block |-> added[i], reorg |-> i = 1 /\ Len(added) > 1, sibling |-> replaces]
           n == Len(added)
           k == Len(queue)
           new == [i \in 1..n |-> Item(i)]
           q == queue \o new
<1>1. n \in Nat /\ DOMAIN added = 1..n /\ \A i \in 1..n : added[i] \in Blocks
  BY ListBasics
<1>2. k \in Nat
  BY ListBasics
<1>3. queue' = q
  BY <1>1 DEF Enqueue, FirstRegenerates
<1>4. ASSUME NEW i \in 1..n
      PROVE  Item(i) \in Entry
  <2>1. (i = 1 /\ Len(added) > 1) \in BOOLEAN
    OBVIOUS
  <2> QED
    BY <1>1, <2>1, Zenon DEF Entry
<1>5. new \in Seq(Entry) /\ Len(new) = n /\ \A i \in 1..n : new[i] = Item(i)
  <2> HIDE DEF Item, n
  <2>1. new \in [1..n -> Entry]
    BY <1>4
  <2> QED
    BY <1>1, <2>1, FunctionIsList
<1> HIDE DEF new, n, Item
<1>6. /\ q \in Seq(Entry) /\ Len(q) = k + Len(new)
      /\ \A i \in 1..(k + Len(new)) : q[i] = IF i <= k THEN queue[i] ELSE new[i - k]
  <2>1. queue \in Seq(Entry) /\ new \in Seq(Entry)
    BY <1>5
  <2> QED
    BY <2>1, ConcatProperties
<1> HIDE DEF q, k
<1>7. \A i \in 1..k : q[i] = queue[i]
  <2> HIDE DEF n
  <2>1. \A i \in 1..k : i \in 1..(k + n) /\ i <= k
    BY <1>1, <1>2
  <2> QED
    BY <1>5, <1>6, <2>1
<1>8. \A i \in 1..n : q[k + i] = Item(i)
  <2> HIDE DEF n
  <2> SUFFICES ASSUME NEW i \in 1..n
               PROVE  q[k + i] = Item(i)
    OBVIOUS
  <2>1. k + i \in 1..(k + n) /\ ~(k + i <= k) /\ (k + i) - k = i
    BY <1>1, <1>2
  <2> DEFINE j == k + i
  <2> HIDE DEF j
  <2>2. j \in 1..(k + n) /\ ~(j <= k) /\ j - k = i
    BY <2>1 DEF j
  <2>3. q[j] = new[j - k]
    BY <1>5, <1>6, <2>2
  <2>4. q[j] = new[i]
    BY <2>2, <2>3
  <2> QED
    BY <1>5, <2>4 DEF j
<1>9. \A i \in 1..n : /\ Item(i).block = added[i]
                      /\ Item(i).reorg = (i = 1 /\ Len(added) > 1)
                      /\ Item(i).sibling = replaces
  BY DEF Item
<1>10. \A i \in 1..n : /\ q[k + i].block = added[i]
                       /\ q[k + i].reorg = (i = 1 /\ Len(added) > 1)
                       /\ q[k + i].sibling = replaces
  BY <1>8, <1>9
<1> QED
  BY <1>3, <1>5, <1>6, <1>7, <1>10, Zenon DEF k, n

LEMMA AddedType ==
  ASSUME top \in Blocks, NEW h \in Blocks
  PROVE  AddedBlocks(h) \in Seq(Blocks) /\ ToSet(AddedBlocks(h)) \subseteq ToSet(PathTo[h])
<1> DEFINE p == PathTo[h]
           S == Blocks \ ToSet(PathTo[top])
<1>1. p \in Seq(Blocks)
  BY PathType
<1> HIDE DEF p, S
<1>2. Filtered(p, S) \in Seq(Blocks) /\ ToSet(Filtered(p, S)) \subseteq ToSet(p)
  BY <1>1, FilteredWithin
<1> QED
  BY <1>2 DEF p, S, AddedBlocks

LEMMA StateLearnHeader ==
  ASSUME StateInv, NEW h \in Blocks, LearnHeader(h)
  PROVE  StateInv'
<1> DEFINE added == AddedBlocks(h)
           better == Work[h] >= Work[top]
<1>1. /\ Live /\ h \notin known /\ Parent[h] \in known
      /\ known' = known \cup {h} /\ pending' = pending \cup {h}
      /\ top' = IF better THEN h ELSE top
      /\ \/ phase # "start" /\ Enqueue(added, Len(added) = 1 /\ Parent[h] # top)
         \/ UNCHANGED queue
      /\ UNCHANGED <<diskVars, phase, fetched, plan, job, minerVars, page, stops, histVars>>
  BY DEF LearnHeader, Live
<1>2. DiskTyped /\ ChainTyped /\ WorkTyped /\ MinersTyped /\ PageTyped /\ HistTyped
  BY DEF StateInv, Typed
<1>3. /\ UNCHANGED <<rows, flagged, metrics, stored>> /\ UNCHANGED <<phase, fetched, plan, job>>
      /\ UNCHANGED <<config, counted, recent, counts, newest>>
      /\ UNCHANGED <<page, stops, applied, raced, mixed>>
  BY <1>1 DEF diskVars, minerVars, histVars
<1>4. top \in Blocks /\ known \subseteq Blocks
  BY <1>2 DEF ChainTyped
<1>5. added \in Seq(Blocks) /\ ToSet(added) \subseteq ToSet(PathTo[h])
  BY <1>4, AddedType
<1>6. Closed(known') /\ h \in known'
  BY <1>1, <1>4 DEF Closed, StateInv, Held
<1>7. ToSet(PathTo[h]) \subseteq known'
  BY <1>6, ClosedHoldsPath
<1> HIDE DEF added
<1>8. queue' \in Seq(Entry) /\ \A i \in DOMAIN queue' : queue'[i].block \in known'
  <2>1. /\ queue \in Seq(Entry) /\ Len(queue) \in Nat /\ DOMAIN queue = 1..Len(queue)
        /\ \A i \in 1..Len(queue) : queue[i].block \in known'
    BY <1>1, <1>2, ListBasics DEF WorkTyped, StateInv, Held
  <2>2. CASE UNCHANGED queue
    BY <2>1, <2>2
  <2>3. CASE Enqueue(added, Len(added) = 1 /\ Parent[h] # top)
    <3> DEFINE k == Len(queue)
               n == Len(added)
    <3>1. /\ queue' \in Seq(Entry) /\ Len(queue') = k + n
          /\ \A i \in 1..k : queue'[i] = queue[i]
          /\ \A i \in 1..n : queue'[k + i].block = added[i]
      BY <1>5, <2>1, <2>3, Enqueued
    <3>2. n \in Nat /\ \A i \in 1..n : added[i] \in ToSet(added)
      BY <1>5, ListBasics
    <3>3. DOMAIN queue' = 1..Len(queue')
      BY <3>1, ListBasics
    <3> HIDE DEF k, n
    <3>4. ASSUME NEW i \in 1..(k + n)
          PROVE  queue'[i].block \in known'
      <4>1. k \in Nat
        BY <2>1 DEF k
      <4>2. CASE i <= k
        <5>1. i \in 1..k
          BY <4>1, <4>2, <3>2
        <5> QED
          BY <5>1, <2>1, <3>1 DEF k
      <4>3. CASE ~(i <= k)
        <5> DEFINE j == i - k
        <5>1. j \in 1..n /\ k + j = i
          BY <4>1, <4>3, <3>2
        <5> HIDE DEF j
        <5>2. queue'[i].block = added[j]
          BY <5>1, <3>1
        <5> QED
          BY <5>1, <5>2, <3>2, <1>5, <1>7
      <4> QED
        BY <4>2, <4>3
    <3> QED
      BY <3>1, <3>3, <3>4
  <2> QED
    BY <1>1, <2>2, <2>3
<1>9. DiskTyped'
  BY <1>2, <1>3 DEF DiskTyped
<1>10. ChainTyped'
  BY <1>1, <1>2, <1>3 DEF ChainTyped
<1>11. WorkTyped'
  BY <1>2, <1>3, <1>8 DEF WorkTyped
<1>12. MinersTyped'
  BY <1>2, <1>3 DEF MinersTyped, Counted
<1>13. PageTyped'
  BY <1>2, <1>3 DEF PageTyped
<1>14. HistTyped'
  BY <1>2, <1>3, Zenon DEF HistTyped
<1>15. Shape'
  BY <1>1, <1>3 DEF StateInv, Shape, Live, Tracking
<1>16. Held'
  BY <1>1, <1>3, <1>6, <1>8 DEF StateInv, Held, Live
<1> QED
  BY <1>9, <1>10, <1>11, <1>12, <1>13, <1>14, <1>15, <1>16 DEF StateInv, Typed

LEMMA StateStutter ==
  ASSUME StateInv, UNCHANGED vars
  PROVE  StateInv'
<1>1. /\ UNCHANGED <<rows, flagged, metrics, stored>> /\ UNCHANGED <<phase, known, fetched, top, pending>>
      /\ UNCHANGED <<plan, queue, job>> /\ UNCHANGED <<config, counted, recent, counts, newest>>
      /\ UNCHANGED <<page, stops, applied, raced, mixed>>
  BY DEF vars, diskVars, chainVars, minerVars, histVars
<1>2. Typed'
  BY <1>1, Zenon DEF StateInv, Typed, DiskTyped, ChainTyped, WorkTyped, MinersTyped, PageTyped,
                     HistTyped, Counted
<1>3. Shape'
  BY <1>1 DEF StateInv, Shape, Tracking
<1>4. Held'
  BY <1>1 DEF StateInv, Held, Live
<1> QED
  BY <1>2, <1>3, <1>4 DEF StateInv

LEMMA StateFlushHeaders ==
  ASSUME StateInv, FlushHeaders
  PROVE  StateInv'
<1>1. /\ \E batch \in SUBSET pending : rows' = rows \cup batch /\ pending' = pending \ batch
      /\ UNCHANGED <<flagged, metrics, stored>> /\ UNCHANGED <<phase, known, fetched, top>>
      /\ UNCHANGED <<plan, queue, job>> /\ UNCHANGED <<config, counted, recent, counts, newest>>
      /\ UNCHANGED <<page, stops, applied, raced, mixed>>
  BY DEF FlushHeaders, minerVars, histVars
<1>2. DiskTyped' /\ ChainTyped'
  BY <1>1 DEF StateInv, Typed, DiskTyped, ChainTyped
<1>3. WorkTyped' /\ MinersTyped' /\ PageTyped' /\ HistTyped'
  BY <1>1, Zenon DEF StateInv, Typed, WorkTyped, MinersTyped, PageTyped, HistTyped, Counted
<1>4. Shape' /\ Held'
  BY <1>1 DEF StateInv, Shape, Tracking, Held, Live
<1> QED
  BY <1>2, <1>3, <1>4 DEF StateInv, Typed

LEMMA StateReload ==
  ASSUME StateInv, NEW r \in Configs, Reload(r)
  PROVE  StateInv'
<1>1. /\ Recalculate(r, Synced) /\ raced' = RecountDiffers
      /\ UNCHANGED <<rows, flagged, metrics, stored>> /\ UNCHANGED <<phase, known, fetched, top, pending>>
      /\ UNCHANGED <<plan, queue, job>> /\ UNCHANGED <<page, stops, applied, mixed>>
      /\ phase # "down"
  BY DEF Reload, diskVars, chainVars
<1>2. top \in Blocks /\ newest \in Seq(Entries)
  BY DEF StateInv, Typed, ChainTyped, MinersTyped
<1>3. Synced \in Seq(Blocks)
  BY <1>2, SyncedType DEF Synced
<1>4. MinersTyped'
  <2> DEFINE s == Synced
  <2>1. s \in Seq(Blocks) /\ Recalculate(r, s)
    BY <1>1, <1>3
  <2> HIDE DEF s
  <2>2. /\ config' = r /\ counted' \in Seq(Entries) /\ recent' \in Seq(Entries)
        /\ counts' = Counted(recent') /\ newest' \in Seq(Entries)
    BY <1>2, <2>1, Recalculated
  <2> QED
    BY <2>2 DEF MinersTyped, Counted
<1>5. raced' \in BOOLEAN
  BY <1>1 DEF RecountDiffers
<1>6. DiskTyped' /\ ChainTyped' /\ WorkTyped' /\ PageTyped' /\ HistTyped'
  BY <1>1, <1>5, Zenon DEF StateInv, Typed, DiskTyped, ChainTyped, WorkTyped, PageTyped, HistTyped
<1>7. Shape' /\ Held'
  BY <1>1 DEF StateInv, Shape, Tracking, Held, Live
<1> QED
  BY <1>4, <1>6, <1>7 DEF StateInv, Typed

LEMMA StateStartBatch ==
  ASSUME StateInv, StartBatch
  PROVE  StateInv'
<1>1. /\ phase = "sync" /\ plan # <<>>
      /\ UNCHANGED <<rows, flagged, metrics, stored>> /\ UNCHANGED <<phase, known, fetched, top, pending>>
      /\ UNCHANGED queue /\ UNCHANGED <<config, counted, recent, counts, newest>>
      /\ UNCHANGED <<page, stops, applied, raced, mixed>>
  BY DEF StartBatch, diskVars, chainVars, minerVars, histVars
<1>2. PICK n \in 1..MaxBatch : /\ n <= Len(plan)
                               /\ job' = [stage |-> "write", reorg |-> FALSE, blocks |-> SubSeq(plan, 1, n), ended |-> {}]
                               /\ plan' = SubSeq(plan, n + 1, Len(plan))
  BY DEF StartBatch, StartJob
<1>3. plan \in Seq(Blocks) /\ Len(plan) \in Nat /\ n \in 0..Len(plan) /\ n > 0
  <2>1. plan \in Seq(Blocks)
    BY DEF StateInv, Typed, WorkTyped
  <2> QED
    BY <1>2, <2>1, ListBasics, ExplorerAssumption
<1> DEFINE a == SubSeq(plan, 1, n)
           b == SubSeq(plan, n + 1, Len(plan))
<1>4. a \in Seq(Blocks) /\ b \in Seq(Blocks) /\ Len(a) = n /\ a \o b = plan
  BY <1>3, ListSplit
<1> HIDE DEF a, b
<1>5. ToSet(a) \cup ToSet(b) = ToSet(plan)
  <2>1. a \in Seq(Blocks) /\ b \in Seq(Blocks)
    BY <1>4
  <2>2. ToSet(a \o b) = ToSet(a) \cup ToSet(b)
    BY <2>1, ConcatBasics
  <2> QED
    BY <2>2, <1>4
<1>6. a # <<>>
  BY <1>3, <1>4, EmptyBasics
<1>7. job'.stage = "write" /\ job'.reorg = FALSE /\ job'.blocks = a /\ plan' = b /\ job' \in Jobs
  <2> DEFINE j == [stage |-> "write", reorg |-> FALSE, blocks |-> a, ended |-> {}]
  <2>1. j \in Jobs /\ j.stage = "write" /\ j.reorg = FALSE /\ j.blocks = a
    BY <1>4 DEF Jobs, Stages
  <2> QED
    BY <1>2, <2>1 DEF a, b
<1>8. WorkTyped'
  BY <1>1, <1>4, <1>7 DEF StateInv, Typed, WorkTyped
<1>9. DiskTyped' /\ ChainTyped' /\ MinersTyped' /\ PageTyped' /\ HistTyped'
  BY <1>1, Zenon DEF StateInv, Typed, DiskTyped, ChainTyped, MinersTyped, PageTyped, HistTyped, Counted
<1>10. Shape'
  BY <1>1, <1>6, <1>7 DEF Shape, Tracking
<1>11. Held'
  BY <1>1, <1>5, <1>7 DEF StateInv, Held, Live
<1> QED
  BY <1>8, <1>9, <1>10, <1>11 DEF StateInv, Typed

LEMMA StateSyncDone ==
  ASSUME StateInv, SyncDone
  PROVE  StateInv'
<1>1. /\ phase = "sync" /\ job = NoJob /\ phase' = "keepup"
      /\ UNCHANGED <<rows, flagged, metrics, stored>> /\ UNCHANGED <<known, fetched, top, pending>>
      /\ UNCHANGED <<plan, queue, job>> /\ UNCHANGED <<config, counted, recent, counts, newest>>
      /\ UNCHANGED <<page, stops, applied, raced, mixed>>
  BY DEF SyncDone, diskVars, chainVars, minerVars, histVars
<1>2. Typed'
  BY <1>1, Zenon DEF StateInv, Typed, DiskTyped, ChainTyped, WorkTyped, MinersTyped, PageTyped,
                     HistTyped, Counted
<1>3. Shape' /\ Held'
  BY <1>1, NoJobFacts DEF StateInv, Shape, Tracking, Held, Live
<1> QED
  BY <1>2, <1>3 DEF StateInv

LEMMA StateStartApply ==
  ASSUME StateInv, StartApply
  PROVE  StateInv'
<1>1. /\ phase = "keepup" /\ queue # <<>> /\ queue' = Tail(queue)
      /\ mixed' = (mixed \/ Head(queue).sibling)
      /\ job' = [stage |-> "write", reorg |-> Head(queue).reorg, blocks |-> <<Head(queue).block>>, ended |-> {}]
      /\ UNCHANGED <<rows, flagged, metrics, stored>> /\ UNCHANGED <<phase, known, fetched, top, pending>>
      /\ UNCHANGED plan /\ UNCHANGED <<config, counted, recent, counts, newest>>
      /\ UNCHANGED <<page, stops, applied, raced>>
  BY DEF StartApply, StartJob, diskVars, chainVars, minerVars
<1>2. queue \in Seq(Entry) /\ DOMAIN queue = 1..Len(queue)
  BY ListBasics DEF StateInv, Typed, WorkTyped
<1>3. /\ Tail(queue) \in Seq(Entry) /\ Len(Tail(queue)) = Len(queue) - 1 /\ Len(queue) > 0 /\ Len(queue) \in Nat
      /\ \A i \in 1..(Len(queue) - 1) : Tail(queue)[i] = queue[i + 1]
      /\ Head(queue) = queue[1] /\ queue[1] \in Entry
  BY <1>1, <1>2, TailBasics
<1> DEFINE e == queue[1]
<1>4. e.block \in Blocks /\ e.reorg \in BOOLEAN /\ e.sibling \in BOOLEAN
  BY <1>3 DEF Entry
<1>5. e.block \in known
  <2>1. 1 \in DOMAIN queue
    BY <1>2, <1>3
  <2> QED
    BY <2>1 DEF StateInv, Held
<1> HIDE DEF e
<1>6. <<e.block>> \in Seq(Blocks) /\ <<e.block>> # <<>> /\ ToSet(<<e.block>>) = {e.block}
  BY <1>4, SingleBasics
<1>7. job' \in Jobs /\ job'.stage = "write" /\ job'.blocks = <<e.block>> /\ job'.reorg = e.reorg
  <2> DEFINE j == [stage |-> "write", reorg |-> e.reorg, blocks |-> <<e.block>>, ended |-> {}]
  <2>1. j \in Jobs /\ j.stage = "write" /\ j.blocks = <<e.block>> /\ j.reorg = e.reorg
    BY <1>4, <1>6 DEF Jobs, Stages
  <2>2. job' = j
    BY <1>1, <1>3 DEF e
  <2> QED
    BY <2>1, <2>2
<1>8. WorkTyped'
  BY <1>1, <1>3, <1>7 DEF StateInv, Typed, WorkTyped
<1>9. mixed' \in BOOLEAN
  BY <1>1, <1>3, <1>4, Zenon DEF StateInv, Typed, HistTyped, e
<1>10. DiskTyped' /\ ChainTyped' /\ MinersTyped' /\ PageTyped' /\ HistTyped'
  BY <1>1, <1>9, Zenon DEF StateInv, Typed, DiskTyped, ChainTyped, MinersTyped, PageTyped, HistTyped, Counted
<1>11. Shape'
  BY <1>1, <1>6, <1>7 DEF Shape, Tracking
<1>12. \A i \in DOMAIN queue' : queue'[i].block \in known'
  <2>1. DOMAIN queue' = 1..(Len(queue) - 1)
    BY <1>1, <1>3, ListBasics
  <2>2. ASSUME NEW i \in 1..(Len(queue) - 1)
        PROVE  queue'[i].block \in known'
    <3>1. i + 1 \in DOMAIN queue /\ queue'[i] = queue[i + 1]
      BY <1>1, <1>2, <1>3
    <3> QED
      BY <3>1, <1>1 DEF StateInv, Held
  <2> QED
    BY <2>1, <2>2
<1>13. Held'
  BY <1>1, <1>5, <1>6, <1>7, <1>12 DEF StateInv, Held, Live
<1> QED
  BY <1>8, <1>10, <1>11, <1>13 DEF StateInv, Typed

\* The steps that give up blocks change nothing that the state is made of but
\* the plan and the queue.
LEMMA StateSyncGivesUp ==
  ASSUME StateInv, SyncGivesUp
  PROVE  StateInv'
<1>1. /\ phase = "sync" /\ job = NoJob /\ phase' = "keepup" /\ plan' = <<>>
      /\ UNCHANGED <<rows, flagged, metrics, stored>> /\ UNCHANGED <<known, fetched, top, pending>>
      /\ UNCHANGED <<queue, job>> /\ UNCHANGED <<config, counted, recent, counts, newest>>
      /\ UNCHANGED <<page, stops, applied, raced, mixed>>
  BY DEF SyncGivesUp, diskVars, chainVars, minerVars, histVars
<1>2. plan' \in Seq(Blocks) /\ ToSet(plan') = {}
  BY <1>1, EmptyBasics
<1>3. Typed'
  BY <1>1, <1>2, Zenon DEF StateInv, Typed, DiskTyped, ChainTyped, WorkTyped, MinersTyped, PageTyped,
                           HistTyped, Counted
<1>4. Shape' /\ Held'
  BY <1>1, <1>2, NoJobFacts DEF StateInv, Shape, Tracking, Held, Live
<1> QED
  BY <1>3, <1>4 DEF StateInv

LEMMA StateDropBlock ==
  ASSUME StateInv, DropBlock
  PROVE  StateInv'
<1>1. /\ phase = "keepup" /\ queue # <<>> /\ queue' = Tail(queue)
      /\ UNCHANGED <<rows, flagged, metrics, stored>> /\ UNCHANGED <<phase, known, fetched, top, pending>>
      /\ UNCHANGED <<plan, job>> /\ UNCHANGED <<config, counted, recent, counts, newest>>
      /\ UNCHANGED <<page, stops, applied, raced, mixed>>
  BY DEF DropBlock, diskVars, chainVars, minerVars, histVars
<1>2. queue \in Seq(Entry) /\ DOMAIN queue = 1..Len(queue)
  BY ListBasics DEF StateInv, Typed, WorkTyped
<1>3. /\ Tail(queue) \in Seq(Entry) /\ Len(Tail(queue)) = Len(queue) - 1 /\ Len(queue) \in Nat
      /\ \A i \in 1..(Len(queue) - 1) : Tail(queue)[i] = queue[i + 1]
  BY <1>1, <1>2, TailBasics
<1>4. \A i \in DOMAIN queue' : queue'[i].block \in known'
  <2>1. DOMAIN queue' = 1..(Len(queue) - 1)
    BY <1>1, <1>3, ListBasics
  <2>2. ASSUME NEW i \in 1..(Len(queue) - 1)
        PROVE  queue'[i].block \in known'
    <3>1. i + 1 \in DOMAIN queue /\ queue'[i] = queue[i + 1]
      BY <1>1, <1>2, <1>3
    <3> QED
      BY <3>1, <1>1 DEF StateInv, Held
  <2> QED
    BY <2>1, <2>2
<1>5. Typed'
  BY <1>1, <1>3, Zenon DEF StateInv, Typed, DiskTyped, ChainTyped, WorkTyped, MinersTyped, PageTyped,
                           HistTyped, Counted
<1>6. Shape' /\ Held'
  BY <1>1, <1>4 DEF StateInv, Shape, Tracking, Held, Live
<1> QED
  BY <1>5, <1>6 DEF StateInv

\* The end of a task that wrote its table or failed to.
LEMMA StateEndTask ==
  ASSUME StateInv, NEW t \in Tables, EndTask(t), stored' \subseteq Blocks \X Tables,
         UNCHANGED <<rows, flagged, metrics>>, UNCHANGED <<phase, known, fetched, top, pending>>,
         UNCHANGED <<plan, queue>>, UNCHANGED <<config, counted, recent, counts, newest>>,
         UNCHANGED <<page, stops, applied, raced, mixed>>
  PROVE  StateInv'
<1>1. /\ job' \in Jobs /\ job.stage = "write" /\ job'.stage = "write" /\ job'.blocks = job.blocks
  BY NextEnded DEF StateInv, Typed, WorkTyped
<1>2. DiskTyped'
  BY DEF StateInv, Typed, DiskTyped
<1>3. ChainTyped' /\ WorkTyped' /\ MinersTyped' /\ PageTyped' /\ HistTyped'
  BY <1>1, Zenon DEF StateInv, Typed, ChainTyped, WorkTyped, MinersTyped, PageTyped, HistTyped, Counted
<1>4. Tracking /\ job.blocks # <<>>
  BY <1>1 DEF StateInv, Shape
<1>5. Shape' /\ Held'
  BY <1>1, <1>4 DEF StateInv, Shape, Tracking, Held, Live
<1> QED
  BY <1>2, <1>3, <1>5 DEF StateInv, Typed

LEMMA StateWrite ==
  ASSUME StateInv, NEW t \in Tables, Write(t) \/ WriteFails(t)
  PROVE  StateInv'
<1>1. /\ EndTask(t) /\ UNCHANGED <<rows, flagged, metrics>>
      /\ stored' = stored \cup ((ToSet(job.blocks) \ unreadable) \X {t}) \/ stored' = stored
      /\ UNCHANGED <<phase, known, fetched, top, pending>>
      /\ UNCHANGED <<plan, queue>> /\ UNCHANGED <<config, counted, recent, counts, newest>>
      /\ UNCHANGED <<page, stops, applied, raced, mixed>>
  BY DEF Write, WriteFails, diskVars, chainVars, minerVars, histVars
<1>2. ToSet(job.blocks) \subseteq Blocks
  BY DEF StateInv, Held, Typed, ChainTyped
<1>3. stored' \subseteq Blocks \X Tables
  BY <1>1, <1>2 DEF StateInv, Typed, DiskTyped
<1> QED
  BY <1>1, <1>3, StateEndTask

LEMMA StateStoreFlags ==
  ASSUME StateInv, StoreFlags
  PROVE  StateInv'
<1>1. /\ job.stage = "write"
      /\ flagged' = flagged \cup (ToSet(job.blocks) \cap rows)
      /\ metrics' = metrics \cup ToSet(job.blocks)
      /\ job' = [job EXCEPT !.stage = IF phase = "sync" THEN "count" ELSE "mark"]
      /\ UNCHANGED <<rows, stored>> /\ UNCHANGED <<phase, known, fetched, top, pending>>
      /\ UNCHANGED <<plan, queue>> /\ UNCHANGED <<config, counted, recent, counts, newest>>
      /\ UNCHANGED <<page, stops, applied, raced, mixed>>
  BY DEF StoreFlags, chainVars, minerVars, histVars
<1>2. ToSet(job.blocks) \subseteq Blocks
  BY DEF StateInv, Held, Typed, ChainTyped
<1>3. job' \in Jobs /\ job'.stage # "idle" /\ job'.blocks = job.blocks
  <2> DEFINE s == IF phase = "sync" THEN "count" ELSE "mark"
  <2>1. s \in Stages /\ s # "idle"
    BY DEF Stages
  <2>2. job \in Jobs /\ job' = [job EXCEPT !.stage = s]
    BY <1>1 DEF StateInv, Typed, WorkTyped
  <2> HIDE DEF s
  <2>3. job' \in Jobs /\ job'.stage = s /\ job'.blocks = job.blocks
    BY <2>1, <2>2, NextStage
  <2> QED
    BY <2>1, <2>3
<1>4. DiskTyped'
  BY <1>1, <1>2 DEF StateInv, Typed, DiskTyped
<1>5. ChainTyped' /\ WorkTyped' /\ MinersTyped' /\ PageTyped' /\ HistTyped'
  BY <1>1, <1>3, Zenon DEF StateInv, Typed, ChainTyped, WorkTyped, MinersTyped, PageTyped, HistTyped, Counted
<1>6. Tracking /\ job.blocks # <<>>
  BY <1>1 DEF StateInv, Shape
<1>7. Shape' /\ Held'
  BY <1>1, <1>3, <1>6 DEF StateInv, Shape, Tracking, Held, Live
<1> QED
  BY <1>4, <1>5, <1>7 DEF StateInv, Typed

\* The newest block of a job is one of its blocks.
LEMMA LastOfJob ==
  ASSUME StateInv, job.stage # "idle"
  PROVE  /\ job.blocks \in Seq(Blocks) /\ job.blocks # <<>> /\ Tracking
         /\ Last(job.blocks) \in Blocks /\ Last(job.blocks) \in ToSet(job.blocks)
         /\ PathTo[Last(job.blocks)] \in Seq(Blocks)
<1>1. job.blocks \in Seq(Blocks) /\ job.blocks # <<>> /\ Tracking
  BY DEF StateInv, Typed, WorkTyped, Shape, Jobs
<1> DEFINE s == job.blocks
<1> HIDE DEF s
<1>2. s \in Seq(Blocks) /\ s # <<>>
  BY <1>1 DEF s
<1>3. Len(s) \in Nat /\ Len(s) # 0 /\ \A i \in 1..Len(s) : s[i] \in Blocks /\ s[i] \in ToSet(s)
  BY <1>2, ListBasics, EmptySeq
<1>4. Last(s) \in Blocks /\ Last(s) \in ToSet(s)
  BY <1>3 DEF Last
<1> QED
  BY <1>1, <1>4, PathType DEF s

LEMMA StateMarkDownloaded ==
  ASSUME StateInv, MarkDownloaded
  PROVE  StateInv'
<1>1. /\ job.stage = "mark"
      /\ fetched' = fetched \cup ToSet(job.blocks)
      /\ job' = [job EXCEPT !.stage = IF phase = "sync" THEN "page" ELSE "count"]
      /\ applied' = IF phase = "sync" THEN PathTo[Last(job.blocks)] ELSE applied
      /\ UNCHANGED <<rows, flagged, metrics, stored>> /\ UNCHANGED <<phase, known, top, pending>>
      /\ UNCHANGED <<plan, queue>> /\ UNCHANGED <<config, counted, recent, counts, newest>>
      /\ UNCHANGED <<page, stops, raced, mixed>>
  BY DEF MarkDownloaded, diskVars, minerVars
<1>2. /\ job.blocks # <<>> /\ Tracking /\ PathTo[Last(job.blocks)] \in Seq(Blocks)
  BY <1>1, LastOfJob
<1>3. job' \in Jobs /\ job'.stage # "idle" /\ job'.blocks = job.blocks
  <2> DEFINE s == IF phase = "sync" THEN "page" ELSE "count"
  <2>1. s \in Stages /\ s # "idle"
    BY DEF Stages
  <2>2. job \in Jobs /\ job' = [job EXCEPT !.stage = s]
    BY <1>1 DEF StateInv, Typed, WorkTyped
  <2> HIDE DEF s
  <2>3. job' \in Jobs /\ job'.stage = s /\ job'.blocks = job.blocks
    BY <2>1, <2>2, NextStage
  <2> QED
    BY <2>1, <2>3
<1>4. ChainTyped'
  BY <1>1 DEF StateInv, Typed, ChainTyped, Held
<1>5. applied' \in Seq(Blocks)
  BY <1>1, <1>2 DEF StateInv, Typed, HistTyped
<1>6. DiskTyped' /\ WorkTyped' /\ MinersTyped' /\ PageTyped' /\ HistTyped'
  BY <1>1, <1>3, <1>5, Zenon DEF StateInv, Typed, DiskTyped, WorkTyped, MinersTyped, PageTyped, HistTyped, Counted
<1>7. Shape' /\ Held'
  BY <1>1, <1>2, <1>3 DEF StateInv, Shape, Tracking, Held, Live
<1> QED
  BY <1>4, <1>6, <1>7 DEF StateInv, Typed

LEMMA StateCount ==
  ASSUME StateInv, Count
  PROVE  StateInv'
<1>1. /\ job.stage = "count"
      /\ \/ /\ Recalculate(config, SyncedUpTo(Last(job.blocks))) /\ raced' = FALSE /\ mixed' = FALSE
         \/ Extend(job.blocks) /\ UNCHANGED <<raced, mixed>>
      /\ job' = [job EXCEPT !.stage = IF phase = "sync" THEN "mark" ELSE "page"]
      /\ applied' = IF phase = "sync" THEN applied ELSE PathTo[Last(job.blocks)]
      /\ UNCHANGED <<rows, flagged, metrics, stored>> /\ UNCHANGED <<phase, known, fetched, top, pending>>
      /\ UNCHANGED <<plan, queue>> /\ UNCHANGED <<page, stops>>
  BY DEF Count, diskVars, chainVars
<1>2. /\ job.blocks \in Seq(Blocks) /\ job.blocks # <<>> /\ Tracking
      /\ Last(job.blocks) \in Blocks /\ PathTo[Last(job.blocks)] \in Seq(Blocks)
  BY <1>1, LastOfJob
<1>3. job' \in Jobs /\ job'.stage # "idle" /\ job'.blocks = job.blocks
  <2> DEFINE s == IF phase = "sync" THEN "mark" ELSE "page"
  <2>1. s \in Stages /\ s # "idle"
    BY DEF Stages
  <2>2. job \in Jobs /\ job' = [job EXCEPT !.stage = s]
    BY <1>1 DEF StateInv, Typed, WorkTyped
  <2> HIDE DEF s
  <2>3. job' \in Jobs /\ job'.stage = s /\ job'.blocks = job.blocks
    BY <2>1, <2>2, NextStage
  <2> QED
    BY <2>1, <2>3
<1>4. MinersTyped
  BY DEF StateInv, Typed
<1>5. MinersTyped'
  <2>1. CASE Recalculate(config, SyncedUpTo(Last(job.blocks)))
    <3> DEFINE s == SyncedUpTo(Last(job.blocks))
               r == config
    <3>1. s \in Seq(Blocks) /\ Recalculate(r, s)
      BY <1>2, <2>1, SyncedType
    <3>2. r \in Configs /\ newest \in Seq(Entries)
      BY <1>4 DEF MinersTyped
    <3> HIDE DEF s, r
    <3>3. /\ config' = r /\ counted' \in Seq(Entries) /\ recent' \in Seq(Entries)
          /\ counts' = Counted(recent') /\ newest' \in Seq(Entries)
      BY <3>1, <3>2, Recalculated
    <3> QED
      BY <3>2, <3>3 DEF MinersTyped, Counted
  <2>2. CASE Extend(job.blocks)
    <3>1. /\ config' = config /\ counted' \in Seq(Entries) /\ recent' \in Seq(Entries)
          /\ counts' = Counted(recent') /\ newest' \in Seq(Entries)
      BY <1>2, <1>4, <2>2, Extended DEF MinersTyped
    <3> QED
      BY <3>1, <1>4 DEF MinersTyped, Counted
  <2> QED
    BY <1>1, <2>1, <2>2
<1>6. applied' \in Seq(Blocks) /\ raced' \in BOOLEAN /\ mixed' \in BOOLEAN
  <2>1. applied' \in Seq(Blocks)
    BY <1>1, <1>2 DEF StateInv, Typed, HistTyped
  <2>2. raced' \in BOOLEAN /\ mixed' \in BOOLEAN
    BY <1>1, Zenon DEF StateInv, Typed, HistTyped
  <2> QED
    BY <2>1, <2>2
<1>7. DiskTyped' /\ ChainTyped' /\ WorkTyped' /\ PageTyped' /\ HistTyped'
  BY <1>1, <1>3, <1>6, Zenon DEF StateInv, Typed, DiskTyped, ChainTyped, WorkTyped, PageTyped, HistTyped
<1>8. Shape'
  BY <1>1, <1>2, <1>3 DEF Shape, Tracking
<1>9. Held'
  BY <1>1, <1>3 DEF StateInv, Held, Live
<1> QED
  BY <1>5, <1>7, <1>8, <1>9 DEF StateInv, Typed

-----------------------------------------------------------------------------
(* What the front page shows after each of its two updates.                 *)

LEMMA StatsForType ==
  ASSUME NEW nf \in Seq(Blocks), NEW cache \in Seq(Blocks)
  PROVE  StatsFor(nf, cache) \in Seq(Blocks)
<1> DEFINE n == Len(nf)
           f == StatsFor(nf, cache)
<1>1. n \in Nat /\ DOMAIN nf = 1..n /\ \A i \in 1..n : nf[i] \in Blocks
  BY ListBasics
<1>2. Len(cache) \in Nat /\ \A i \in 1..Len(cache) : cache[i] \in Blocks
  BY ListBasics
<1> HIDE DEF n
<1>3. f = [i \in 1..n |-> IF i <= Len(cache) THEN cache[i] ELSE nf[i]]
  BY <1>1 DEF StatsFor
<1>4. \A i \in 1..n : (IF i <= Len(cache) THEN cache[i] ELSE nf[i]) \in Blocks
  BY <1>1, <1>2
<1>5. f \in [1..n -> Blocks]
  BY <1>3, <1>4
<1> HIDE DEF f
<1>6. f \in Seq(Blocks)
  BY <1>1, <1>5, FunctionIsList
<1> QED
  BY <1>6 DEF f

LEMMA GatheredFacts ==
  ASSUME NEW nf \in Seq(Blocks)
  PROVE  /\ Gathered(nf).blocks = FirstN(nf, PAGE)
         /\ Gathered(nf).txs = FirstN(TxsOf(nf), PAGE)
         /\ FirstN(nf, PAGE) \in Seq(Blocks)
         /\ FirstN(TxsOf(nf), PAGE) \in Seq(Blocks \X Nat)
         /\ PAGE - Len(FirstN(nf, PAGE)) \in Nat
         /\ PAGE - Len(FirstN(TxsOf(nf), PAGE)) \in Nat
<1> DEFINE t == TxsOf(nf)
           V == Blocks \X Nat
<1>1. PAGE \in Nat
  BY ExplorerAssumption
<1>2. t \in Seq(V)
  BY TxsOfType
<1>3. Gathered(nf).blocks = FirstN(nf, PAGE) /\ Gathered(nf).txs = FirstN(t, PAGE)
  BY DEF Gathered
<1> HIDE DEF t, V
<1>4. /\ FirstN(nf, PAGE) \in Seq(Blocks)
      /\ Len(FirstN(nf, PAGE)) = IF PAGE < Len(nf) THEN PAGE ELSE Len(nf)
  BY <1>1, FirstNBasics
<1>5. /\ FirstN(t, PAGE) \in Seq(V)
      /\ Len(FirstN(t, PAGE)) = IF PAGE < Len(t) THEN PAGE ELSE Len(t)
  BY <1>1, <1>2, FirstNBasics
<1>6. Len(nf) \in Nat /\ Len(t) \in Nat
  BY <1>2, ListBasics
<1>7. PAGE - Len(FirstN(nf, PAGE)) \in Nat /\ PAGE - Len(FirstN(t, PAGE)) \in Nat
  BY <1>1, <1>4, <1>5, <1>6
<1> QED
  BY <1>3, <1>4, <1>5, <1>7 DEF t, V

LEMMA Generated ==
  ASSUME NEW nf \in Seq(Blocks), Generate(nf)
  PROVE  /\ page'.blocks = FirstN(nf, PAGE)
         /\ page'.txs = FirstN(TxsOf(nf), PAGE)
         /\ PageTyped'
<1> DEFINE s == StatsFor(nf, <<>>)
           b == FirstN(nf, PAGE)
           t == FirstN(TxsOf(nf), PAGE)
<1>1. s \in Seq(Blocks)
  BY StatsForType, EmptyBasics
<1>2. b \in Seq(Blocks) /\ t \in Seq(Blocks \X Nat) /\ Gathered(nf).blocks = b /\ Gathered(nf).txs = t
  BY GatheredFacts
<1>3. page' = [blocks |-> b, txs |-> t, stats |-> s]
  BY <1>2 DEF Generate
<1> HIDE DEF s, b, t
<1>4. page'.blocks = b /\ page'.txs = t /\ page'.stats = s
  BY <1>3
<1> QED
  BY <1>1, <1>2, <1>4 DEF PageTyped, b, t

LEMMA Updated ==
  ASSUME NEW batch \in Seq(Blocks), NEW nf \in Seq(Blocks), PageTyped, Update(batch, nf)
  PROVE  /\ page'.blocks = FirstN(Reverse(batch), PAGE)
                             \o FirstN(page.blocks, PAGE - Len(FirstN(Reverse(batch), PAGE)))
         /\ page'.txs = FirstN(TxsOf(Reverse(batch)), PAGE)
                          \o FirstN(page.txs, PAGE - Len(FirstN(TxsOf(Reverse(batch)), PAGE)))
         /\ PageTyped'
<1> DEFINE r == Reverse(batch)
<1>1. r \in Seq(Blocks)
  BY ReverseBasics
<1> HIDE DEF r
<1> DEFINE b == FirstN(r, PAGE)
           t == FirstN(TxsOf(r), PAGE)
           s == StatsFor(nf, batch)
           V == Blocks \X Nat
           kb == FirstN(page.blocks, PAGE - Len(b))
           kt == FirstN(page.txs, PAGE - Len(t))
<1>2. /\ b \in Seq(Blocks) /\ t \in Seq(V) /\ Gathered(r).blocks = b /\ Gathered(r).txs = t
      /\ PAGE - Len(b) \in Nat /\ PAGE - Len(t) \in Nat
  BY <1>1, GatheredFacts
<1>3. s \in Seq(Blocks)
  BY StatsForType
<1>4. page' = [blocks |-> b \o kb, txs |-> t \o kt, stats |-> s]
  BY <1>2 DEF Update, KeptFromOld, r
<1> HIDE DEF b, t, s, V
<1>5. kb \in Seq(Blocks)
  BY <1>2, FirstNBasics DEF PageTyped
<1>6. kt \in Seq(V)
  <2>1. page.txs \in Seq(V)
    BY DEF PageTyped, V
  <2> QED
    BY <2>1, <1>2, FirstNBasics
<1>7. page'.blocks = b \o kb /\ page'.txs = t \o kt /\ page'.stats = s
  BY <1>4
<1>8. b \o kb \in Seq(Blocks) /\ t \o kt \in Seq(V)
  <2> HIDE DEF kb, kt
  <2> QED
    BY <1>2, <1>5, <1>6, ConcatBasics
<1> QED
  BY <1>3, <1>7, <1>8 DEF PageTyped, V, b, t, r

\* The two outcomes of ShowPage.
LEMMA ShowPageCases ==
  ASSUME ShowPage
  PROVE  LET nf == Reverse(PathTo[Last(job.blocks)]) IN
         /\ job.stage = "page" /\ job' = NoJob
         /\ \/ /\ phase' = "dead" /\ UNCHANGED page
               /\ \/ job.reorg /\ GeneratePanics(nf)
                  \/ ~job.reorg /\ UpdatePanics(job.blocks, nf)
            \/ /\ UNCHANGED phase
               /\ \/ job.reorg /\ Generate(nf)
                  \/ ~job.reorg /\ Update(job.blocks, nf)
         /\ UNCHANGED <<rows, flagged, metrics, stored>> /\ UNCHANGED <<known, fetched, top, pending>>
         /\ UNCHANGED <<plan, queue>> /\ UNCHANGED <<config, counted, recent, counts, newest>>
         /\ UNCHANGED <<stops, applied, raced, mixed>>
<1> DEFINE nf == Reverse(PathTo[Last(job.blocks)])
           gp == GeneratePanics(nf)
           up == UpdatePanics(job.blocks, nf)
           ge == Generate(nf)
           ud == Update(job.blocks, nf)
<1>1. /\ job.stage = "page" /\ job' = NoJob
      /\ IF (IF job.reorg THEN gp ELSE up)
         THEN phase' = "dead" /\ UNCHANGED page
         ELSE (IF job.reorg THEN ge ELSE ud) /\ UNCHANGED phase
      /\ UNCHANGED <<diskVars, chainVars, plan, queue, minerVars, stops, histVars>>
  BY DEF ShowPage
<1> HIDE DEF gp, up, ge, ud, nf
<1>2. /\ UNCHANGED <<rows, flagged, metrics, stored>> /\ UNCHANGED <<known, fetched, top, pending>>
      /\ UNCHANGED <<plan, queue>> /\ UNCHANGED <<config, counted, recent, counts, newest>>
      /\ UNCHANGED <<stops, applied, raced, mixed>>
  BY <1>1 DEF diskVars, chainVars, minerVars, histVars
<1>3. \/ /\ phase' = "dead" /\ UNCHANGED page
         /\ \/ job.reorg /\ gp
            \/ ~job.reorg /\ up
      \/ /\ UNCHANGED phase
         /\ \/ job.reorg /\ ge
            \/ ~job.reorg /\ ud
  BY <1>1
<1> QED
  BY <1>1, <1>2, <1>3, Zenon DEF nf, gp, up, ge, ud

LEMMA StateShowPage ==
  ASSUME StateInv, ShowPage
  PROVE  StateInv'
<1> DEFINE nf == Reverse(PathTo[Last(job.blocks)])
<1>1. /\ job.stage = "page" /\ job' = NoJob
      /\ \/ /\ phase' = "dead" /\ UNCHANGED page
         \/ /\ UNCHANGED phase
            /\ \/ Generate(nf)
               \/ Update(job.blocks, nf)
      /\ UNCHANGED <<rows, flagged, metrics, stored>> /\ UNCHANGED <<known, fetched, top, pending>>
      /\ UNCHANGED <<plan, queue>> /\ UNCHANGED <<config, counted, recent, counts, newest>>
      /\ UNCHANGED <<stops, applied, raced, mixed>>
  BY ShowPageCases
<1>2. Tracking /\ job.blocks \in Seq(Blocks) /\ PathTo[Last(job.blocks)] \in Seq(Blocks)
  BY <1>1, LastOfJob
<1>3. nf \in Seq(Blocks)
  BY <1>2, ReverseBasics
<1> HIDE DEF nf
<1>4. PageTyped
  BY DEF StateInv, Typed
<1>5. PageTyped'
  <2>1. CASE UNCHANGED page
    BY <2>1, <1>4 DEF PageTyped
  <2>2. CASE Generate(nf)
    BY <2>2, <1>3, Generated
  <2>3. CASE Update(job.blocks, nf)
    BY <2>3, <1>2, <1>3, <1>4, Updated
  <2> QED
    BY <1>1, <2>1, <2>2, <2>3
<1>6. ChainTyped' /\ phase' \in {phase, "dead"}
  BY <1>1 DEF StateInv, Typed, ChainTyped
<1>7. DiskTyped' /\ WorkTyped' /\ MinersTyped' /\ HistTyped'
  BY <1>1, NoJobFacts, Zenon DEF StateInv, Typed, DiskTyped, WorkTyped, MinersTyped, HistTyped, Counted
<1>8. Shape'
  BY <1>1, <1>2, <1>6, NoJobFacts DEF Shape, Tracking
<1>9. Held'
  BY <1>1, <1>2, <1>6, NoJobFacts, EmptyBasics DEF StateInv, Held, Live, Tracking
<1> QED
  BY <1>5, <1>6, <1>7, <1>8, <1>9 DEF StateInv, Typed

LEMMA StateStart ==
  ASSUME StateInv, Start
  PROVE  StateInv'
<1> DEFINE t == MostWork(Loaded)
           s == Filtered(PathTo[t], LoadedFetched)
<1>1. /\ phase = "down" /\ phase' = "start" /\ known' = Loaded /\ fetched' = LoadedFetched
      /\ top' = t /\ pending' = {Genesis} \ rows /\ applied' = s
      /\ Recalculate(config, applied') /\ raced' = FALSE /\ mixed' = FALSE
      /\ UNCHANGED <<rows, flagged, metrics, stored>>
      /\ UNCHANGED <<plan, queue, job>> /\ UNCHANGED <<page, stops>>
  BY DEF Start, diskVars
<1>2. Recalculate(config, s)
  BY <1>1
<1>3. rows \subseteq Blocks /\ config \in Configs /\ newest \in Seq(Entries)
  BY DEF StateInv, Typed, DiskTyped, MinersTyped
<1>4. /\ Loaded \subseteq Blocks /\ Genesis \in Loaded /\ Closed(Loaded)
      /\ LoadedFetched \subseteq Loaded
  BY <1>3, LoadedClosed
<1>5. t \in Loaded
  BY <1>4, MostWorkIn
<1> HIDE DEF t
<1>6. s \in Seq(Blocks)
  <2> DEFINE p == PathTo[t]
  <2>1. p \in Seq(Blocks)
    BY <1>4, <1>5, PathType
  <2> HIDE DEF p
  <2>2. Filtered(p, LoadedFetched) \in Seq(Blocks)
    BY <2>1, FilteredType
  <2> QED
    BY <2>2 DEF p
<1> HIDE DEF s
<1>7. /\ config' = config /\ counted' \in Seq(Entries) /\ recent' \in Seq(Entries)
      /\ counts' = Counted(recent') /\ newest' \in Seq(Entries)
  BY <1>2, <1>3, <1>6, Recalculated
<1>8. MinersTyped'
  BY <1>3, <1>7 DEF MinersTyped, Counted
<1>9. ChainTyped'
  BY <1>1, <1>4, <1>5 DEF ChainTyped
<1>10. DiskTyped' /\ WorkTyped' /\ PageTyped' /\ HistTyped'
  BY <1>1, <1>6, Zenon DEF StateInv, Typed, DiskTyped, WorkTyped, PageTyped, HistTyped
<1>11. plan = <<>> /\ queue = <<>> /\ job = NoJob /\ page = NoPage
  BY <1>1 DEF StateInv, Shape
<1>12. Shape'
  BY <1>1, <1>11, NoJobFacts DEF Shape
<1>13. Held'
  BY <1>1, <1>4, <1>5, <1>11, NoJobFacts, EmptyBasics DEF Held
<1> QED
  BY <1>8, <1>9, <1>10, <1>12, <1>13 DEF StateInv, Typed

LEMMA StartSyncCases ==
  ASSUME StartSync
  PROVE  /\ phase = "start" /\ applied' = Synced /\ raced' = (raced \/ Synced # applied)
         /\ \/ /\ Synced # <<>> /\ GeneratePanics(Reverse(Synced))
               /\ phase' = "dead" /\ UNCHANGED <<page, plan>>
            \/ /\ phase' = "sync" /\ plan' = Missing
               /\ \/ Synced = <<>> /\ UNCHANGED page
                  \/ Synced # <<>> /\ Generate(Reverse(Synced))
         /\ UNCHANGED <<rows, flagged, metrics, stored>> /\ UNCHANGED <<known, fetched, top, pending>>
         /\ UNCHANGED <<queue, job>> /\ UNCHANGED <<config, counted, recent, counts, newest>>
         /\ UNCHANGED <<stops, mixed>>
<1> DEFINE gp == GeneratePanics(Reverse(Synced))
           ge == Generate(Reverse(Synced))
<1>1. /\ phase = "start" /\ applied' = Synced /\ raced' = (raced \/ Synced # applied)
      /\ IF Synced # <<>> /\ gp
         THEN phase' = "dead" /\ UNCHANGED <<page, plan>>
         ELSE /\ phase' = "sync" /\ plan' = Missing
              /\ IF Synced = <<>> THEN UNCHANGED page ELSE ge
      /\ UNCHANGED <<diskVars, chainVars, queue, job, minerVars, stops, mixed>>
  BY DEF StartSync
<1> HIDE DEF gp, ge
<1>2. /\ UNCHANGED <<rows, flagged, metrics, stored>> /\ UNCHANGED <<known, fetched, top, pending>>
      /\ UNCHANGED <<queue, job>> /\ UNCHANGED <<config, counted, recent, counts, newest>>
      /\ UNCHANGED <<stops, mixed>>
  BY <1>1 DEF diskVars, chainVars, minerVars
<1>3. \/ /\ Synced # <<>> /\ gp /\ phase' = "dead" /\ UNCHANGED <<page, plan>>
      \/ /\ phase' = "sync" /\ plan' = Missing
         /\ \/ Synced = <<>> /\ UNCHANGED page
            \/ Synced # <<>> /\ ge
  BY <1>1
<1> QED
  BY <1>1, <1>2, <1>3, Zenon DEF gp, ge

LEMMA StateStartSync ==
  ASSUME StateInv, StartSync
  PROVE  StateInv'
<1>1. /\ phase = "start" /\ applied' = Synced /\ raced' = (raced \/ Synced # applied)
      /\ \/ phase' = "dead" /\ UNCHANGED <<page, plan>>
         \/ /\ phase' = "sync" /\ plan' = Missing
            /\ \/ UNCHANGED page
               \/ Generate(Reverse(Synced))
      /\ UNCHANGED <<rows, flagged, metrics, stored>> /\ UNCHANGED <<known, fetched, top, pending>>
      /\ UNCHANGED <<queue, job>> /\ UNCHANGED <<config, counted, recent, counts, newest>>
      /\ UNCHANGED <<stops, mixed>>
  BY StartSyncCases
<1>2. top \in Blocks /\ top \in known /\ Closed(known)
  BY <1>1 DEF StateInv, Typed, ChainTyped, Held, Live
<1>3. Synced \in Seq(Blocks)
  BY <1>2, SyncedType DEF Synced
<1>4. Missing \in Seq(Blocks) /\ ToSet(Missing) \subseteq known
  <2>1. ToSet(PathTo[top]) \subseteq known
    BY <1>2, ClosedHoldsPath
  <2>2. Missing \in Seq(Blocks) /\ ToSet(Missing) \subseteq ToSet(PathTo[top])
    BY <1>2, MissingType
  <2> QED
    BY <2>1, <2>2
<1>5. PageTyped'
  <2>1. PageTyped
    BY DEF StateInv, Typed
  <2>2. CASE UNCHANGED page
    BY <2>1, <2>2 DEF PageTyped
  <2>3. CASE Generate(Reverse(Synced))
    <3> DEFINE nf == Reverse(Synced)
    <3>1. nf \in Seq(Blocks) /\ Generate(nf)
      BY <1>3, <2>3, ReverseBasics
    <3> HIDE DEF nf
    <3> QED
      BY <3>1, Generated
  <2> QED
    BY <1>1, <2>2, <2>3
<1>6. raced' \in BOOLEAN
  BY <1>1
<1>7. WorkTyped' /\ ToSet(plan') \subseteq known
  BY <1>1, <1>4 DEF StateInv, Typed, WorkTyped, Held
<1>8. ChainTyped'
  BY <1>1 DEF StateInv, Typed, ChainTyped
<1>9. DiskTyped' /\ MinersTyped' /\ HistTyped'
  BY <1>1, <1>3, <1>6, Zenon DEF StateInv, Typed, DiskTyped, MinersTyped, HistTyped, Counted
<1>10. job = NoJob
  BY <1>1 DEF StateInv, Shape
<1>11. Shape'
  BY <1>1, <1>10, NoJobFacts DEF Shape
<1>12. Held'
  BY <1>1, <1>2, <1>7 DEF StateInv, Held, Live
<1> QED
  BY <1>5, <1>7, <1>8, <1>9, <1>11, <1>12 DEF StateInv, Typed

LEMMA StateStop ==
  ASSUME StateInv, Stop
  PROVE  StateInv'
<1>1. /\ stops < MaxStops /\ phase' = "down" /\ stops' = stops + 1
      /\ known' = {} /\ fetched' = {} /\ top' = Genesis /\ pending' = {}
      /\ plan' = <<>> /\ queue' = <<>> /\ job' = NoJob
      /\ config' \in Configs
      /\ counted' = <<>> /\ recent' = <<>> /\ newest' = <<>>
      /\ counts' = [m \in Miners \cup {Unknown} |-> 0]
      /\ page' = NoPage
      /\ applied' = <<>> /\ raced' = FALSE /\ mixed' = FALSE
      /\ UNCHANGED <<rows, flagged, metrics, stored>>
  BY DEF Stop, diskVars
<1>2. \A U : <<>> \in Seq(U)
  BY EmptyBasics
<1>3. ToSet(<<>>) = {} /\ DOMAIN <<>> = {}
  BY EmptyBasics
<1>4. Counted(<<>>) = [m \in Miners \cup {Unknown} |-> 0]
  BY CountOfEmpty DEF Counted
<1>5. DiskTyped'
  BY <1>1 DEF StateInv, Typed, DiskTyped
<1>6. ChainTyped'
  BY <1>1, TreeAssumption DEF ChainTyped
<1>7. WorkTyped'
  BY <1>1, <1>2, NoJobFacts DEF WorkTyped
<1>8. MinersTyped'
  <2>1. counts' = Counted(recent')
    BY <1>1, <1>4
  <2> QED
    BY <1>1, <1>2, <2>1 DEF MinersTyped, Counted
<1>9. PageTyped'
  BY <1>1, <1>2, NoPageFacts DEF PageTyped
<1>10. HistTyped'
  <2>1. stops' \in 0..MaxStops
    BY <1>1, ExplorerAssumption DEF StateInv, Typed, HistTyped
  <2> QED
    BY <1>1, <1>2, <2>1, Zenon DEF HistTyped
<1>11. Shape'
  BY <1>1, NoJobFacts DEF Shape
<1>12. Held'
  BY <1>1, <1>3, NoJobFacts DEF Held, Live, Closed
<1> QED
  BY <1>5, <1>6, <1>7, <1>8, <1>9, <1>10, <1>11, <1>12 DEF StateInv, Typed

LEMMA StateStep ==
  ASSUME StateInv, [Next]_vars
  PROVE  StateInv'
BY StateStutter, StateStart, StateStartSync, StateStop, StateFlushHeaders, StateLearnHeader,
   StateReload, StateStartBatch, StateSyncDone, StateStartApply, StateWrite, StateStoreFlags,
   StateSyncGivesUp, StateDropBlock,
   StateMarkDownloaded, StateCount, StateShowPage
   DEF Next

LEMMA StateAlways == Spec => []StateInv
<1>1. StateInv /\ [Next]_vars => StateInv'
  BY StateStep
<1> QED
  BY <1>1, StateAtFirst, PTL DEF Spec

LEMMA FailAtFirst == Init => FailTyped
<1> SUFFICES ASSUME Init
             PROVE  FailTyped
  OBVIOUS
<1>1. unreadable \in Unreadable /\ events = Cardinality(unreadable) /\ torn = {} /\ gap = FALSE
  BY DEF Init
<1>2. IsFiniteSet(unreadable) /\ Cardinality(unreadable) <= MaxEvents /\ MaxEvents \in Nat
  BY <1>1, ExplorerAssumption
<1>3. Cardinality(unreadable) \in Nat
  BY <1>2, FS_CardinalityType
<1>4. events \in 0..MaxEvents
  BY <1>1, <1>2, <1>3
<1>5. gap \in BOOLEAN /\ torn \subseteq Blocks \X Tables
  BY <1>1
<1> QED
  BY <1>1, <1>4, <1>5 DEF FailTyped

LEMMA FailStep ==
  ASSUME StateInv, FailTyped, [Next]_vars
  PROVE  FailTyped'
<1>1. MaxEvents \in Nat
  BY ExplorerAssumption
<1>2. CASE UNCHANGED <<unreadable, torn, gap, events>>
  BY <1>2 DEF FailTyped
<1>3. ASSUME NEW t \in Tables, Write(t)
      PROVE  FailTyped'
  <2>1. torn' \subseteq torn /\ UNCHANGED <<unreadable, gap, events>>
    BY <1>3 DEF Write
  <2> QED
    BY <2>1 DEF FailTyped
<1>4. ASSUME NEW t \in Tables, WriteFails(t)
      PROVE  FailTyped'
  <2>1. /\ torn' = torn \cup (ToSet(job.blocks) \X {t} \ stored) /\ UNCHANGED <<unreadable, gap>>
        /\ events < MaxEvents /\ events' = events + 1
    BY <1>4 DEF WriteFails, diskVars
  <2>2. ToSet(job.blocks) \subseteq Blocks
    BY DEF StateInv, Held, Typed, ChainTyped
  <2>3. torn' \subseteq Blocks \X Tables
    BY <2>1, <2>2 DEF FailTyped
  <2> QED
    BY <1>1, <2>1, <2>3 DEF FailTyped
<1>5. ASSUME SyncGivesUp \/ \E r \in Configs : Reload(r)
      PROVE  FailTyped'
  <2>1. /\ (gap' = gap \/ gap' = TRUE) /\ UNCHANGED <<unreadable, torn>>
        /\ events < MaxEvents /\ events' = events + 1
    BY <1>5 DEF SyncGivesUp, Reload, diskVars
  <2>2. events' \in 0..MaxEvents
    BY <1>1, <2>1 DEF FailTyped
  <2>3. gap' \in BOOLEAN
    BY <2>1, Zenon DEF FailTyped
  <2> QED
    BY <2>1, <2>2, <2>3, Zenon DEF FailTyped
<1>6. CASE DropBlock \/ Stop
  BY <1>6 DEF DropBlock, Stop, diskVars, FailTyped
<1>7. ASSUME \/ Start \/ StartSync \/ FlushHeaders \/ (\E h \in Blocks : LearnHeader(h))
             \/ StartBatch \/ SyncDone \/ StartApply \/ StoreFlags \/ MarkDownloaded
             \/ Count \/ ShowPage \/ UNCHANGED vars
      PROVE  UNCHANGED <<unreadable, torn, gap, events>>
  BY <1>7 DEF Start, StartSync, FlushHeaders, LearnHeader, StartBatch, SyncDone, StartApply,
              StoreFlags, MarkDownloaded, Count, ShowPage, vars, diskVars, failVars
<1> QED
  BY <1>2, <1>3, <1>4, <1>5, <1>6, <1>7 DEF Next

\* Every variable of the explorer keeps its type, through every fork, reload,
\* failed write and crash, the counts of recent blocks never below zero among
\* them.
THEOREM ExplorerTypeCorrect == Spec => []TypeOK
<1>1. StateInv /\ FailTyped => TypeOK
  BY TypedIsTypeOK DEF StateInv
<1>2. StateInv /\ FailTyped /\ [Next]_vars => FailTyped'
  BY FailStep
<1> QED
  BY <1>1, <1>2, StateAlways, FailAtFirst, PTL DEF Spec

-----------------------------------------------------------------------------
(* The disk: the flag of a block never runs ahead of its data, but where a  *)
(* write failed or the block was left empty.                                *)

\* What was written, or should have been.
Accounted == stored \cup torn \cup (unreadable \X Tables)

\* The tables of a job whose tasks ended are accounted for.
DiskInv ==
  /\ FlaggedIsStored
  /\ job.stage = "write" => ToSet(job.blocks) \X job.ended \subseteq Accounted

LEMMA DiskAtFirst == Init => DiskInv
<1> SUFFICES ASSUME Init
             PROVE  DiskInv
  OBVIOUS
<1>1. flagged = {} /\ job.stage # "write"
  BY NoJobFacts DEF Init
<1> QED
  BY <1>1 DEF DiskInv, FlaggedIsStored

\* Nothing that is accounted for is lost.
LEMMA AccountedGrows ==
  ASSUME [Next]_vars
  PROVE  Accounted \subseteq Accounted'
<1>1. CASE UNCHANGED <<stored, torn, unreadable>>
  BY <1>1 DEF Accounted
<1>2. ASSUME NEW t \in Tables, Write(t)
      PROVE  Accounted \subseteq Accounted'
  <2> DEFINE pairs == (ToSet(job.blocks) \ unreadable) \X {t}
  <2>1. stored' = stored \cup pairs /\ torn' = torn \ pairs /\ UNCHANGED unreadable
    BY <1>2 DEF Write
  <2> HIDE DEF pairs
  <2> QED
    BY <2>1 DEF Accounted
<1>3. ASSUME NEW t \in Tables, WriteFails(t)
      PROVE  Accounted \subseteq Accounted'
  <2>1. torn \subseteq torn' /\ UNCHANGED <<stored, unreadable>>
    BY <1>3 DEF WriteFails, diskVars
  <2> QED
    BY <2>1 DEF Accounted
<1>4. ASSUME \/ Start \/ StartSync \/ Stop \/ FlushHeaders \/ (\E h \in Blocks : LearnHeader(h))
             \/ (\E r \in Configs : Reload(r)) \/ StartBatch \/ SyncDone \/ SyncGivesUp
             \/ StartApply \/ DropBlock \/ StoreFlags \/ MarkDownloaded
             \/ Count \/ ShowPage \/ UNCHANGED vars
      PROVE  UNCHANGED <<stored, torn, unreadable>>
  BY <1>4 DEF Start, StartSync, Stop, FlushHeaders, LearnHeader, Reload, StartBatch, SyncDone,
              SyncGivesUp, StartApply, DropBlock, StoreFlags, MarkDownloaded, Count, ShowPage,
              vars, diskVars, failVars
<1> QED
  BY <1>1, <1>2, <1>3, <1>4 DEF Next

\* When every task has ended, so is the whole job.
LEMMA WholeJobAccounted ==
  ASSUME DiskInv, StoreFlags
  PROVE  ToSet(job.blocks) \X Tables \subseteq Accounted
BY DEF DiskInv, StoreFlags, TasksEnded

LEMMA DiskStep ==
  ASSUME StateInv, DiskInv, [Next]_vars
  PROVE  DiskInv'
<1>1. Accounted \subseteq Accounted'
  BY AccountedGrows
<1>2. flagged \X Tables \subseteq Accounted /\ flagged \subseteq metrics
  BY DEF DiskInv, FlaggedIsStored, Accounted
<1>3. ASSUME flagged' \X Tables \subseteq Accounted, flagged' \subseteq metrics'
      PROVE  FlaggedIsStored'
  BY <1>1, <1>3 DEF FlaggedIsStored, Accounted
<1>4. ASSUME UNCHANGED <<flagged, metrics>>, UNCHANGED job \/ job'.stage # "write"
      PROVE  DiskInv'
  BY <1>1, <1>2, <1>3, <1>4 DEF DiskInv
<1>5. ASSUME NEW t \in Tables, Write(t) \/ WriteFails(t)
      PROVE  DiskInv'
  <2>1. EndTask(t) /\ UNCHANGED <<flagged, metrics, unreadable>>
    BY <1>5 DEF Write, WriteFails, diskVars
  <2>2. /\ job.stage = "write" /\ job'.blocks = job.blocks
        /\ job'.ended = job.ended \cup {t}
    BY <2>1, NextEnded DEF StateInv, Typed, WorkTyped
  <2>3. ToSet(job.blocks) \X {t} \subseteq Accounted'
    <3> DEFINE new == ToSet(job.blocks)
    <3>1. \/ stored' = stored \cup ((new \ unreadable) \X {t})
          \/ stored' = stored /\ torn' = torn \cup (new \X {t} \ stored)
      BY <1>5 DEF Write, WriteFails, diskVars
    <3> HIDE DEF new
    <3>2. new \X {t} \subseteq Accounted'
      BY <2>1, <3>1 DEF Accounted
    <3> QED
      BY <3>2 DEF new
  <2>4. ToSet(job.blocks) \X job.ended \subseteq Accounted
    BY <2>2 DEF DiskInv
  <2>5. ToSet(job'.blocks) \X job'.ended \subseteq Accounted'
    <3> DEFINE new == ToSet(job.blocks)
               e == job.ended
    <3>1. new \X e \subseteq Accounted /\ new \X {t} \subseteq Accounted'
      BY <2>3, <2>4
    <3>2. ToSet(job'.blocks) = new /\ job'.ended = e \cup {t}
      BY <2>2
    <3> HIDE DEF new, e
    <3> QED
      BY <1>1, <3>1, <3>2
  <2>6. FlaggedIsStored'
    BY <1>2, <1>3, <2>1
  <2> QED
    BY <2>5, <2>6 DEF DiskInv
<1>6. CASE StoreFlags
  <2> DEFINE new == ToSet(job.blocks)
             s == IF phase = "sync" THEN "count" ELSE "mark"
  <2>1. new \X Tables \subseteq Accounted
    BY <1>6, WholeJobAccounted
  <2>2. /\ flagged' \subseteq flagged \cup new /\ metrics' = metrics \cup new
        /\ job' = [job EXCEPT !.stage = s]
    BY <1>6 DEF StoreFlags
  <2>3. s \in Stages /\ s # "write" /\ job \in Jobs
    BY DEF Stages, StateInv, Typed, WorkTyped
  <2> HIDE DEF new, s
  <2>4. job'.stage # "write"
    BY <2>2, <2>3, NextStage
  <2>5. flagged' \X Tables \subseteq Accounted /\ flagged' \subseteq metrics'
    BY <1>2, <2>1, <2>2
  <2> QED
    BY <1>3, <2>4, <2>5 DEF DiskInv
<1>7. CASE StartBatch \/ StartApply
  <2>1. UNCHANGED <<flagged, metrics>> /\ job'.ended = {}
    BY <1>7 DEF StartBatch, StartApply, StartJob, diskVars
  <2>2. FlaggedIsStored'
    BY <1>2, <1>3, <2>1
  <2>3. ToSet(job'.blocks) \X job'.ended = {}
    BY <2>1
  <2> QED
    BY <2>2, <2>3 DEF DiskInv
<1>8. ASSUME MarkDownloaded \/ Count
      PROVE  job'.stage # "write"
  <2>1. PICK s \in Stages : s # "write" /\ job' = [job EXCEPT !.stage = s]
    BY <1>8 DEF MarkDownloaded, Count, Stages
  <2> QED
    BY <2>1, NextStage DEF StateInv, Typed, WorkTyped
<1>9. ASSUME Stop \/ ShowPage
      PROVE  job'.stage # "write"
  BY <1>9, NoJobFacts DEF Stop, ShowPage
<1>10. ASSUME \/ Start \/ StartSync \/ FlushHeaders \/ (\E h \in Blocks : LearnHeader(h))
              \/ (\E r \in Configs : Reload(r)) \/ SyncDone \/ SyncGivesUp \/ DropBlock
              \/ UNCHANGED vars
       PROVE  UNCHANGED <<flagged, metrics, job>>
  BY <1>10 DEF Start, StartSync, FlushHeaders, LearnHeader, Reload, SyncDone, SyncGivesUp,
               DropBlock, vars, diskVars
<1>11. ASSUME Stop \/ ShowPage \/ MarkDownloaded \/ Count
       PROVE  UNCHANGED <<flagged, metrics>>
  BY <1>11 DEF Stop, ShowPage, MarkDownloaded, Count, diskVars
<1> QED
  BY <1>4, <1>5, <1>6, <1>7, <1>8, <1>9, <1>10, <1>11 DEF Next

\* fetched_full in sqlite means that all tables of rocksdb have the block's data
\* and block_stats its metrics, after any sequence of batches, forks, reloads
\* and crashes, but for the table of a block whose own write failed and for a
\* block whose outputs could not be read (write_analyzed_txs, which looks at no
\* result of a write, and mark_blocks_as_downloaded).
THEOREM FlagsFollowData == Spec => []FlaggedIsStored
<1>1. StateInv /\ DiskInv /\ [Next]_vars => DiskInv'
  BY DiskStep
<1>2. DiskInv => FlaggedIsStored
  BY DEF DiskInv
<1> QED
  BY <1>1, <1>2, StateAlways, DiskAtFirst, PTL DEF Spec

-----------------------------------------------------------------------------
(* The second part: what is stored, fetched and applied are chains.         *)

\* Data and metrics of a block are accounted for before it counts as
\* downloaded.
StoredInv ==
  /\ DiskInv
  /\ fetched \subseteq metrics /\ fetched \X Tables \subseteq Accounted
  /\ job.stage \in {"count", "mark"} => /\ ToSet(job.blocks) \subseteq metrics
                                        /\ ToSet(job.blocks) \X Tables \subseteq Accounted

LEMMA StoredAtFirst == Init => StoredInv
<1> SUFFICES ASSUME Init
             PROVE  StoredInv
  OBVIOUS
<1>1. DiskInv
  BY DiskAtFirst
<1>2. fetched = {} /\ job.stage = "idle"
  BY NoJobFacts DEF Init
<1> QED
  BY <1>1, <1>2 DEF StoredInv

LEMMA StoredStep ==
  ASSUME StateInv, StoredInv, [Next]_vars
  PROVE  StoredInv'
<1>1. DiskInv' /\ Accounted \subseteq Accounted'
  BY DiskStep, AccountedGrows DEF StoredInv
<1>2. ASSUME UNCHANGED <<fetched, metrics, job>>
      PROVE  StoredInv'
  BY <1>1, <1>2 DEF StoredInv
<1>3. CASE UNCHANGED vars
  BY <1>2, <1>3 DEF vars, diskVars, chainVars
<1>4. CASE Start
  <2>1. fetched' = LoadedFetched /\ job' = job /\ phase = "down" /\ UNCHANGED diskVars
    BY <1>4 DEF Start
  <2>2. job.stage = "idle"
    BY <2>1, NoJobFacts DEF StateInv, Shape
  <2>3. LoadedFetched \subseteq flagged
    BY LoadedClosed DEF StateInv, Typed, DiskTyped
  <2>4. fetched' \subseteq flagged' /\ flagged' \subseteq metrics' /\ flagged' \X Tables \subseteq Accounted'
    BY <2>1, <2>3, <1>1 DEF diskVars, DiskInv, FlaggedIsStored, Accounted
  <2> QED
    BY <1>1, <2>1, <2>2, <2>4 DEF StoredInv
<1>5. CASE StartSync
  BY <1>5, <1>2, StartSyncCases
<1>6. CASE Stop
  BY <1>6, <1>1, NoJobFacts DEF Stop, StoredInv
<1>7. CASE FlushHeaders
  BY <1>7, <1>2 DEF FlushHeaders
<1>8. ASSUME NEW h \in Blocks, LearnHeader(h)
      PROVE  StoredInv'
  BY <1>8, <1>2 DEF LearnHeader, diskVars
<1>9. ASSUME NEW r \in Configs, Reload(r)
      PROVE  StoredInv'
  BY <1>9, <1>2 DEF Reload, diskVars, chainVars
<1>10. ASSUME job'.stage \in {"write", "idle", "page"}, UNCHANGED <<fetched, metrics>>
       PROVE  StoredInv'
  BY <1>1, <1>10 DEF StoredInv
<1>11. CASE StartBatch
  <2>1. UNCHANGED <<fetched, metrics>> /\ job'.stage = "write"
    BY <1>11 DEF StartBatch, StartJob, diskVars, chainVars
  <2> QED
    BY <2>1, <1>10
<1>12. CASE SyncDone
  BY <1>12, <1>2 DEF SyncDone, diskVars, chainVars
<1>13. CASE StartApply
  <2>1. UNCHANGED <<fetched, metrics>> /\ job'.stage = "write"
    BY <1>13 DEF StartApply, StartJob, diskVars, chainVars
  <2> QED
    BY <2>1, <1>10
<1>14. ASSUME NEW t \in Tables, Write(t) \/ WriteFails(t)
       PROVE  StoredInv'
  <2>1. EndTask(t) /\ UNCHANGED <<fetched, metrics>>
    BY <1>14 DEF Write, WriteFails, diskVars, chainVars
  <2>2. job'.stage = "write"
    BY <2>1, NextEnded DEF StateInv, Typed, WorkTyped
  <2> QED
    BY <2>1, <2>2, <1>10
<1>15. ASSUME job.stage # "idle", NEW s \in Stages, job' = [job EXCEPT !.stage = s]
       PROVE  job'.stage = s /\ job'.blocks = job.blocks
  BY <1>15, NextStage DEF StateInv, Typed, WorkTyped
<1>16. CASE StoreFlags
  <2> DEFINE new == ToSet(job.blocks)
             s == IF phase = "sync" THEN "count" ELSE "mark"
  <2>1. /\ UNCHANGED fetched
        /\ metrics' = metrics \cup new /\ job.stage # "idle" /\ job' = [job EXCEPT !.stage = s]
    BY <1>16 DEF StoreFlags, chainVars
  <2>2. new \X Tables \subseteq Accounted
    BY <1>16, WholeJobAccounted DEF StoredInv
  <2>3. s \in Stages
    BY DEF Stages
  <2>4. job'.blocks = job.blocks
    <3> HIDE DEF s
    <3> QED
      BY <2>1, <2>3, <1>15
  <2> QED
    BY <1>1, <2>1, <2>4, <2>2 DEF StoredInv
<1>17. CASE MarkDownloaded
  <2> DEFINE new == ToSet(job.blocks)
             s == IF phase = "sync" THEN "page" ELSE "count"
  <2>1. /\ fetched' = fetched \cup new /\ UNCHANGED metrics
        /\ job.stage = "mark" /\ job' = [job EXCEPT !.stage = s]
    BY <1>17 DEF MarkDownloaded, diskVars
  <2>2. s \in Stages
    BY DEF Stages
  <2>3. job'.blocks = job.blocks
    <3> HIDE DEF s
    <3> QED
      BY <2>1, <2>2, <1>15
  <2>4. new \subseteq metrics /\ new \X Tables \subseteq Accounted
    BY <2>1 DEF StoredInv
  <2>5. fetched' \subseteq metrics' /\ fetched' \X Tables \subseteq Accounted'
    <3>1. fetched \subseteq metrics /\ fetched \X Tables \subseteq Accounted
      BY DEF StoredInv
    <3> HIDE DEF new
    <3> QED
      BY <1>1, <2>1, <2>4, <3>1
  <2> QED
    BY <1>1, <2>1, <2>3, <2>4, <2>5 DEF StoredInv
<1>18. CASE Count
  <2> DEFINE s == IF phase = "sync" THEN "mark" ELSE "page"
  <2>1. /\ UNCHANGED <<fetched, metrics>>
        /\ job.stage = "count" /\ job' = [job EXCEPT !.stage = s]
    BY <1>18 DEF Count, diskVars, chainVars
  <2>2. s \in Stages
    BY DEF Stages
  <2>3. job'.blocks = job.blocks
    <3> HIDE DEF s
    <3> QED
      BY <2>1, <2>2, <1>15
  <2> QED
    BY <1>1, <2>1, <2>3 DEF StoredInv
<1>19. CASE SyncGivesUp \/ DropBlock
  BY <1>19, <1>2 DEF SyncGivesUp, DropBlock, diskVars, chainVars
<1>20. CASE ShowPage
  <2>1. UNCHANGED <<fetched, metrics>> /\ job'.stage = "idle"
    BY <1>20, ShowPageCases, NoJobFacts
  <2> QED
    BY <2>1, <1>10
<1> QED
  BY <1>3, <1>4, <1>5, <1>6, <1>7, <1>8, <1>9, <1>11, <1>12, <1>13, <1>14, <1>16, <1>17, <1>18, <1>20, <1>19
     DEF Next

\* The blocks of a job that are not yet part of the applied chain, with the
\* plan behind them; the block at their end.
Unapplied == IF job.stage \in {"write", "count", "mark"} THEN job.blocks ELSE <<>>
Ahead == Unapplied \o plan
Tip == IF Ahead # <<>> THEN Last(Ahead) ELSE Last(applied)

\* What is downloaded before the first block of the chain watcher's queue, and
\* the block that its i-th block is to follow.
Whole == fetched \cup ToSet(job.blocks) \cup ToSet(plan)
Before(i) == IF i = 1 THEN Tip ELSE queue[i - 1].block

JobInv ==
  /\ phase = "sync" => ~job.reorg
  /\ phase = "keepup" => plan = <<>>
  /\ phase = "keepup" /\ job.stage # "idle" => job.blocks = <<Last(job.blocks)>>
  /\ phase = "keepup" /\ job.stage = "count" => ToSet(job.blocks) \subseteq fetched
  /\ Unapplied # <<>> =>
       /\ ToSet(job.blocks) \subseteq ToSet(PathTo[Last(job.blocks)])
       /\ ToSet(PathTo[Last(job.blocks)]) \subseteq fetched \cup ToSet(job.blocks)
  /\ job.stage = "page" => /\ applied = PathTo[Last(job.blocks)]
                           /\ ToSet(job.blocks) \subseteq ToSet(applied)

AppliedInv ==
  /\ Tracking => ToSet(applied) \subseteq fetched /\ Tip \in Blocks
  /\ phase = "sync" => applied \o Ahead = PathTo[Tip]
  /\ phase = "keepup" => applied # <<>> /\ applied = PathTo[Last(applied)]
  /\ phase = "keepup" /\ Unapplied # <<>> /\ ~job.reorg =>
       /\ Last(job.blocks) # Genesis
       /\ Parent[Last(job.blocks)] \in ToSet(applied)
       /\ ~mixed => Parent[Last(job.blocks)] = Last(applied)

\* The path to a block of the queue is downloaded when its turn comes; a block
\* that does not make the page start over has its parent on the path to the
\* block before it, and follows that block unless it replaces a sibling.
Covered ==
  \A i \in 1..Len(queue) :
    ToSet(PathTo[queue[i].block]) \subseteq Whole \cup {queue[j].block : j \in 1..i}
Linked ==
  \A i \in 1..Len(queue) :
    ~queue[i].reorg =>
      /\ queue[i].block # Genesis
      /\ Parent[queue[i].block] \in ToSet(PathTo[Before(i)])
      /\ ~queue[i].sibling => Parent[queue[i].block] = Before(i)
AtTop == top = IF queue = <<>> THEN Tip ELSE queue[Len(queue)].block
QueueInv == Tracking => Covered /\ Linked /\ AtTop

FetchedInv ==
  /\ Closed(fetched)
  /\ phase \in {"down", "start", "sync"} => ~mixed

ChainInv == FetchedInv /\ JobInv /\ AppliedInv /\ QueueInv

LEMMA ChainAtFirst == Init => ChainInv
<1> SUFFICES ASSUME Init
             PROVE  ChainInv
  OBVIOUS
<1>1. phase = "down" /\ fetched = {} /\ job.stage = "idle" /\ ~mixed
  BY NoJobFacts DEF Init
<1>2. Unapplied = <<>> /\ ~Tracking
  BY <1>1 DEF Unapplied, Tracking
<1>3. FetchedInv /\ JobInv /\ AppliedInv /\ QueueInv
  BY <1>1, <1>2 DEF FetchedInv, Closed, JobInv, AppliedInv, QueueInv
<1> QED
  BY <1>3 DEF ChainInv

\* The queue only asks for the tip, and for what is downloaded by then.
LEMMA QueueFrame ==
  ASSUME QueueInv, Tracking' => Tracking /\ Tip' = Tip /\ top' = top /\ Whole \subseteq Whole',
         queue' = queue
  PROVE  QueueInv'
<1> SUFFICES ASSUME Tracking'
             PROVE  Covered' /\ Linked' /\ AtTop'
  BY DEF QueueInv
<1>1. Covered /\ Linked /\ AtTop
  BY DEF QueueInv
<1>2. Tip' = Tip /\ top' = top /\ Whole \subseteq Whole'
  OBVIOUS
<1>3. Covered'
  BY <1>1, <1>2 DEF Covered
<1>4. \A i : Before(i)' = Before(i)
  BY <1>2 DEF Before
<1>5. Linked'
  BY <1>1, <1>4 DEF Linked
<1>6. AtTop'
  BY <1>1, <1>2 DEF AtTop
<1> QED
  BY <1>3, <1>5, <1>6

\* A job that is written, flagged or, in the block sync, counted.
LEMMA ChainFrame ==
  ASSUME ChainInv, UNCHANGED <<phase, fetched, top, plan, queue, applied, mixed>>,
         job'.blocks = job.blocks, job'.reorg = job.reorg,
         \/ job'.stage = job.stage
         \/ /\ job.stage \in {"write", "count"} /\ job'.stage \in {"count", "mark"}
            /\ phase = "keepup" => job'.stage = "mark"
  PROVE  ChainInv'
<1>1. Unapplied' = Unapplied
  BY DEF Unapplied
<1>2. Ahead' = Ahead /\ Whole' = Whole
  BY <1>1 DEF Ahead, Whole
<1>3. Tip' = Tip
  BY <1>2 DEF Tip
<1>4. FetchedInv'
  BY DEF ChainInv, FetchedInv, Closed
<1>5. JobInv'
  BY <1>1 DEF ChainInv, JobInv
<1>6. AppliedInv'
  BY <1>1, <1>2, <1>3 DEF ChainInv, AppliedInv, Tracking
<1>7. QueueInv'
  BY <1>2, <1>3, QueueFrame DEF ChainInv, Tracking
<1> QED
  BY <1>4, <1>5, <1>6, <1>7 DEF ChainInv

LEMMA AheadFacts ==
  ASSUME StateInv
  PROVE  /\ applied \in Seq(Blocks) /\ Unapplied \in Seq(Blocks) /\ plan \in Seq(Blocks)
         /\ Ahead \in Seq(Blocks)
         /\ ToSet(Ahead) = ToSet(Unapplied) \cup ToSet(plan)
         /\ ToSet(Unapplied) \subseteq ToSet(job.blocks)
         /\ Unapplied = <<>> => Ahead = plan
         /\ plan = <<>> => Ahead = Unapplied
         /\ plan # <<>> => Ahead # <<>> /\ Last(Ahead) = Last(plan)
         /\ Unapplied # <<>> => Unapplied = job.blocks /\ Ahead # <<>>
<1>1. applied \in Seq(Blocks) /\ plan \in Seq(Blocks) /\ job.blocks \in Seq(Blocks)
  BY DEF StateInv, Typed, HistTyped, WorkTyped, Jobs
<1>2. Unapplied \in Seq(Blocks) /\ ToSet(Unapplied) \subseteq ToSet(job.blocks)
      /\ (Unapplied # <<>> => Unapplied = job.blocks)
  BY <1>1, EmptyBasics DEF Unapplied
<1> DEFINE u == Unapplied
<1> HIDE DEF u
<1>3. u \in Seq(Blocks)
  BY <1>2 DEF u
<1>4. /\ u \o plan \in Seq(Blocks) /\ ToSet(u \o plan) = ToSet(u) \cup ToSet(plan)
      /\ plan # <<>> => u \o plan # <<>> /\ Last(u \o plan) = Last(plan)
      /\ u # <<>> => u \o plan # <<>>
  BY <1>1, <1>3, ConcatBasics
<1>5. /\ u = <<>> => u \o plan = plan
      /\ plan = <<>> => u \o plan = u
  BY <1>1, <1>3, ConcatEmptySeq
<1> QED
  BY <1>1, <1>2, <1>4, <1>5 DEF u, Ahead

\* Everything below the tip is downloaded, being applied or planned.
LEMMA TipCovered ==
  ASSUME StateInv, ChainInv, Tracking
  PROVE  Tip \in Blocks /\ ToSet(PathTo[Tip]) \subseteq Whole
<1>1. Tip \in Blocks /\ ToSet(applied) \subseteq fetched
  BY DEF ChainInv, AppliedInv
<1>2. CASE phase = "sync"
  <2>1. PathTo[Tip] = applied \o Ahead
    BY <1>2 DEF ChainInv, AppliedInv
  <2>2. applied \in Seq(Blocks) /\ Ahead \in Seq(Blocks)
    BY AheadFacts
  <2>3. ToSet(applied \o Ahead) = ToSet(applied) \cup ToSet(Ahead)
    BY <2>2, ConcatBasics
  <2>4. ToSet(Ahead) \subseteq ToSet(job.blocks) \cup ToSet(plan)
    BY AheadFacts
  <2> QED
    BY <1>1, <2>1, <2>3, <2>4 DEF Whole
<1>3. CASE phase = "keepup"
  <2>1. plan = <<>> /\ Ahead = Unapplied
    BY <1>3, AheadFacts DEF ChainInv, JobInv
  <2>2. CASE Unapplied # <<>>
    <3>1. Tip = Last(job.blocks)
      BY <2>1, <2>2, AheadFacts DEF Tip
    <3> QED
      BY <1>1, <2>2, <3>1 DEF ChainInv, JobInv, Whole
  <2>3. CASE Unapplied = <<>>
    <3>1. Tip = Last(applied) /\ applied = PathTo[Last(applied)]
      BY <1>3, <2>1, <2>3 DEF Tip, ChainInv, AppliedInv
    <3> QED
      BY <1>1, <3>1 DEF Whole
  <2> QED
    BY <2>2, <2>3
<1> QED
  BY <1>2, <1>3 DEF Tracking

\* So is everything below the top, once the queue is through.
LEMMA TopCovered ==
  ASSUME StateInv, ChainInv, Tracking
  PROVE  ToSet(PathTo[top]) \subseteq Whole \cup {queue[j].block : j \in 1..Len(queue)}
<1>1. Covered /\ AtTop
  BY DEF ChainInv, QueueInv
<1>2. CASE queue = <<>>
  BY <1>1, <1>2, TipCovered DEF AtTop
<1>3. CASE queue # <<>>
  <2> DEFINE k == Len(queue)
  <2>1. k \in Nat /\ k # 0
    BY <1>3, ListBasics, EmptySeq DEF StateInv, Typed, WorkTyped
  <2>2. k \in 1..k /\ top = queue[k].block
    BY <1>1, <1>3, <2>1 DEF AtTop
  <2> QED
    BY <1>1, <2>2 DEF Covered
<1> QED
  BY <1>2, <1>3

LEMMA ChainStart ==
  ASSUME StateInv, ChainInv, Start
  PROVE  ChainInv'
<1>1. phase = "down" /\ phase' = "start" /\ fetched' = LoadedFetched /\ job' = job /\ mixed' = FALSE
  BY DEF Start
<1>2. job = NoJob
  BY <1>1 DEF StateInv, Shape
<1>3. Unapplied' = <<>> /\ ~Tracking' /\ job'.stage = "idle"
  BY <1>1, <1>2, NoJobFacts DEF Unapplied, Tracking
<1>4. Closed(LoadedFetched)
  BY LoadedClosed DEF StateInv, Typed, DiskTyped
<1>5. FetchedInv'
  BY <1>1, <1>4 DEF FetchedInv, Closed
<1>6. JobInv' /\ AppliedInv' /\ QueueInv'
  BY <1>1, <1>3 DEF JobInv, AppliedInv, QueueInv
<1> QED
  BY <1>5, <1>6 DEF ChainInv

LEMMA ChainStop ==
  ASSUME Stop
  PROVE  ChainInv'
<1>1. phase' = "down" /\ fetched' = {} /\ job' = NoJob /\ mixed' = FALSE
  BY DEF Stop
<1>2. Unapplied' = <<>> /\ ~Tracking' /\ job'.stage = "idle"
  BY <1>1, NoJobFacts DEF Unapplied, Tracking
<1>3. FetchedInv' /\ JobInv' /\ AppliedInv' /\ QueueInv'
  BY <1>1, <1>2 DEF FetchedInv, Closed, JobInv, AppliedInv, QueueInv
<1> QED
  BY <1>3 DEF ChainInv

LEMMA ChainStartSync ==
  ASSUME StateInv, ChainInv, StartSync
  PROVE  ChainInv'
<1>1. /\ phase = "start" /\ applied' = Synced
      /\ phase' \in {"dead", "sync"} /\ (phase' = "sync" => plan' = Missing)
      /\ UNCHANGED <<fetched, top, queue, job, mixed>>
  BY StartSyncCases
<1>2. job = NoJob /\ queue = <<>> /\ top \in Blocks /\ Closed(fetched) /\ ~mixed
  BY <1>1 DEF StateInv, Shape, Typed, ChainTyped, ChainInv, FetchedInv
<1>3. Unapplied' = <<>> /\ job'.stage = "idle" /\ ~job'.reorg
  BY <1>1, <1>2, NoJobFacts DEF Unapplied
<1>4. /\ Synced \in Seq(Blocks) /\ Missing \in Seq(Blocks) /\ Synced \o Missing = PathTo[top]
      /\ ToSet(Synced) \subseteq fetched
  BY <1>2, PathCut DEF Synced, SyncedUpTo, Missing
<1> DEFINE a == Synced
           m == Missing
<1>5. a \in Seq(Blocks) /\ m \in Seq(Blocks)
  BY <1>4
<1>6. PathTo[top] \in Seq(Blocks) /\ PathTo[top] # <<>> /\ Last(PathTo[top]) = top
  BY <1>2, PathType
<1>7. a \o m = PathTo[top]
  BY <1>4
<1> HIDE DEF a, m
<1>8. m # <<>> => Last(m) = top
  <2>1. m # <<>> => Last(a \o m) = Last(m)
    BY <1>5, ConcatBasics
  <2> QED
    BY <2>1, <1>6, <1>7
<1>9. m = <<>> => Last(a) = top
  <2>1. m = <<>> => a \o m = a
    BY <1>5, ConcatEmptySeq
  <2> QED
    BY <2>1, <1>6, <1>7
<1>10. phase' = "sync" => Ahead' = m /\ Tip' = top
  <2> SUFFICES ASSUME phase' = "sync"
               PROVE  Ahead' = m /\ Tip' = top
    OBVIOUS
  <2>1. plan' = m
    BY <1>1 DEF m
  <2>2. <<>> \o m = m
    BY <1>5, ConcatEmptySeq
  <2>3. Ahead' = m
    BY <1>3, <2>1, <2>2 DEF Ahead
  <2>4. applied' = a
    BY <1>1 DEF a
  <2> QED
    BY <1>8, <1>9, <2>3, <2>4 DEF Tip
<1>11. FetchedInv'
  BY <1>1, <1>2 DEF FetchedInv, Closed
<1>12. JobInv'
  BY <1>1, <1>3 DEF JobInv
<1>13. AppliedInv'
  BY <1>1, <1>2, <1>3, <1>4, <1>7, <1>10 DEF AppliedInv, Tracking, a
<1>14. QueueInv'
  <2>1. Len(queue') = 0 /\ queue' = <<>>
    BY <1>1, <1>2, EmptyBasics
  <2>2. Tracking' => Covered' /\ Linked' /\ AtTop'
    BY <1>1, <1>10, <2>1 DEF Covered, Linked, AtTop, Tracking
  <2> QED
    BY <2>2 DEF QueueInv
<1> QED
  BY <1>11, <1>12, <1>13, <1>14 DEF ChainInv

LEMMA ChainStartBatch ==
  ASSUME StateInv, ChainInv, StartBatch
  PROVE  ChainInv'
<1>1. /\ phase = "sync" /\ job = NoJob
      /\ UNCHANGED <<phase, fetched, top, queue, applied, mixed>>
  BY DEF StartBatch, chainVars, histVars
<1>2. PICK n \in 1..MaxBatch : /\ n <= Len(plan)
                               /\ job' = [stage |-> "write", reorg |-> FALSE, blocks |-> SubSeq(plan, 1, n), ended |-> {}]
                               /\ plan' = SubSeq(plan, n + 1, Len(plan))
  BY DEF StartBatch, StartJob
<1>3. plan \in Seq(Blocks) /\ Len(plan) \in Nat /\ n \in 0..Len(plan) /\ n > 0
  <2>1. plan \in Seq(Blocks)
    BY DEF StateInv, Typed, WorkTyped
  <2> QED
    BY <1>2, <2>1, ListBasics, ExplorerAssumption
<1> DEFINE a == SubSeq(plan, 1, n)
           b == SubSeq(plan, n + 1, Len(plan))
<1>4. a \in Seq(Blocks) /\ b \in Seq(Blocks) /\ Len(a) = n /\ a \o b = plan
  BY <1>3, ListSplit
<1>5. job'.stage = "write" /\ job'.reorg = FALSE /\ job'.blocks = a /\ plan' = b
  BY <1>2
<1> HIDE DEF a, b
<1>6. a # <<>>
  BY <1>3, <1>4, EmptyBasics
<1>7. Unapplied = <<>> /\ Ahead = plan
  BY <1>1, NoJobFacts, AheadFacts DEF Unapplied
<1>8. Unapplied' = a /\ Ahead' = plan
  BY <1>4, <1>5 DEF Unapplied, Ahead
<1>9. Tip' = Tip
  BY <1>1, <1>7, <1>8 DEF Tip
<1>10. ToSet(plan) = ToSet(a) \cup ToSet(b)
  <2>1. a \in Seq(Blocks) /\ b \in Seq(Blocks)
    BY <1>4
  <2>2. ToSet(a \o b) = ToSet(a) \cup ToSet(b)
    BY <2>1, ConcatBasics
  <2> QED
    BY <2>2, <1>4
<1>11. Whole' = Whole
  BY <1>1, <1>5, <1>10, NoJobFacts, EmptyBasics DEF Whole
<1>12. FetchedInv'
  BY <1>1 DEF ChainInv, FetchedInv, Closed
<1>13. applied \in Seq(Blocks) /\ Tip \in Blocks /\ applied \o plan = PathTo[Tip] /\ ToSet(applied) \subseteq fetched
  BY <1>1, <1>7, AheadFacts DEF ChainInv, AppliedInv, Tracking
<1>14. PathTo[Last(a)] = applied \o a
  <2> DEFINE x == applied \o a
  <2>1. a \in Seq(Blocks) /\ b \in Seq(Blocks)
    BY <1>4
  <2>2. applied \o (a \o b) = x \o b
    BY <1>13, <2>1, ConcatAssociative
  <2>3. x \in Seq(Blocks) /\ x # <<>> /\ Last(x) = Last(a)
    BY <1>6, <1>13, <2>1, ConcatBasics
  <2>4. PathTo[Tip] = x \o b
    BY <2>2, <1>4, <1>13
  <2> HIDE DEF x
  <2>5. x = PathTo[Last(x)]
    BY <1>13, <2>1, <2>3, <2>4, PathPrefix
  <2> QED
    BY <2>3, <2>5 DEF x
<1>15. ToSet(applied \o a) = ToSet(applied) \cup ToSet(a)
  BY <1>4, <1>13, ConcatBasics
<1>16. JobInv'
  BY <1>1, <1>5, <1>13, <1>14, <1>15 DEF JobInv
<1>17. AppliedInv'
  BY <1>1, <1>8, <1>9, <1>13 DEF AppliedInv, Tracking
<1>18. QueueInv'
  BY <1>1, <1>9, <1>11, QueueFrame DEF ChainInv, Tracking
<1> QED
  BY <1>12, <1>16, <1>17, <1>18 DEF ChainInv

LEMMA ChainSyncDone ==
  ASSUME StateInv, ChainInv, SyncDone
  PROVE  ChainInv'
<1>1. /\ phase = "sync" /\ job = NoJob /\ plan = <<>> /\ phase' = "keepup"
      /\ UNCHANGED <<fetched, top, plan, queue, job, applied, mixed>>
  BY DEF SyncDone, chainVars, histVars
<1>2. Unapplied = <<>> /\ Ahead = <<>> /\ job.stage = "idle"
  BY <1>1, NoJobFacts, AheadFacts DEF Unapplied
<1>3. Unapplied' = <<>> /\ Ahead' = <<>> /\ Whole' = Whole
  BY <1>1, <1>2 DEF Unapplied, Ahead, Whole
<1>4. Tip' = Tip /\ Tip = Last(applied)
  BY <1>1, <1>2, <1>3 DEF Tip
<1>5. Tip \in Blocks /\ ToSet(applied) \subseteq fetched /\ applied = PathTo[Tip]
  <2>1. Tip \in Blocks /\ ToSet(applied) \subseteq fetched /\ applied \o Ahead = PathTo[Tip]
    BY <1>1 DEF ChainInv, AppliedInv, Tracking
  <2>2. applied \o <<>> = applied
    BY AheadFacts, ConcatEmptySeq
  <2> QED
    BY <2>1, <2>2, <1>2
<1>6. applied # <<>>
  BY <1>5, PathType
<1>7. FetchedInv'
  BY <1>1 DEF ChainInv, FetchedInv, Closed
<1>8. JobInv'
  BY <1>1, <1>2, <1>3 DEF JobInv
<1>9. AppliedInv'
  BY <1>1, <1>3, <1>4, <1>5, <1>6 DEF AppliedInv
<1>10. QueueInv'
  BY <1>1, <1>3, <1>4, QueueFrame DEF ChainInv, Tracking
<1> QED
  BY <1>7, <1>8, <1>9, <1>10 DEF ChainInv

LEMMA ChainStartApply ==
  ASSUME StateInv, ChainInv, StartApply
  PROVE  ChainInv'
<1>1. /\ phase = "keepup" /\ queue # <<>> /\ job = NoJob /\ queue' = Tail(queue)
      /\ mixed' = (mixed \/ Head(queue).sibling)
      /\ job' = [stage |-> "write", reorg |-> Head(queue).reorg, blocks |-> <<Head(queue).block>>, ended |-> {}]
      /\ UNCHANGED <<phase, fetched, top, plan, applied>>
  BY DEF StartApply, StartJob, chainVars
<1> DEFINE e == queue[1]
           k == Len(queue)
           b == e.block
<1>2. /\ Tail(queue) \in Seq(Entry) /\ Len(Tail(queue)) = k - 1 /\ k > 0 /\ k \in Nat
      /\ \A i \in 1..(k - 1) : Tail(queue)[i] = queue[i + 1]
      /\ Head(queue) = e /\ e \in Entry
  BY <1>1, TailBasics DEF StateInv, Typed, WorkTyped
<1>3. b \in Blocks
  BY <1>2 DEF Entry
<1>4. queue' \in Seq(Entry) /\ Len(queue') = k - 1 /\ \A i \in 1..(k - 1) : queue'[i] = queue[i + 1]
  BY <1>1, <1>2
<1>5. /\ job'.stage = "write" /\ job'.reorg = e.reorg /\ job'.blocks = <<b>>
      /\ mixed' = (mixed \/ e.sibling)
  BY <1>1, <1>2
<1>6. plan = <<>> /\ applied # <<>> /\ applied = PathTo[Last(applied)] /\ ToSet(applied) \subseteq fetched
  BY <1>1 DEF ChainInv, JobInv, AppliedInv, Tracking
<1>7. Unapplied = <<>> /\ Ahead = <<>> /\ Tip = Last(applied)
  <2>1. Unapplied = <<>> /\ Ahead = <<>>
    BY <1>1, <1>6, NoJobFacts, AheadFacts DEF Unapplied
  <2> QED
    BY <2>1 DEF Tip
<1>8. Covered /\ Linked /\ AtTop
  BY <1>1 DEF ChainInv, QueueInv, Tracking
<1>9. 1 \in 1..k
  BY <1>2
<1>10. {queue[j].block : j \in 1..1} = {b}
  OBVIOUS
<1>11. Whole = fetched
  BY <1>1, <1>6, NoJobFacts, EmptyBasics DEF Whole
<1>12. ToSet(PathTo[b]) \subseteq fetched \cup {b}
  BY <1>8, <1>9, <1>10, <1>11 DEF Covered
<1>13. <<b>> \in Seq(Blocks) /\ <<b>> # <<>> /\ Last(<<b>>) = b /\ ToSet(<<b>>) = {b}
  BY <1>3, SingleBasics
<1>14. Unapplied' = <<b>> /\ Ahead' = <<b>>
  <2>1. <<b>> \o <<>> = <<b>>
    BY <1>13, ConcatEmptySeq
  <2>2. Unapplied' = <<b>> /\ plan' = <<>>
    BY <1>1, <1>5, <1>6 DEF Unapplied
  <2> QED
    BY <2>1, <2>2 DEF Ahead
<1>15. Tip' = b
  BY <1>13, <1>14 DEF Tip
<1>16. ~e.reorg => /\ b # Genesis /\ Parent[b] \in ToSet(applied)
                   /\ ~e.sibling => Parent[b] = Last(applied)
  <2>1. Before(1) = Last(applied)
    BY <1>7 DEF Before
  <2>2. ~e.reorg => /\ b # Genesis /\ Parent[b] \in ToSet(PathTo[Before(1)])
                    /\ ~e.sibling => Parent[b] = Before(1)
    BY <1>8, <1>9 DEF Linked
  <2> QED
    BY <1>6, <2>1, <2>2
<1> HIDE DEF b
<1>17. FetchedInv'
  BY <1>1 DEF ChainInv, FetchedInv, Closed
<1>18. b \in ToSet(PathTo[b])
  BY <1>3, PathType
<1>19. JobInv'
  <2>1. Last(job'.blocks) = b /\ ToSet(job'.blocks) = {b}
    BY <1>5, <1>13
  <2> QED
    BY <1>1, <1>5, <1>6, <1>12, <1>18, <2>1 DEF JobInv
<1>20. AppliedInv'
  <2>1. Last(job'.blocks) = b
    BY <1>5, <1>13
  <2>2. ~mixed' => ~e.sibling
    BY <1>5
  <2>3. ~job'.reorg => ~e.reorg
    BY <1>5
  <2> QED
    BY <1>1, <1>3, <1>6, <1>15, <1>16, <2>1, <2>2, <2>3 DEF AppliedInv, Tracking
<1>21. Whole' = fetched \cup {b}
  <2>1. ToSet(job'.blocks) = {b} /\ ToSet(plan') = {}
    BY <1>1, <1>5, <1>6, <1>13, EmptyBasics
  <2> QED
    BY <1>1, <2>1 DEF Whole
<1>22. Covered'
  <2> SUFFICES ASSUME NEW i \in 1..(k - 1)
               PROVE  ToSet(PathTo[queue'[i].block]) \subseteq Whole' \cup {queue'[j].block : j \in 1..i}
    BY <1>4 DEF Covered
  <2>1. i + 1 \in 1..k
    BY <1>2
  <2>2. ToSet(PathTo[queue[i + 1].block]) \subseteq fetched \cup {queue[j].block : j \in 1..(i + 1)}
    BY <1>8, <1>11, <2>1 DEF Covered
  <2>3. ASSUME NEW j \in 1..(i + 1)
        PROVE  queue[j].block \in {b} \cup {queue'[l].block : l \in 1..i}
    <3>1. CASE j = 1
      BY <3>1 DEF b
    <3>2. CASE j # 1
      <4>1. j - 1 \in 1..i /\ j - 1 \in 1..(k - 1) /\ (j - 1) + 1 = j
        BY <3>2, <1>2
      <4>2. queue'[j - 1] = queue[j]
        BY <4>1, <1>4
      <4> QED
        BY <4>1, <4>2
    <3> QED
      BY <3>1, <3>2
  <2>4. queue'[i] = queue[i + 1]
    BY <1>4
  <2> QED
    BY <1>21, <2>2, <2>3, <2>4
<1>23. Linked'
  <2> SUFFICES ASSUME NEW i \in 1..(k - 1)
               PROVE  ~queue'[i].reorg =>
                        /\ queue'[i].block # Genesis
                        /\ Parent[queue'[i].block] \in ToSet(PathTo[Before(i)'])
                        /\ ~queue'[i].sibling => Parent[queue'[i].block] = Before(i)'
    BY <1>4 DEF Linked
  <2>1. i + 1 \in 1..k /\ i + 1 # 1 /\ (i + 1) - 1 = i
    BY <1>2
  <2>2. queue'[i] = queue[i + 1]
    BY <1>4
  <2>3. Before(i + 1) = queue[i].block
    BY <2>1 DEF Before
  <2>4. Before(i)' = queue[i].block
    <3>1. CASE i = 1
      BY <1>15, <3>1 DEF Before, b
    <3>2. CASE i # 1
      <4>1. i - 1 \in 1..(k - 1) /\ (i - 1) + 1 = i
        BY <3>2, <1>2
      <4>2. queue'[i - 1] = queue[i]
        BY <4>1, <1>4
      <4> QED
        BY <3>2, <4>2 DEF Before
    <3> QED
      BY <3>1, <3>2
  <2>5. ~queue[i + 1].reorg =>
          /\ queue[i + 1].block # Genesis
          /\ Parent[queue[i + 1].block] \in ToSet(PathTo[Before(i + 1)])
          /\ ~queue[i + 1].sibling => Parent[queue[i + 1].block] = Before(i + 1)
    BY <1>8, <2>1 DEF Linked
  <2> QED
    BY <2>2, <2>3, <2>4, <2>5
<1>24. AtTop'
  <2>1. top = queue[k].block
    BY <1>1, <1>8 DEF AtTop
  <2>2. CASE k = 1
    <3>1. queue' = <<>>
      BY <1>4, <2>2, EmptySeq
    <3> QED
      BY <1>1, <1>15, <2>1, <2>2, <3>1 DEF AtTop, b
  <2>3. CASE k # 1
    <3>1. k - 1 \in 1..(k - 1) /\ (k - 1) + 1 = k /\ k - 1 # 0
      BY <1>2, <2>3
    <3>2. queue' # <<>> /\ queue'[Len(queue')] = queue[k]
      BY <1>4, <3>1, EmptyBasics
    <3> QED
      BY <1>1, <2>1, <3>2 DEF AtTop
  <2> QED
    BY <2>2, <2>3
<1> QED
  BY <1>17, <1>19, <1>20, <1>22, <1>23, <1>24 DEF ChainInv, QueueInv

\* A batch of the block sync continues the applied chain.
LEMMA BatchExtends ==
  ASSUME StateInv, ChainInv, phase = "sync", job.stage = "mark"
  PROVE  /\ applied \o job.blocks \in Seq(Blocks) /\ applied \o job.blocks # <<>>
         /\ Last(applied \o job.blocks) = Last(job.blocks)
         /\ (applied \o job.blocks) \o plan = PathTo[Tip]
         /\ applied \o job.blocks = PathTo[Last(job.blocks)]
<1> DEFINE bs == job.blocks
           x == applied \o bs
<1>1. bs \in Seq(Blocks) /\ bs # <<>>
  BY LastOfJob
<1>2. Unapplied = bs
  BY DEF Unapplied
<1>3. plan \in Seq(Blocks) /\ applied \in Seq(Blocks) /\ Ahead = bs \o plan
  BY <1>2, AheadFacts DEF Ahead
<1>4. Tip \in Blocks /\ applied \o Ahead = PathTo[Tip]
  BY DEF ChainInv, AppliedInv, Tracking
<1>5. x \in Seq(Blocks) /\ x # <<>> /\ Last(x) = Last(bs)
  BY <1>1, <1>3, ConcatBasics
<1>6. x \o plan = PathTo[Tip]
  <2>1. bs \in Seq(Blocks) /\ plan \in Seq(Blocks) /\ applied \in Seq(Blocks)
    BY <1>1, <1>3
  <2> HIDE DEF bs
  <2>2. (applied \o bs) \o plan = applied \o (bs \o plan)
    BY <2>1, ConcatAssociative
  <2> QED
    BY <2>2, <1>3, <1>4
<1> HIDE DEF x
<1>7. x = PathTo[Last(x)]
  BY <1>3, <1>4, <1>5, <1>6, PathPrefix
<1> QED
  BY <1>5, <1>6, <1>7 DEF x

LEMMA ChainMarkDownloaded ==
  ASSUME StateInv, ChainInv, MarkDownloaded
  PROVE  ChainInv'
<1> DEFINE bs == job.blocks
           P == ToSet(PathTo[Last(bs)])
<1>1. /\ job.stage = "mark" /\ fetched' = fetched \cup ToSet(bs)
      /\ job' = [job EXCEPT !.stage = IF phase = "sync" THEN "page" ELSE "count"]
      /\ applied' = IF phase = "sync" THEN PathTo[Last(bs)] ELSE applied
      /\ UNCHANGED <<phase, top, plan, queue, mixed>>
  BY DEF MarkDownloaded
<1>2. /\ bs \in Seq(Blocks) /\ bs # <<>> /\ Tracking /\ Last(bs) \in Blocks
      /\ ToSet(bs) \subseteq Blocks
  BY <1>1, LastOfJob, ListBasics
<1>3. /\ job'.blocks = bs /\ job'.reorg = job.reorg
      /\ job'.stage = IF phase = "sync" THEN "page" ELSE "count"
  <2> DEFINE s == IF phase = "sync" THEN "page" ELSE "count"
  <2>1. s \in Stages
    BY DEF Stages
  <2>2. job \in Jobs /\ job' = [job EXCEPT !.stage = s]
    BY <1>1 DEF StateInv, Typed, WorkTyped
  <2> HIDE DEF s
  <2>3. job'.stage = s /\ job'.blocks = job.blocks /\ job'.reorg = job.reorg
    BY <2>1, <2>2, NextStage
  <2> QED
    BY <2>3 DEF s
<1>4. Unapplied = bs
  BY <1>1 DEF Unapplied
<1>5. ToSet(bs) \subseteq P /\ P \subseteq fetched \cup ToSet(bs)
  BY <1>2, <1>4 DEF ChainInv, JobInv
<1>6. Closed(P)
  BY <1>2, PathClosed
<1>7. Closed(fetched')
  BY <1>1, <1>5, <1>6 DEF ChainInv, FetchedInv, Closed
<1>8. FetchedInv'
  <2>1. Closed(fetched)'
    BY <1>7 DEF Closed
  <2> QED
    BY <1>1, <2>1 DEF ChainInv, FetchedInv
<1>9. Whole' = Whole
  BY <1>1, <1>3 DEF Whole
<1>10. CASE phase = "sync"
  <2>1. job'.stage = "page" /\ applied' = PathTo[Last(bs)]
    BY <1>1, <1>3, <1>10
  <2>2. Unapplied' = <<>>
    BY <2>1 DEF Unapplied
  <2>3. plan \in Seq(Blocks) /\ applied \in Seq(Blocks) /\ Ahead = bs \o plan
    BY <1>4, AheadFacts DEF Ahead
  <2>4. Ahead' = plan
    <3>1. <<>> \o plan = plan
      BY <2>3, ConcatEmptySeq
    <3> QED
      BY <1>1, <2>2, <3>1 DEF Ahead
  <2>5. Tip \in Blocks /\ applied \o Ahead = PathTo[Tip]
    BY <1>10 DEF ChainInv, AppliedInv, Tracking
  <2> DEFINE x == applied \o bs
  <2>6. x \in Seq(Blocks) /\ x # <<>> /\ Last(x) = Last(bs)
    BY <1>1, <1>10, BatchExtends
  <2>7. x \o plan = PathTo[Tip]
    BY <1>1, <1>10, BatchExtends
  <2>8. x = PathTo[Last(bs)]
    BY <1>1, <1>10, BatchExtends
  <2> HIDE DEF x
  <2>9. applied' = x
    BY <2>1, <2>8
  <2>10. Tip' = Tip
    <3>1. CASE plan # <<>>
      <4>1. Tip' = Last(plan)
        BY <2>4, <3>1 DEF Tip
      <4>2. Tip = Last(plan)
        BY <3>1, AheadFacts DEF Tip
      <4> QED
        BY <4>1, <4>2
    <3>2. CASE plan = <<>>
      <4>1. Tip' = Last(bs)
        BY <2>4, <2>6, <2>9, <3>2 DEF Tip
      <4>2. Ahead = bs
        BY <3>2, <1>4, AheadFacts
      <4>3. Tip = Last(bs)
        BY <1>2, <4>2 DEF Tip
      <4> QED
        BY <4>1, <4>3
    <3> QED
      BY <3>1, <3>2
  <2>11. JobInv'
    BY <1>1, <1>3, <1>5, <1>10, <2>1, <2>2 DEF ChainInv, JobInv
  <2>12. ToSet(applied') \subseteq fetched'
    BY <1>1, <1>5, <2>1
  <2>13. AppliedInv'
    BY <1>1, <1>10, <2>4, <2>5, <2>7, <2>9, <2>10, <2>12 DEF AppliedInv, Tracking
  <2>14. QueueInv'
    BY <1>1, <1>9, <2>10, <1>10, QueueFrame DEF ChainInv, Tracking
  <2> QED
    BY <1>8, <2>11, <2>13, <2>14 DEF ChainInv
<1>11. CASE phase = "keepup"
  <2>1. job'.stage = "count" /\ applied' = applied
    BY <1>1, <1>3, <1>11
  <2>2. Unapplied' = Unapplied
    BY <1>3, <1>4, <2>1 DEF Unapplied
  <2>3. Tip' = Tip /\ Ahead' = Ahead
    BY <1>1, <2>1, <2>2 DEF Tip, Ahead
  <2>4. JobInv'
    BY <1>1, <1>3, <1>4, <1>5, <1>11, <2>1, <2>2 DEF ChainInv, JobInv
  <2>5. AppliedInv'
    BY <1>1, <1>3, <1>11, <2>1, <2>2, <2>3 DEF ChainInv, AppliedInv, Tracking
  <2>6. QueueInv'
    BY <1>1, <1>9, <2>3, <1>11, QueueFrame DEF ChainInv, Tracking
  <2> QED
    BY <1>8, <2>4, <2>5, <2>6 DEF ChainInv
<1> QED
  BY <1>2, <1>10, <1>11 DEF Tracking

LEMMA ChainCount ==
  ASSUME StateInv, ChainInv, Count
  PROVE  ChainInv'
<1> DEFINE bs == job.blocks
           P == ToSet(PathTo[Last(bs)])
<1>1. /\ job.stage = "count"
      /\ \/ job.reorg /\ mixed' = FALSE
         \/ ~job.reorg /\ UNCHANGED mixed
      /\ job' = [job EXCEPT !.stage = IF phase = "sync" THEN "mark" ELSE "page"]
      /\ applied' = IF phase = "sync" THEN applied ELSE PathTo[Last(bs)]
      /\ UNCHANGED <<phase, fetched, top, plan, queue>>
  BY DEF Count, chainVars
<1>2. /\ bs \in Seq(Blocks) /\ bs # <<>> /\ Tracking /\ Last(bs) \in Blocks
  BY <1>1, LastOfJob
<1>3. /\ job'.blocks = bs /\ job'.reorg = job.reorg
      /\ job'.stage = IF phase = "sync" THEN "mark" ELSE "page"
  <2> DEFINE s == IF phase = "sync" THEN "mark" ELSE "page"
  <2>1. s \in Stages
    BY DEF Stages
  <2>2. job \in Jobs /\ job' = [job EXCEPT !.stage = s]
    BY <1>1 DEF StateInv, Typed, WorkTyped
  <2> HIDE DEF s
  <2>3. job'.stage = s /\ job'.blocks = job.blocks /\ job'.reorg = job.reorg
    BY <2>1, <2>2, NextStage
  <2> QED
    BY <2>3 DEF s
<1>4. CASE phase = "sync"
  <2>1. ~job.reorg /\ applied' = applied /\ job'.stage = "mark"
    BY <1>1, <1>3, <1>4 DEF ChainInv, JobInv
  <2>2. UNCHANGED <<phase, fetched, top, plan, queue, applied, mixed>>
    BY <1>1, <2>1
  <2> QED
    BY <1>1, <1>3, <1>4, <2>1, <2>2, ChainFrame
<1>5. CASE phase = "keepup"
  <2>1. applied' = PathTo[Last(bs)] /\ job'.stage = "page"
    BY <1>1, <1>3, <1>5
  <2>2. Unapplied = bs
    BY <1>1 DEF Unapplied
  <2>3. ToSet(bs) \subseteq P /\ P \subseteq fetched \cup ToSet(bs) /\ ToSet(bs) \subseteq fetched
        /\ plan = <<>> /\ bs = <<Last(bs)>>
    BY <1>1, <1>2, <1>5, <2>2 DEF ChainInv, JobInv
  <2>4. Unapplied' = <<>> /\ Ahead' = <<>>
    <3>1. Unapplied' = <<>>
      BY <2>1 DEF Unapplied
    <3>2. <<>> \o <<>> = <<>>
      BY EmptyBasics, ConcatEmptySeq
    <3> QED
      BY <1>1, <2>3, <3>1, <3>2 DEF Ahead
  <2>5. /\ PathTo[Last(bs)] \in Seq(Blocks) /\ PathTo[Last(bs)] # <<>>
        /\ Last(PathTo[Last(bs)]) = Last(bs)
    BY <1>2, PathType
  <2>6. Tip' = Last(bs)
    BY <2>1, <2>4, <2>5 DEF Tip
  <2>7. Ahead = bs
    BY <2>2, <2>3, AheadFacts
  <2>8. Tip = Last(bs)
    BY <1>2, <2>7 DEF Tip
  <2>9. Whole' = Whole
    BY <1>1, <1>3 DEF Whole
  <2>10. FetchedInv'
    BY <1>1, <1>5 DEF ChainInv, FetchedInv, Closed
  <2>11. JobInv'
    BY <1>1, <1>3, <1>5, <2>1, <2>3, <2>4 DEF JobInv
  <2>12. AppliedInv'
    <3>1. applied' # <<>> /\ applied' = PathTo[Last(applied')]
      BY <2>1, <2>5
    <3>2. ToSet(applied') \subseteq fetched'
      BY <1>1, <2>1, <2>3
    <3> QED
      BY <1>1, <1>2, <1>5, <2>4, <2>6, <3>1, <3>2 DEF AppliedInv
  <2>13. QueueInv'
    BY <1>1, <1>2, <1>5, <2>6, <2>8, <2>9, QueueFrame DEF ChainInv, Tracking
  <2> QED
    BY <2>10, <2>11, <2>12, <2>13 DEF ChainInv
<1> QED
  BY <1>2, <1>4, <1>5 DEF Tracking

LEMMA ChainShowPage ==
  ASSUME StateInv, ChainInv, ShowPage
  PROVE  ChainInv'
<1>1. /\ job.stage = "page" /\ job' = NoJob
      /\ phase' \in {phase, "dead"}
      /\ UNCHANGED <<fetched, top, plan, queue, applied, mixed>>
  BY ShowPageCases
<1>2. Tracking /\ ToSet(job.blocks) \subseteq fetched
  <2>1. Tracking
    BY <1>1, LastOfJob
  <2> QED
    BY <1>1, <2>1 DEF ChainInv, JobInv, AppliedInv
<1>3. Unapplied = <<>> /\ Unapplied' = <<>> /\ job'.stage = "idle" /\ ~job'.reorg /\ ToSet(job'.blocks) = {}
  BY <1>1, NoJobFacts, EmptyBasics DEF Unapplied
<1>4. Ahead' = Ahead /\ Whole' = Whole
  BY <1>1, <1>2, <1>3 DEF Ahead, Whole
<1>5. Tip' = Tip
  BY <1>1, <1>4 DEF Tip
<1>6. FetchedInv'
  BY <1>1 DEF ChainInv, FetchedInv, Closed
<1>7. JobInv'
  BY <1>1, <1>3 DEF ChainInv, JobInv
<1>8. AppliedInv'
  BY <1>1, <1>3, <1>4, <1>5 DEF ChainInv, AppliedInv, Tracking
<1>9. QueueInv'
  BY <1>1, <1>2, <1>4, <1>5, QueueFrame DEF ChainInv
<1> QED
  BY <1>6, <1>7, <1>8, <1>9 DEF ChainInv

LEMMA PrefixBasics ==
  ASSUME NEW U, NEW s \in Seq(U), NEW k \in 0..Len(s)
  PROVE  /\ SubSeq(s, 1, k) \in Seq(U) /\ Len(SubSeq(s, 1, k)) = k
         /\ \A j \in 1..k : SubSeq(s, 1, k)[j] = s[j]
         /\ ToSet(SubSeq(s, 1, k)) = {s[j] : j \in 1..k}
<1> DEFINE f == SubSeq(s, 1, k)
<1>1. Len(s) \in Nat /\ k \in Nat /\ k <= Len(s)
  BY ListBasics
<1>2. FirstN(s, k) = f
  BY <1>1 DEF FirstN
<1>3. /\ f \in Seq(U) /\ Len(f) = IF k < Len(s) THEN k ELSE Len(s)
      /\ \A i \in 1..Len(f) : f[i] = s[i]
  BY <1>1, <1>2, FirstNBasics
<1>4. Len(f) = k
  BY <1>1, <1>3
<1> HIDE DEF f
<1>5. ToSet(f) = {f[i] : i \in 1..Len(f)}
  BY <1>3, ListBasics
<1>6. ToSet(f) = {s[j] : j \in 1..k}
  BY <1>3, <1>4, <1>5
<1> QED
  BY <1>3, <1>4, <1>6 DEF f

LEMMA PrefixAppend ==
  ASSUME NEW U, NEW s \in Seq(U), NEW i \in 1..Len(s)
  PROVE  SubSeq(s, 1, i) = Append(SubSeq(s, 1, i - 1), s[i])
<1> DEFINE k == i - 1
           a == SubSeq(s, 1, k)
           b == SubSeq(s, 1, i)
           c == Append(a, s[i])
<1>1. Len(s) \in Nat /\ i \in 0..Len(s) /\ k \in 0..Len(s) /\ k \in Nat /\ k + 1 = i /\ s[i] \in U
  BY ListBasics
<1> HIDE DEF k
<1>2. a \in Seq(U) /\ Len(a) = k /\ \A j \in 1..k : a[j] = s[j]
  BY <1>1, PrefixBasics
<1>3. b \in Seq(U) /\ Len(b) = i /\ \A j \in 1..i : b[j] = s[j]
  BY <1>1, PrefixBasics
<1> HIDE DEF a, b
<1>4. c \in Seq(U) /\ Len(c) = Len(a) + 1 /\ c[Len(a) + 1] = s[i] /\ \A j \in 1..Len(a) : c[j] = a[j]
  BY <1>1, <1>2, AppendProperties
<1> HIDE DEF c
<1>5. ASSUME NEW j \in 1..i
      PROVE  c[j] = b[j]
  <2>1. CASE j = i
    BY <2>1, <1>1, <1>2, <1>3, <1>4
  <2>2. CASE j # i
    <3>1. j \in 1..k
      BY <2>2, <1>1
    <3> QED
      BY <3>1, <1>2, <1>3, <1>4
  <2> QED
    BY <2>1, <2>2
<1>6. Len(c) = i
  BY <1>1, <1>2, <1>4
<1>7. b = c
  BY <1>3, <1>4, <1>5, <1>6, SeqEqual
<1> QED
  BY <1>7 DEF a, b, c, k


LEMMA ConcatAssociates ==
  \A s, t, u \in Seq(Blocks) : (s \o t) \o u = s \o (t \o u)
BY ConcatAssociative

\* A block of a branch follows the one before it, the first one the trunk.
Joins(in, a, e) ==
  /\ e # Genesis
  /\ Parent[e] = IF a = <<>> THEN Last(in) ELSE Last(a)
  /\ ToSet(PathTo[e]) = ToSet(in) \cup ToSet(a) \cup {e}
Branch(h, in, a, e, b, y, out) ==
  in # <<>> /\ b = Append(a, e) /\ b \o y = out /\ in \o out = PathTo[h]

LEMMA BranchJoin ==
  \A h, e \in Blocks, in, a, y, b, out \in Seq(Blocks) :
    Branch(h, in, a, e, b, y, out) => Joins(in, a, e)
<1> SUFFICES ASSUME NEW h \in Blocks, NEW e \in Blocks, NEW in \in Seq(Blocks), NEW a \in Seq(Blocks),
                    NEW y \in Seq(Blocks), NEW b \in Seq(Blocks), NEW out \in Seq(Blocks), in # <<>>
             PROVE  Branch(h, in, a, e, b, y, out) => Joins(in, a, e)
  BY DEF Branch
<1> DEFINE x == in \o a
           w == in \o b
<1>1. /\ x \in Seq(Blocks) /\ x # <<>> /\ ToSet(x) = ToSet(in) \cup ToSet(a)
      /\ a # <<>> => Last(x) = Last(a)
      /\ a = <<>> => x = in
  BY ConcatBasics, ConcatEmptySeq
<1>2. in \o Append(a, e) = Append(x, e)
  BY AppendOfConcat
<1>3. w \o y = in \o (b \o y)
  BY ConcatAssociates, Zenon
<1>4. w \in Seq(Blocks) /\ (b # <<>> => w # <<>> /\ Last(w) = Last(b))
  BY ConcatBasics
<1>5. Append(a, e) # <<>> /\ Last(Append(a, e)) = e
  BY AppendBasics
<1> HIDE DEF x
<1>6. ASSUME b = Append(a, e), b \o y = out, in \o out = PathTo[h]
      PROVE  Joins(in, a, e)
  <2>1. w # <<>> /\ Last(w) = e
    BY <1>4, <1>5, <1>6
  <2>2. w = Append(x, e)
    BY <1>2, <1>6
  <2>3. PathTo[h] = w \o y
    BY <1>3, <1>6
  <2>4. w \in Seq(Blocks)
    BY <1>4
  <2> HIDE DEF w
  <2>5. w = PathTo[Last(w)]
    BY <2>1, <2>3, <2>4, PathPrefix
  <2>6. PathTo[e] = Append(x, e)
    BY <2>1, <2>2, <2>5
  <2>7. e # Genesis /\ Parent[e] = Last(x) /\ x = PathTo[Last(x)]
    BY <1>1, <2>6, PathLink
  <2>8. ToSet(PathTo[e]) = ToSet(PathTo[Parent[e]]) \cup {e}
    BY <2>7, PathSet
  <2> QED
    BY <1>1, <2>7, <2>8 DEF Joins
<1> QED
  BY <1>6 DEF Branch

Follows(in, out, i) ==
  /\ out[i] # Genesis
  /\ Parent[out[i]] = IF i = 1 THEN Last(in) ELSE out[i - 1]
  /\ ToSet(PathTo[out[i]]) \subseteq ToSet(in) \cup {out[j] : j \in 1..i}
SplitsPath(h, in, out) == in # <<>> /\ in \o out = PathTo[h]

LEMMA BranchLinks ==
  \A h \in Blocks, in, out \in Seq(Blocks) :
    SplitsPath(h, in, out) => \A i \in 1..Len(out) : Follows(in, out, i)
<1> SUFFICES ASSUME NEW h \in Blocks, NEW in \in Seq(Blocks), NEW out \in Seq(Blocks), in # <<>>,
                    in \o out = PathTo[h], NEW i \in 1..Len(out)
             PROVE  Follows(in, out, i)
  BY DEF SplitsPath
<1> DEFINE n == Len(out)
           k == i - 1
           e == out[i]
           a == SubSeq(out, 1, k)
           b == SubSeq(out, 1, i)
           y == SubSeq(out, i + 1, n)
<1>1. n \in Nat /\ i \in 0..n /\ k \in 0..n /\ k \in Nat /\ k + 1 = i /\ e \in Blocks
  BY ListBasics
<1>2. b \in Seq(Blocks) /\ y \in Seq(Blocks) /\ b \o y = out
  BY <1>1, ListSplit
<1>3. a \in Seq(Blocks) /\ Len(a) = k /\ (\A j \in 1..k : a[j] = out[j]) /\ ToSet(a) = {out[j] : j \in 1..k}
  <2> HIDE DEF k
  <2> QED
    BY <1>1, PrefixBasics
<1>4. b = Append(a, e)
  BY PrefixAppend
<1> HIDE DEF a, b, y, e, n, k
<1>5. /\ e # Genesis
      /\ Parent[e] = IF a = <<>> THEN Last(in) ELSE Last(a)
      /\ ToSet(PathTo[e]) = ToSet(in) \cup ToSet(a) \cup {e}
  <2>1. e \in Blocks /\ a \in Seq(Blocks) /\ b \in Seq(Blocks) /\ y \in Seq(Blocks)
    BY <1>1, <1>2, <1>3
  <2>2. b \o y = out
    BY <1>2
  <2>3. Branch(h, in, a, e, b, y, out)
    BY <2>2, <1>4 DEF Branch
  <2>4. Joins(in, a, e)
    BY <2>1, <2>3, BranchJoin, Zenon
  <2> QED
    BY <2>4 DEF Joins
<1>6. Parent[e] = IF i = 1 THEN Last(in) ELSE out[i - 1]
  <2>1. CASE i = 1
    <3>1. k = 0
      BY <2>1, <1>1
    <3>2. a = <<>>
      BY <3>1, <1>3, EmptySeq
    <3> QED
      BY <2>1, <3>2, <1>5
  <2>2. CASE i # 1
    <3>1. a # <<>> /\ Last(a) = a[k] /\ k \in 1..k
      BY <2>2, <1>1, <1>3, EmptyBasics DEF Last
    <3>2. Parent[e] = out[k]
      BY <3>1, <1>3, <1>5
    <3> QED
      BY <2>2, <3>2 DEF k
  <2> QED
    BY <2>1, <2>2
<1>7. ToSet(a) \cup {e} \subseteq {out[j] : j \in 1..i}
  <2>1. \A j \in 1..k : j \in 1..i
    BY <1>1
  <2>2. i \in 1..i
    BY <1>1
  <2> QED
    BY <1>3, <2>1, <2>2 DEF e
<1>8. ToSet(PathTo[e]) \subseteq ToSet(in) \cup {out[j] : j \in 1..i}
  BY <1>5, <1>7
<1> QED
  BY <1>5, <1>6, <1>8 DEF e, Follows

\* A header that makes a new top: the branch that LearnHeader puts in the queue.
LEMMA NewBranch ==
  ASSUME StateInv, Tracking, NEW h \in Blocks, LearnHeader(h)
  PROVE  \E in \in Seq(Blocks) :
           LET out == AddedBlocks(h) IN
           /\ in # <<>> /\ in \o out = PathTo[h]
           /\ ToSet(in) \subseteq ToSet(PathTo[top])
           /\ out \in Seq(Blocks) /\ out # <<>> /\ Last(out) = h
<1> DEFINE S == ToSet(PathTo[top])
           in == Filtered(PathTo[h], S)
           out == Filtered(PathTo[h], Blocks \ S)
<1>1. h \notin known
  BY DEF LearnHeader
<1>2. top \in Blocks /\ top \in known /\ Closed(known)
  BY DEF StateInv, Typed, ChainTyped, Held, Live, Tracking
<1>3. S \subseteq known
  BY <1>2, ClosedHoldsPath
<1>4. Closed(S) /\ Genesis \in S
  BY <1>2, PathClosed
<1>5. h \notin S
  BY <1>1, <1>3
<1> HIDE DEF S
<1>6. /\ in \in Seq(Blocks) /\ out \in Seq(Blocks) /\ in \o out = PathTo[h]
      /\ ToSet(in) \subseteq S
      /\ out # <<>> /\ Last(out) = h /\ in # <<>>
  BY <1>4, <1>5, PathCut
<1>7. out = AddedBlocks(h)
  BY DEF AddedBlocks, S
<1> HIDE DEF in, out
<1> QED
  BY <1>6, <1>7 DEF S

LEMMA ChainLearnHeader ==
  ASSUME StateInv, ChainInv, NEW h \in Blocks, LearnHeader(h)
  PROVE  ChainInv'
<1> DEFINE out == AddedBlocks(h)
           better == Work[h] >= Work[top]
           single == Len(out) = 1 /\ Parent[h] # top
<1>1. /\ Live
      /\ top' = IF better THEN h ELSE top
      /\ IF better /\ phase # "start" THEN Enqueue(out, single) ELSE UNCHANGED queue
      /\ UNCHANGED <<phase, fetched, plan, job, applied, mixed>>
  BY DEF LearnHeader, Live, histVars
<1>2. Unapplied' = Unapplied /\ Whole' = Whole
  BY <1>1 DEF Unapplied, Whole
<1>3. Ahead' = Ahead
  BY <1>1, <1>2 DEF Ahead
<1>4. Tip' = Tip
  BY <1>1, <1>3 DEF Tip
<1>5. FetchedInv'
  BY <1>1 DEF ChainInv, FetchedInv, Closed
<1>6. JobInv'
  BY <1>1, <1>2 DEF ChainInv, JobInv
<1>7. AppliedInv'
  BY <1>1, <1>2, <1>3, <1>4 DEF ChainInv, AppliedInv, Tracking
<1>8. QueueInv'
  <2>1. CASE phase = "start"
    BY <1>1, <2>1 DEF QueueInv, Tracking
  <2>2. CASE phase # "start" /\ ~better
    <3>1. top' = top /\ queue' = queue
      BY <1>1, <2>2
    <3> QED
      BY <1>1, <1>2, <1>4, <3>1, QueueFrame DEF ChainInv, Tracking
  <2>3. CASE phase # "start" /\ better
    <3>1. Tracking /\ top' = h /\ Enqueue(out, single)
      BY <1>1, <2>3 DEF Live, Tracking
    <3>2. PICK in \in Seq(Blocks) :
            /\ in # <<>> /\ in \o out = PathTo[h]
            /\ ToSet(in) \subseteq ToSet(PathTo[top])
            /\ out \in Seq(Blocks) /\ out # <<>> /\ Last(out) = h
      BY <3>1, NewBranch
    <3> DEFINE n == Len(out)
               k == Len(queue)
    <3>3. n \in Nat /\ n # 0 /\ out[n] = h
      BY <3>2, ListBasics, EmptySeq DEF Last
    <3>4. k \in Nat /\ queue \in Seq(Entry)
      BY ListBasics DEF StateInv, Typed, WorkTyped
    <3>5. /\ queue' \in Seq(Entry) /\ Len(queue') = k + n
          /\ \A i \in 1..k : queue'[i] = queue[i]
          /\ \A i \in 1..n : /\ queue'[k + i].block = out[i]
                             /\ queue'[k + i].reorg = (i = 1 /\ n > 1)
                             /\ queue'[k + i].sibling = single
      <4>1. out \in Seq(Blocks) /\ single \in BOOLEAN
        BY <3>2
      <4> QED
        BY <3>1, <3>4, <4>1, Enqueued
    <3>6. \A i \in 1..n :
            /\ out[i] # Genesis
            /\ Parent[out[i]] = IF i = 1 THEN Last(in) ELSE out[i - 1]
            /\ ToSet(PathTo[out[i]]) \subseteq ToSet(in) \cup {out[j] : j \in 1..i}
      <4>1. out \in Seq(Blocks) /\ SplitsPath(h, in, out)
        BY <3>2 DEF SplitsPath
      <4>2. \A i \in 1..n : Follows(in, out, i)
        BY <4>1, BranchLinks, Zenon
      <4> QED
        BY <4>2 DEF Follows
    <3>7. Covered /\ Linked /\ AtTop
      BY <3>1 DEF ChainInv, QueueInv
    <3>8. ToSet(PathTo[top]) \subseteq Whole \cup {queue[j].block : j \in 1..k}
      BY <3>1, TopCovered
    <3>9. Last(in) \in ToSet(PathTo[top])
      <4>1. Len(in) \in Nat /\ Len(in) # 0 /\ \A i \in 1..Len(in) : in[i] \in ToSet(in)
        BY <3>2, ListBasics, EmptySeq
      <4>2. Last(in) \in ToSet(in)
        BY <4>1 DEF Last
      <4> QED
        BY <3>2, <4>2
    <3>10. ASSUME NEW i \in Nat, i = k + 1
           PROVE  Before(i)' = top
      <4>1. CASE queue = <<>>
        <5>1. i = 1 /\ top = Tip
          BY <3>7, <3>10, <4>1, EmptyBasics DEF AtTop
        <5> QED
          BY <1>4, <5>1 DEF Before
      <4>2. CASE queue # <<>>
        <5>1. k # 0 /\ top = queue[k].block
          BY <3>4, <3>7, <4>2, EmptySeq DEF AtTop
        <5>2. k \in 1..k /\ i # 1 /\ i - 1 = k
          BY <3>4, <3>10, <5>1
        <5>3. queue'[k] = queue[k]
          BY <3>5, <5>2
        <5>4. Before(i)' = queue'[i - 1].block
          BY <5>2 DEF Before
        <5> QED
          BY <5>1, <5>2, <5>3, <5>4
      <4> QED
        BY <4>1, <4>2
    <3> HIDE DEF out, n, k, single
    <3>11. ASSUME NEW i \in 1..(k + n), ~(i <= k)
           PROVE  \E j \in 1..n : i = k + j
      <4>1. i - k \in 1..n /\ i = k + (i - k)
        BY <3>3, <3>4, <3>11
      <4> QED
        BY <4>1
    <3>12. Covered'
      <4> SUFFICES ASSUME NEW i \in 1..(k + n)
                   PROVE  ToSet(PathTo[queue'[i].block]) \subseteq Whole \cup {queue'[j].block : j \in 1..i}
        BY <1>2, <3>5 DEF Covered
      <4>1. CASE i <= k
        <5>1. i \in 1..k /\ \A j \in 1..i : j \in 1..k
          BY <3>4, <4>1
        <5>2. ToSet(PathTo[queue[i].block]) \subseteq Whole \cup {queue[j].block : j \in 1..i}
          BY <3>7, <5>1 DEF Covered, k
        <5>3. {queue[j].block : j \in 1..i} \subseteq {queue'[j].block : j \in 1..i}
          BY <3>5, <5>1
        <5> QED
          BY <3>5, <5>1, <5>2, <5>3
      <4>2. CASE ~(i <= k)
        <5>1. PICK l \in 1..n : i = k + l
          BY <3>11, <4>2
        <5>2. queue'[i].block = out[l]
          BY <3>5, <5>1
        <5>3. ToSet(PathTo[out[l]]) \subseteq ToSet(in) \cup {out[j] : j \in 1..l}
          BY <3>6, <5>1
        <5>4. {queue[j].block : j \in 1..k} \subseteq {queue'[j].block : j \in 1..i}
          <6>1. \A j \in 1..k : j \in 1..i
            BY <3>3, <3>4, <5>1
          <6> QED
            BY <3>5, <6>1
        <5>5. {out[j] : j \in 1..l} \subseteq {queue'[j].block : j \in 1..i}
          <6>1. \A j \in 1..l : k + j \in 1..i /\ j \in 1..n
            BY <3>3, <3>4, <5>1
          <6>2. \A j \in 1..l : out[j] = queue'[k + j].block
            BY <3>5, <6>1
          <6> QED
            BY <6>1, <6>2
        <5> QED
          BY <3>2, <3>8, <5>2, <5>3, <5>4, <5>5
      <4> QED
        BY <4>1, <4>2
    <3>13. Linked'
      <4> SUFFICES ASSUME NEW i \in 1..(k + n), ~queue'[i].reorg
                   PROVE  /\ queue'[i].block # Genesis
                          /\ Parent[queue'[i].block] \in ToSet(PathTo[Before(i)'])
                          /\ ~queue'[i].sibling => Parent[queue'[i].block] = Before(i)'
        BY <3>5 DEF Linked
      <4>1. CASE i <= k
        <5>1. i \in 1..k
          BY <3>4, <4>1
        <5>2. queue'[i] = queue[i]
          BY <3>5, <5>1
        <5>3. /\ queue[i].block # Genesis
              /\ Parent[queue[i].block] \in ToSet(PathTo[Before(i)])
              /\ ~queue[i].sibling => Parent[queue[i].block] = Before(i)
          BY <3>7, <5>1, <5>2 DEF Linked, k
        <5>4. Before(i)' = Before(i)
          <6>1. CASE i = 1
            BY <1>4, <6>1 DEF Before
          <6>2. CASE i # 1
            <7>1. i - 1 \in 1..k
              BY <3>4, <5>1, <6>2
            <7>2. queue'[i - 1] = queue[i - 1]
              BY <3>5, <7>1
            <7> QED
              BY <6>2, <7>2 DEF Before
          <6> QED
            BY <6>1, <6>2
        <5> QED
          BY <5>2, <5>3, <5>4
      <4>2. CASE ~(i <= k)
        <5>1. PICK l \in 1..n : i = k + l
          BY <3>11, <4>2
        <5>2. /\ queue'[i].block = out[l]
              /\ queue'[i].reorg = (l = 1 /\ n > 1)
              /\ queue'[i].sibling = single
          BY <3>5, <5>1
        <5>3. /\ out[l] # Genesis
              /\ Parent[out[l]] = IF l = 1 THEN Last(in) ELSE out[l - 1]
          BY <3>6, <5>1
        <5>4. CASE l = 1
          <6>1. ~(l = 1 /\ n > 1)
            BY <5>2
          <6>2. n = 1
            BY <3>3, <5>4, <6>1
          <6>3. out[l] = h /\ Parent[h] = Last(in)
            BY <3>3, <5>3, <5>4, <6>2
          <6>4. Before(i)' = top
            BY <3>4, <3>10, <5>1, <5>4
          <6>5. ~single => Parent[h] = top
            BY <6>2 DEF single, n
          <6> QED
            BY <3>9, <5>2, <5>3, <6>3, <6>4, <6>5
        <5>5. CASE l # 1
          <6>1. l - 1 \in 1..n /\ k + (l - 1) = i - 1 /\ i # 1
            BY <3>3, <3>4, <5>1, <5>5
          <6>2. queue'[i - 1].block = out[l - 1]
            BY <3>5, <6>1
          <6>3. Before(i)' = out[l - 1]
            BY <6>1, <6>2 DEF Before
          <6>4. out[l - 1] \in Blocks
            BY <3>2, <6>1, ListBasics DEF n
          <6>5. out[l - 1] \in ToSet(PathTo[out[l - 1]])
            BY <6>4, PathType
          <6> QED
            BY <5>2, <5>3, <5>5, <6>3, <6>5
        <5> QED
          BY <5>4, <5>5
      <4> QED
        BY <4>1, <4>2
    <3>14. AtTop'
      <4>1. n \in 1..n /\ k + n # 0
        BY <3>3, <3>4
      <4>2. queue' # <<>>
        BY <3>5, <4>1, EmptyBasics
      <4>3. queue'[Len(queue')].block = h
        BY <3>3, <3>5, <4>1
      <4> QED
        BY <3>1, <4>2, <4>3 DEF AtTop
    <3> QED
      BY <3>12, <3>13, <3>14 DEF QueueInv
  <2> QED
    BY <2>1, <2>2, <2>3
<1> QED
  BY <1>5, <1>6, <1>7, <1>8 DEF ChainInv

LEMMA ChainStep ==
  ASSUME StateInv, ChainInv, [Next]_vars, ~gap'
  PROVE  ChainInv'
<1>1. ~SyncGivesUp /\ ~DropBlock
  BY DEF SyncGivesUp, DropBlock
<1>2. CASE UNCHANGED vars
  <2>1. UNCHANGED <<phase, fetched, top, plan, queue, applied, mixed>> /\ UNCHANGED job
    BY <1>2 DEF vars, chainVars, histVars
  <2> QED
    BY <2>1, ChainFrame
<1>3. CASE FlushHeaders
  <2>1. UNCHANGED <<phase, fetched, top, plan, queue, applied, mixed>> /\ UNCHANGED job
    BY <1>3 DEF FlushHeaders, histVars
  <2> QED
    BY <2>1, ChainFrame
<1>4. ASSUME NEW r \in Configs, Reload(r)
      PROVE  ChainInv'
  <2>1. UNCHANGED <<phase, fetched, top, plan, queue, applied, mixed>> /\ UNCHANGED job
    BY <1>4 DEF Reload, chainVars
  <2> QED
    BY <2>1, ChainFrame
<1>5. ASSUME NEW t \in Tables, Write(t) \/ WriteFails(t)
      PROVE  ChainInv'
  <2>1. EndTask(t) /\ UNCHANGED <<phase, fetched, top, plan, queue, applied, mixed>>
    BY <1>5 DEF Write, WriteFails, diskVars, chainVars, histVars
  <2>2. job'.stage = job.stage /\ job'.blocks = job.blocks /\ job'.reorg = job.reorg
    BY <2>1, NextEnded DEF StateInv, Typed, WorkTyped
  <2> QED
    BY <2>1, <2>2, ChainFrame
<1>6. CASE StoreFlags
  <2> DEFINE s == IF phase = "sync" THEN "count" ELSE "mark"
  <2>1. /\ UNCHANGED <<phase, fetched, top, plan, queue, applied, mixed>>
        /\ job.stage = "write" /\ job' = [job EXCEPT !.stage = s]
    BY <1>6 DEF StoreFlags, chainVars, histVars
  <2>2. s \in Stages /\ s \in {"count", "mark"} /\ (phase = "keepup" => s = "mark")
    BY DEF Stages
  <2> HIDE DEF s
  <2>3. job'.stage = s /\ job'.blocks = job.blocks /\ job'.reorg = job.reorg
    BY <2>1, <2>2, NextStage DEF StateInv, Typed, WorkTyped
  <2> QED
    BY <2>1, <2>2, <2>3, ChainFrame
<1> QED
  BY <1>2, <1>3, <1>4, <1>5, <1>6, <1>1, ChainStart, ChainStartSync, ChainStop, ChainLearnHeader,
     ChainStartBatch, ChainSyncDone, ChainStartApply, ChainMarkDownloaded, ChainCount, ChainShowPage
     DEF Next

-----------------------------------------------------------------------------
(* The third part: what the miner statistics and the front page say of the  *)
(* applied chain.                                                           *)

\* The chain that the statistics have counted: the block sync counts a batch
\* before it marks it.
Counting == phase = "sync" /\ job.stage = "mark"
Listed == IF Counting THEN applied \o job.blocks ELSE applied

\* The miners' list has an entry for each of these blocks.
FoundIn(list, entries) == \A b \in ToSet(list) : \E i \in DOMAIN entries : entries[i].block = b

CountedInv ==
  Live /\ ~raced => /\ FoundIn(Listed, counted)
                    /\ ~mixed => counted = MinersOf(config, Listed)
NewestInv ==
  /\ ~raced => newest = NewestOf(recent)
  /\ Live /\ fetched = {} /\ ~Counting => newest = <<>>

Shows(chain) ==
  /\ page.blocks = FirstN(Reverse(chain), PAGE)
  /\ page.txs = FirstN(TxsOf(Reverse(chain)), PAGE)
PageInv ==
  Tracking /\ ~mixed =>
    /\ job.stage # "page" => Shows(applied)
    /\ job.stage = "page" /\ ~job.reorg =>
         \E old \in Seq(Blocks) : applied = old \o job.blocks /\ Shows(old)

ShownInv == CountedInv /\ NewestInv /\ PageInv /\ PagePanicsOnlyByRace

LEMMA ShownAtFirst == Init => ShownInv
<1> SUFFICES ASSUME Init
             PROVE  ShownInv
  OBVIOUS
<1>1. phase = "down" /\ newest = <<>> /\ recent = <<>>
  BY DEF Init
<1>2. ~Live /\ ~Tracking
  BY <1>1 DEF Live, Tracking
<1> QED
  BY <1>1, <1>2, NewestOfEmpty DEF ShownInv, CountedInv, NewestInv, PageInv, PagePanicsOnlyByRace

\* Every block that was counted is found again.
LEMMA MinersFound ==
  ASSUME NEW r \in Configs, NEW s \in Seq(Blocks)
  PROVE  FoundIn(s, MinersOf(r, s))
<1> DEFINE f == MinersOf(r, s)
<1>1. /\ f \in Seq(Entries) /\ Len(f) = Len(s)
      /\ \A i \in 1..Len(s) : f[i].block = s[i]
  BY MinersOfType
<1> HIDE DEF f
<1>2. DOMAIN f = 1..Len(s)
  BY <1>1, ListBasics
<1>3. ToSet(s) = {s[i] : i \in 1..Len(s)}
  BY ListBasics
<1>4. \A b \in ToSet(s) : \E i \in DOMAIN f : f[i].block = b
  BY <1>1, <1>2, <1>3
<1> QED
  BY <1>4 DEF FoundIn, f

\* A step that neither counts nor shows anything.
LEMMA ShownFrame ==
  ASSUME ShownInv, UNCHANGED <<phase, fetched, config, counted, recent, newest, page, applied, raced>>,
         mixed => mixed', phase = "dead" => UNCHANGED <<torn, unreadable, gap>>,
         \/ job' = job
         \/ job.stage # "page" /\ job'.stage # "page" /\ ~Counting /\ ~Counting'
  PROVE  ShownInv'
<1>1. Counting' = Counting /\ Listed' = Listed
  BY DEF Counting, Listed
<1>2. FoundIn(Listed, counted)' <=> FoundIn(Listed, counted)
  BY <1>1 DEF FoundIn
<1>3. CountedInv'
  BY <1>1, <1>2 DEF ShownInv, CountedInv, Live, MinersOf, Miner
<1>4. NewestInv'
  BY <1>1 DEF ShownInv, NewestInv, Live, NewestOf
<1>5. PageInv'
  <2> SUFFICES ASSUME Tracking', ~mixed'
               PROVE  /\ job'.stage # "page" => Shows(applied)'
                      /\ job'.stage = "page" /\ ~job'.reorg =>
                           \E old \in Seq(Blocks) : applied' = old \o job'.blocks /\ Shows(old)'
    BY DEF PageInv
  <2>1. Tracking /\ ~mixed
    BY DEF Tracking
  <2>2. Shows(applied)' <=> Shows(applied)
    BY DEF Shows
  <2>3. \A old : Shows(old)' <=> Shows(old)
    BY DEF Shows
  <2> QED
    BY <2>1, <2>2, <2>3 DEF ShownInv, PageInv
<1>6. PagePanicsOnlyByRace'
  BY DEF ShownInv, PagePanicsOnlyByRace, Damaged
<1> QED
  BY <1>3, <1>4, <1>5, <1>6 DEF ShownInv

\* What was downloaded and counted, and is not damaged, can be shown: no
\* unwrap() fails.
LEMMA GenerateSafe ==
  ASSUME StoredInv, NEW s \in Seq(Blocks), ToSet(s) \subseteq fetched, FoundIn(s, counted),
         ToSet(FirstN(Reverse(s), PAGE)) \cap Damaged = {}
  PROVE  ~GeneratePanics(Reverse(s))
<1> DEFINE r == Reverse(s)
           f == FirstN(r, PAGE)
<1>1. r \in Seq(Blocks) /\ ToSet(r) = ToSet(s)
  BY ReverseBasics
<1>2. ToSet(f) \cap Damaged = {}
  OBVIOUS
<1> HIDE DEF r
<1>3. PAGE \in Nat
  BY ExplorerAssumption
<1>4. ToSet(f) \subseteq ToSet(r)
  BY <1>1, <1>3, FirstNBasics
<1> HIDE DEF f
<1>5. MetricsThere(r, <<>>)
  <2>1. \A i \in DOMAIN r : r[i] \in ToSet(r)
    BY <1>1, ListBasics
  <2> QED
    BY <1>1, <2>1 DEF MetricsThere, StoredInv
<1>6. DataThere(f)
  <2>1. ToSet(f) \subseteq fetched
    BY <1>1, <1>4
  <2> SUFFICES ASSUME NEW b \in ToSet(f), NEW t \in Tables
               PROVE  <<b, t>> \in stored
    BY DEF DataThere
  <2>2. <<b, t>> \in Accounted
    BY <2>1 DEF StoredInv
  <2>3. b \notin Damaged
    BY <1>2
  <2>4. b \notin unreadable
    BY <2>3 DEF Damaged
  <2>5. <<b, t>> \notin torn
    <3> SUFFICES ASSUME <<b, t>> \in torn
                 PROVE  FALSE
      OBVIOUS
    <3>1. <<b, t>>[1] = b
      OBVIOUS
    <3>2. b \in {pair[1] : pair \in torn}
      BY <3>1, Zenon
    <3> QED
      BY <2>3, <3>2 DEF Damaged
  <2> QED
    BY <2>2, <2>4, <2>5 DEF Accounted
<1>7. MinersThere(f)
  BY <1>1, <1>4 DEF MinersThere, FoundIn
<1>8. ~GeneratePanics(r)
  BY <1>5, <1>6, <1>7 DEF GeneratePanics, f
<1> QED
  BY <1>8 DEF r

LEMMA UpdateSafe ==
  ASSUME StoredInv, NEW s \in Seq(Blocks), ToSet(s) \subseteq fetched, FoundIn(s, counted),
         NEW bs \in Seq(Blocks), ToSet(bs) \subseteq ToSet(s),
         ToSet(FirstN(Reverse(bs), PAGE)) \cap unreadable = {}
  PROVE  ~UpdatePanics(bs, Reverse(s))
<1> DEFINE r == Reverse(s)
           q == Reverse(bs)
           f == FirstN(q, PAGE)
<1>1. r \in Seq(Blocks) /\ ToSet(r) = ToSet(s) /\ q \in Seq(Blocks) /\ ToSet(q) = ToSet(bs)
  BY ReverseBasics
<1>2. ToSet(f) \cap unreadable = {}
  OBVIOUS
<1> HIDE DEF r, q
<1>3. PAGE \in Nat
  BY ExplorerAssumption
<1>4. ToSet(f) \subseteq ToSet(q)
  BY <1>1, <1>3, FirstNBasics
<1> HIDE DEF f
<1>5. MetricsThere(r, bs)
  <2>1. \A i \in DOMAIN r : r[i] \in ToSet(r)
    BY <1>1, ListBasics
  <2> QED
    BY <1>1, <2>1 DEF MetricsThere, StoredInv
<1>6. MinersThere(f)
  BY <1>1, <1>4 DEF MinersThere, FoundIn
<1>7. ~UpdatePanics(bs, r)
  BY <1>5, <1>6, <1>2 DEF UpdatePanics, f, q
<1> QED
  BY <1>7 DEF r

\* The newest of the blocks at the end of a chain are among its newest.
LEMMA NewestWithin ==
  ASSUME NEW old \in Seq(Blocks), NEW bs \in Seq(Blocks)
  PROVE  ToSet(FirstN(Reverse(bs), PAGE)) \subseteq ToSet(FirstN(Reverse(old \o bs), PAGE))
<1> DEFINE r == Reverse(bs)
           o == Reverse(old)
<1>1. r \in Seq(Blocks) /\ o \in Seq(Blocks) /\ Reverse(old \o bs) = r \o o
  BY ReverseBasics, ReverseConcat
<1>2. PAGE \in Nat
  BY ExplorerAssumption
<1> HIDE DEF r, o
<1> DEFINE f == FirstN(r, PAGE)
           m == PAGE - Len(f)
           g == FirstN(FirstN(o, PAGE), m)
<1>3. f \in Seq(Blocks) /\ Len(f) <= PAGE /\ Len(f) \in Nat
  BY <1>1, <1>2, FirstNBasics
<1>4. m \in Nat
  BY <1>2, <1>3
<1>5. g \in Seq(Blocks)
  <2>1. FirstN(o, PAGE) \in Seq(Blocks)
    BY <1>1, <1>2, FirstNBasics
  <2> HIDE DEF m
  <2> QED
    BY <1>4, <2>1, FirstNBasics
<1>6. FirstN(r \o o, PAGE) = f \o g
  BY <1>1, <1>2, FirstNConcat
<1> HIDE DEF f, g
<1>7. ToSet(f \o g) = ToSet(f) \cup ToSet(g)
  BY <1>3, <1>5, ConcatBasics
<1>8. ToSet(f) \subseteq ToSet(FirstN(Reverse(old \o bs), PAGE))
  BY <1>1, <1>6, <1>7
<1> QED
  BY <1>8 DEF f, r

LEMMA ShownStart ==
  ASSUME StateInv, Start
  PROVE  ShownInv'
<1> DEFINE t == MostWork(Loaded)
           s == Filtered(PathTo[t], LoadedFetched)
<1>1. /\ phase = "down" /\ phase' = "start" /\ fetched' = LoadedFetched
      /\ applied' = s /\ Recalculate(config, applied') /\ raced' = FALSE /\ mixed' = FALSE
  BY DEF Start
<1>2. Recalculate(config, s)
  BY <1>1
<1>3. rows \subseteq Blocks /\ config \in Configs /\ newest = <<>> /\ newest \in Seq(Entries)
  BY <1>1 DEF StateInv, Typed, DiskTyped, MinersTyped, Shape
<1>4. Loaded \subseteq Blocks /\ Genesis \in Loaded
  BY <1>3, LoadedClosed
<1>5. t \in Blocks
  BY <1>4, MostWorkIn
<1> HIDE DEF t
<1>6. s \in Seq(Blocks) /\ (LoadedFetched = {} => s = <<>>)
  <2> DEFINE p == PathTo[t]
             S == LoadedFetched
             f == Filtered(p, S)
  <2>1. p \in Seq(Blocks)
    BY <1>5, PathType
  <2>2. Closed(S)
    BY <1>3, LoadedClosed
  <2>3. f \in Seq(Blocks) /\ ToSet(f) \subseteq S
    BY <1>5, <2>2, PathCut
  <2> HIDE DEF p, S, f
  <2>4. S = {} => f = <<>>
    <3> SUFFICES ASSUME f # <<>>, S = {}
                 PROVE  FALSE
      OBVIOUS
    <3>1. Len(f) \in Nat /\ Len(f) # 0 /\ \A i \in 1..Len(f) : f[i] \in ToSet(f)
      BY <2>3, ListBasics, EmptySeq
    <3>2. 1 \in 1..Len(f)
      BY <3>1
    <3> QED
      BY <2>3, <3>1, <3>2
  <2> QED
    BY <2>3, <2>4 DEF p, S, f
<1> HIDE DEF s
<1>7. /\ config' = config /\ counted' = MinersOf(config, s)
      /\ s # <<>> => newest' = NewestOf(recent')
      /\ s = <<>> => recent' = <<>> /\ newest' = newest
  BY <1>2, <1>3, <1>6, Recalculated
<1>8. Listed' = s
  BY <1>1 DEF Listed, Counting
<1>9. FoundIn(s, counted')
  <2>1. FoundIn(s, MinersOf(config, s))
    BY <1>3, <1>6, MinersFound
  <2> QED
    BY <2>1, <1>7
<1>10. CountedInv'
  <2>1. FoundIn(Listed, counted)'
    BY <1>8, <1>9 DEF FoundIn
  <2>2. counted' = MinersOf(config, Listed)'
    BY <1>7, <1>8 DEF MinersOf, Miner
  <2> QED
    BY <2>1, <2>2 DEF CountedInv
<1>11. newest' = NewestOf(recent')
  <2>1. CASE s = <<>>
    BY <2>1, <1>3, <1>7, NewestOfEmpty
  <2>2. CASE s # <<>>
    BY <2>2, <1>7
  <2> QED
    BY <2>1, <2>2
<1>12. NewestInv'
  BY <1>1, <1>3, <1>6, <1>7, <1>11 DEF NewestInv, NewestOf
<1>13. PageInv' /\ PagePanicsOnlyByRace'
  BY <1>1 DEF PageInv, Tracking, PagePanicsOnlyByRace
<1> QED
  BY <1>10, <1>12, <1>13 DEF ShownInv

\* An empty chain has an empty page.
LEMMA ShowsNothing ==
  /\ FirstN(Reverse(<<>>), PAGE) = <<>>
  /\ FirstN(TxsOf(Reverse(<<>>)), PAGE) = <<>>
BY NewestOfEmpty, ReverseEmpty, TxsOfEmpty DEF NewestOf

\* Nothing is synced exactly when nothing is fetched.
LEMMA NothingSynced ==
  ASSUME StateInv, ChainInv
  PROVE  /\ Synced \in Seq(Blocks) /\ ToSet(Synced) \subseteq fetched
         /\ Synced = <<>> <=> fetched = {}
<1>1. top \in Blocks /\ Closed(fetched) /\ fetched \subseteq Blocks
  BY DEF StateInv, Typed, ChainTyped, ChainInv, FetchedInv
<1>2. /\ Synced \in Seq(Blocks) /\ ToSet(Synced) \subseteq fetched
      /\ Genesis \in fetched => Synced # <<>>
  BY <1>1, PathCut DEF Synced, SyncedUpTo
<1>3. ASSUME fetched # {}
      PROVE  Genesis \in fetched
  <2>1. PICK b \in fetched : TRUE
    BY <1>3
  <2>2. ToSet(PathTo[b]) \subseteq fetched
    BY <1>1, <2>1, ClosedHoldsPath
  <2>3. Genesis \in ToSet(PathTo[b])
    BY <1>1, <2>1, PathClosed
  <2> QED
    BY <2>2, <2>3
<1> DEFINE s == Synced
<1>4. s \in Seq(Blocks) /\ ToSet(s) \subseteq fetched
  BY <1>2
<1> HIDE DEF s
<1>5. s # <<>> => fetched # {}
  <2>1. s # <<>> => Last(s) \in ToSet(s)
    BY <1>4, ListBasics
  <2> QED
    BY <1>4, <2>1
<1> QED
  BY <1>2, <1>3, <1>5 DEF s

LEMMA ShownStartSync ==
  ASSUME StateInv, StoredInv, ChainInv, ShownInv, StartSync
  PROVE  ShownInv'
<1>1. /\ phase = "start" /\ applied' = Synced /\ raced' = (raced \/ Synced # applied)
      /\ \/ /\ Synced # <<>> /\ GeneratePanics(Reverse(Synced)) /\ phase' = "dead"
         \/ /\ phase' = "sync"
            /\ \/ Synced = <<>> /\ UNCHANGED page
               \/ Synced # <<>> /\ Generate(Reverse(Synced))
      /\ UNCHANGED <<fetched, job, config, counted, recent, newest, mixed>>
  BY StartSyncCases
<1>2. job = NoJob /\ job'.stage = "idle" /\ page = NoPage /\ Live /\ raced \in BOOLEAN
  BY <1>1, NoJobFacts DEF StateInv, Shape, Live, Typed, HistTyped
<1>3. Synced \in Seq(Blocks) /\ ToSet(Synced) \subseteq fetched
  BY NothingSynced
<1>4. ~Counting /\ ~Counting' /\ Listed = applied /\ Listed' = Synced
  BY <1>1, <1>2 DEF Counting, Listed
<1>5. ASSUME ~raced'
      PROVE  /\ ~raced /\ Synced = applied /\ FoundIn(Synced, counted)
             /\ ~mixed => counted = MinersOf(config, Synced)
  <2>1. ~raced /\ Synced = applied
    BY <1>1, <1>5
  <2> QED
    BY <1>2, <1>4, <2>1 DEF ShownInv, CountedInv
<1>6. CountedInv'
  <2> SUFFICES ASSUME ~raced'
               PROVE  FoundIn(Listed, counted)' /\ (~mixed' => counted' = MinersOf(config, Listed)')
    BY DEF CountedInv
  <2>1. FoundIn(Listed, counted)'
    BY <1>1, <1>4, <1>5 DEF FoundIn
  <2>2. ~mixed => counted' = MinersOf(config', Listed')
    BY <1>1, <1>4, <1>5
  <2> QED
    BY <1>1, <2>1, <2>2 DEF MinersOf, Miner
<1>7. NewestInv'
  BY <1>1, <1>2, <1>4 DEF ShownInv, NewestInv, NewestOf
<1>8. PagePanicsOnlyByRace'
  <2>1. UNCHANGED <<torn, unreadable>>
    BY DEF StartSync, diskVars, failVars
  <2> SUFFICES ASSUME phase' = "dead", ~raced',
                      ToSet(FirstN(Reverse(applied'), PAGE)) \cap Damaged' = {}
               PROVE  FALSE
    BY DEF PagePanicsOnlyByRace, FirstN
  <2>2. GeneratePanics(Reverse(Synced))
    BY <1>1
  <2>3. ToSet(FirstN(Reverse(Synced), PAGE)) \cap Damaged = {}
    BY <1>1, <2>1 DEF Damaged
  <2> QED
    BY <1>3, <1>5, <2>2, <2>3, GenerateSafe
<1>9. PageInv'
  <2> SUFFICES ASSUME Tracking'
               PROVE  Shows(applied)'
    BY <1>2 DEF PageInv
  <2>1. \/ Synced = <<>> /\ UNCHANGED page
        \/ Synced # <<>> /\ Generate(Reverse(Synced))
    BY <1>1 DEF Tracking
  <2>2. CASE Synced = <<>> /\ UNCHANGED page
    BY <1>1, <1>2, <2>2, ShowsNothing, NoPageFacts DEF Shows
  <2>3. CASE Generate(Reverse(Synced))
    <3>1. Reverse(Synced) \in Seq(Blocks)
      BY <1>3, ReverseBasics
    <3>2. /\ page'.blocks = FirstN(Reverse(Synced), PAGE)
          /\ page'.txs = FirstN(TxsOf(Reverse(Synced)), PAGE)
      BY <2>3, <3>1, Generated
    <3> QED
      BY <1>1, <3>2 DEF Shows
  <2> QED
    BY <2>1, <2>2, <2>3
<1> QED
  BY <1>6, <1>7, <1>8, <1>9 DEF ShownInv

LEMMA ShownStop ==
  ASSUME Stop
  PROVE  ShownInv'
<1>1. phase' = "down" /\ newest' = <<>> /\ recent' = <<>>
  BY DEF Stop
<1>2. ~Live' /\ ~Tracking'
  BY <1>1 DEF Live, Tracking
<1> QED
  BY <1>1, <1>2, NewestOfEmpty DEF ShownInv, CountedInv, NewestInv, NewestOf, PageInv, PagePanicsOnlyByRace

LEMMA ShownReload ==
  ASSUME StateInv, ChainInv, ShownInv, NEW r \in Configs, Reload(r)
  PROVE  ShownInv'
<1>1. /\ Recalculate(r, Synced) /\ raced' = RecountDiffers
      /\ UNCHANGED <<phase, fetched, job, page, applied, mixed>>
      /\ phase \in {"start", "sync", "keepup"}
  BY DEF Reload, chainVars
<1>2. Synced \in Seq(Blocks) /\ (Synced = <<>> <=> fetched = {})
  BY NothingSynced
<1> DEFINE s == Synced
<1>3. newest \in Seq(Entries) /\ Live
  BY <1>1 DEF StateInv, Typed, MinersTyped, Live
<1>4. s \in Seq(Blocks) /\ Recalculate(r, s) /\ (s = <<>> <=> fetched = {})
  BY <1>1, <1>2
<1>5. raced' <=> Counting \/ s # applied
  BY <1>1 DEF RecountDiffers, Counting
<1> HIDE DEF s
<1>6. /\ config' = r /\ counted' = MinersOf(r, s)
      /\ s # <<>> => newest' = NewestOf(recent')
      /\ s = <<>> => recent' = <<>> /\ newest' = newest
  BY <1>3, <1>4, Recalculated
<1>7. Counting' = Counting /\ Listed' = Listed
  BY <1>1 DEF Counting, Listed
<1>8. CountedInv'
  <2> SUFFICES ASSUME ~raced'
               PROVE  FoundIn(Listed, counted)' /\ counted' = MinersOf(config, Listed)'
    BY DEF CountedInv
  <2>1. Listed' = s
    BY <1>5, <1>7 DEF Listed
  <2>2. FoundIn(s, MinersOf(r, s))
    BY <1>4, MinersFound
  <2>3. FoundIn(Listed, counted)'
    BY <1>6, <2>1, <2>2 DEF FoundIn
  <2> QED
    BY <1>6, <2>1, <2>3 DEF MinersOf, Miner
<1>9. NewestInv'
  <2>1. ~raced' => newest' = NewestOf(recent')
    <3>1. CASE s # <<>>
      BY <3>1, <1>6
    <3>2. CASE s = <<>>
      <4> SUFFICES ASSUME ~raced'
                   PROVE  newest' = NewestOf(recent')
        OBVIOUS
      <4>1. newest = <<>>
        BY <1>3, <1>4, <1>5, <3>2 DEF ShownInv, NewestInv
      <4> QED
        BY <1>6, <3>2, <4>1, NewestOfEmpty
    <3> QED
      BY <3>1, <3>2
  <2>2. fetched = {} /\ ~Counting => newest' = <<>>
    BY <1>3, <1>4, <1>6 DEF ShownInv, NewestInv
  <2> QED
    BY <1>1, <1>7, <2>1, <2>2 DEF NewestInv, NewestOf
<1>10. PageInv' /\ PagePanicsOnlyByRace'
  BY <1>1 DEF ShownInv, PageInv, Shows, Tracking, PagePanicsOnlyByRace
<1> QED
  BY <1>8, <1>9, <1>10 DEF ShownInv

LEMMA ShownSyncDone ==
  ASSUME StateInv, ShownInv, SyncDone
  PROVE  ShownInv'
<1>1. /\ phase = "sync" /\ phase' = "keepup" /\ job = NoJob
      /\ UNCHANGED <<fetched, job, config, counted, recent, newest, page, applied, raced, mixed>>
  BY DEF SyncDone, chainVars, minerVars, histVars
<1>2. job.stage = "idle"
  BY <1>1, NoJobFacts
<1>3. ~Counting /\ ~Counting' /\ Listed' = Listed
  BY <1>1, <1>2 DEF Counting, Listed
<1>4. FoundIn(Listed, counted)' <=> FoundIn(Listed, counted)
  BY <1>1, <1>3 DEF FoundIn
<1>5. CountedInv'
  BY <1>1, <1>3, <1>4 DEF ShownInv, CountedInv, Live, MinersOf, Miner
<1>6. NewestInv'
  BY <1>1, <1>3 DEF ShownInv, NewestInv, Live, NewestOf
<1>7. PageInv'
  <2> SUFFICES ASSUME ~mixed'
               PROVE  Shows(applied)'
    BY <1>1, <1>2 DEF PageInv
  <2>1. Shows(applied)
    BY <1>1, <1>2 DEF ShownInv, PageInv, Tracking
  <2> QED
    BY <1>1, <2>1 DEF Shows
<1>8. PagePanicsOnlyByRace'
  BY <1>1 DEF PagePanicsOnlyByRace
<1> QED
  BY <1>5, <1>6, <1>7, <1>8 DEF ShownInv

LEMMA ShownMarkDownloaded ==
  ASSUME StateInv, ChainInv, ShownInv, MarkDownloaded
  PROVE  ShownInv'
<1> DEFINE bs == job.blocks
<1>1. /\ job.stage = "mark" /\ fetched' = fetched \cup ToSet(bs)
      /\ job' = [job EXCEPT !.stage = IF phase = "sync" THEN "page" ELSE "count"]
      /\ applied' = IF phase = "sync" THEN PathTo[Last(bs)] ELSE applied
      /\ UNCHANGED <<phase, config, counted, recent, newest, page, raced, mixed>>
  BY DEF MarkDownloaded, minerVars
<1>2. bs \in Seq(Blocks) /\ bs # <<>> /\ Tracking /\ Last(bs) \in ToSet(bs)
  BY <1>1, LastOfJob
<1>3. /\ job'.blocks = bs /\ job'.reorg = job.reorg
      /\ job'.stage = IF phase = "sync" THEN "page" ELSE "count"
  <2> DEFINE s == IF phase = "sync" THEN "page" ELSE "count"
  <2>1. s \in Stages
    BY DEF Stages
  <2>2. job \in Jobs /\ job' = [job EXCEPT !.stage = s]
    BY <1>1 DEF StateInv, Typed, WorkTyped
  <2> HIDE DEF s
  <2>3. job'.stage = s /\ job'.blocks = job.blocks /\ job'.reorg = job.reorg
    BY <2>1, <2>2, NextStage
  <2> QED
    BY <2>3 DEF s
<1>4. fetched' # {}
  BY <1>1, <1>2
<1>5. phase = "sync" => applied' = applied \o bs
  <2> SUFFICES ASSUME phase = "sync"
               PROVE  applied' = applied \o bs
    OBVIOUS
  <2>1. applied \o bs = PathTo[Last(bs)]
    BY <1>1, BatchExtends
  <2> QED
    BY <1>1, <2>1
<1>6. ~Counting' /\ Listed' = Listed
  <2>1. ~Counting'
    BY <1>1, <1>3 DEF Counting
  <2>2. CASE phase = "sync"
    BY <1>1, <1>5, <2>1, <2>2 DEF Counting, Listed
  <2>3. CASE phase # "sync"
    BY <1>1, <2>1, <2>3 DEF Counting, Listed
  <2> QED
    BY <2>1, <2>2, <2>3
<1>7. FoundIn(Listed, counted)' <=> FoundIn(Listed, counted)
  BY <1>1, <1>6 DEF FoundIn
<1>8. CountedInv'
  BY <1>1, <1>6, <1>7 DEF ShownInv, CountedInv, Live, MinersOf, Miner
<1>9. NewestInv'
  BY <1>1, <1>4 DEF ShownInv, NewestInv, NewestOf
<1>10. PageInv'
  <2> SUFFICES ASSUME ~mixed'
               PROVE  /\ job'.stage # "page" => Shows(applied)'
                      /\ job'.stage = "page" =>
                           \E old \in Seq(Blocks) : applied' = old \o job'.blocks /\ Shows(old)'
    BY DEF PageInv
  <2>1. Shows(applied)
    BY <1>1, <1>2 DEF ShownInv, PageInv
  <2>2. CASE phase = "sync"
    <3>1. applied \in Seq(Blocks)
      BY DEF StateInv, Typed, HistTyped
    <3>2. page'.blocks = FirstN(Reverse(applied), PAGE) /\ page'.txs = FirstN(TxsOf(Reverse(applied)), PAGE)
      BY <1>1, <2>1 DEF Shows
    <3>3. job'.stage = "page" /\ applied' = applied \o job'.blocks
      BY <1>3, <1>5, <2>2
    <3> QED
      BY <3>1, <3>2, <3>3 DEF Shows
  <2>3. CASE phase # "sync"
    BY <1>1, <1>3, <2>1, <2>3 DEF Shows
  <2> QED
    BY <2>2, <2>3
<1>11. PagePanicsOnlyByRace'
  BY <1>1, <1>2 DEF PagePanicsOnlyByRace, Tracking
<1> QED
  BY <1>8, <1>9, <1>10, <1>11 DEF ShownInv

\* callback_chain_extended adds an entry for each of the new blocks.
LEMMA ExtensionFound ==
  ASSUME NEW s \in Seq(Blocks), NEW bs \in Seq(Blocks), NEW r \in Configs,
         NEW c \in Seq(Entries), FoundIn(s, c)
  PROVE  /\ FoundIn(s \o bs, c \o MinersOf(r, bs))
         /\ \A t : ToSet(t) \subseteq ToSet(s) \cup ToSet(bs) => FoundIn(t, c \o MinersOf(r, bs))
<1> DEFINE m == MinersOf(r, bs)
           cm == c \o m
<1>1. m \in Seq(Entries) /\ FoundIn(bs, m)
  BY MinersOfType, MinersFound
<1> HIDE DEF m
<1>2. /\ Len(cm) = Len(c) + Len(m) /\ cm \in Seq(Entries)
      /\ \A i \in 1..Len(c) : cm[i] = c[i]
      /\ \A i \in 1..Len(m) : cm[Len(c) + i] = m[i]
  BY <1>1, ConcatProperties
<1>3. /\ Len(c) \in Nat /\ Len(m) \in Nat /\ DOMAIN c = 1..Len(c) /\ DOMAIN m = 1..Len(m)
      /\ DOMAIN cm = 1..Len(cm)
  BY <1>1, <1>2, ListBasics
<1> HIDE DEF cm
<1>4. ASSUME NEW b \in ToSet(s) \cup ToSet(bs)
      PROVE  \E i \in DOMAIN cm : cm[i].block = b
  <2>1. CASE b \in ToSet(s)
    <3>1. PICK i \in 1..Len(c) : c[i].block = b
      BY <2>1, <1>3 DEF FoundIn
    <3>2. i \in DOMAIN cm /\ cm[i] = c[i]
      BY <1>2, <1>3
    <3> QED
      BY <3>1, <3>2
  <2>2. CASE b \in ToSet(bs)
    <3>1. PICK i \in 1..Len(m) : m[i].block = b
      BY <2>2, <1>1, <1>3 DEF FoundIn
    <3>2. Len(c) + i \in DOMAIN cm /\ cm[Len(c) + i] = m[i]
      BY <1>2, <1>3
    <3> QED
      BY <3>1, <3>2
  <2> QED
    BY <2>1, <2>2
<1>5. \A t : ToSet(t) \subseteq ToSet(s) \cup ToSet(bs) => FoundIn(t, cm)
  BY <1>4 DEF FoundIn
<1>6. ToSet(s \o bs) \subseteq ToSet(s) \cup ToSet(bs)
  BY ConcatBasics
<1> QED
  BY <1>5, <1>6 DEF cm, m

\* The chain watcher's next block: its path leads over the applied chain, and
\* continues it when no sibling of the top was applied.
LEMMA NextBlock ==
  ASSUME StateInv, ChainInv, phase = "keepup", job.stage = "count"
  PROVE  LET b == Last(job.blocks) IN
         /\ b \in Blocks /\ b \in fetched /\ job.blocks = <<b>>
         /\ ~job.reorg => ToSet(PathTo[b]) \subseteq ToSet(applied) \cup ToSet(job.blocks)
         /\ ~job.reorg /\ ~mixed => PathTo[b] = applied \o job.blocks
<1> DEFINE bs == job.blocks
           b == Last(bs)
<1>1. /\ bs \in Seq(Blocks) /\ bs # <<>> /\ b \in Blocks /\ b \in ToSet(bs)
  BY LastOfJob
<1>2. Unapplied = bs
  BY DEF Unapplied
<1>3. bs = <<b>> /\ ToSet(bs) \subseteq fetched
  BY DEF ChainInv, JobInv
<1>4. /\ applied # <<>> /\ applied = PathTo[Last(applied)] /\ applied \in Seq(Blocks)
      /\ ~job.reorg => /\ b # Genesis /\ Parent[b] \in ToSet(applied)
                       /\ ~mixed => Parent[b] = Last(applied)
  BY <1>1, <1>2 DEF ChainInv, AppliedInv, StateInv, Typed, HistTyped
<1>5. ASSUME ~job.reorg
      PROVE  ToSet(PathTo[b]) \subseteq ToSet(applied) \cup ToSet(bs)
  <2> DEFINE a == Last(applied)
             p == Parent[b]
  <2>1. a \in Blocks /\ applied = PathTo[a]
    BY <1>4, ListBasics
  <2>2. p \in Blocks /\ p \in ToSet(PathTo[a]) /\ ToSet(PathTo[b]) = ToSet(PathTo[p]) \cup {b}
    BY <1>1, <1>4, <1>5, <2>1, PathSet, TreeAssumption
  <2> HIDE DEF a, p
  <2>3. ToSet(PathTo[p]) \subseteq ToSet(PathTo[a])
    BY <2>1, <2>2, PathClosed, ClosedHoldsPath
  <2> QED
    BY <1>1, <2>1, <2>2, <2>3
<1>6. ASSUME ~job.reorg, ~mixed
      PROVE  PathTo[b] = applied \o bs
  <2>1. b # Genesis /\ Parent[b] = Last(applied)
    BY <1>4, <1>6
  <2>2. PathTo[b] = Append(PathTo[Parent[b]], b)
    BY <1>1, <2>1, PathDef
  <2>3. PathTo[b] = Append(applied, b)
    BY <1>4, <2>1, <2>2
  <2>4. \A s \in Seq(Blocks), e \in Blocks : s \o <<e>> = Append(s, e)
    OBVIOUS
  <2> QED
    BY <1>1, <1>3, <1>4, <2>3, <2>4, Zenon
<1> QED
  BY <1>1, <1>3, <1>5, <1>6

LEMMA ShownCount ==
  ASSUME StateInv, ChainInv, ShownInv, Count
  PROVE  ShownInv'
<1> DEFINE bs == job.blocks
<1>1. /\ job.stage = "count"
      /\ \/ job.reorg /\ Recalculate(config, SyncedUpTo(Last(bs))) /\ raced' = FALSE /\ mixed' = FALSE
         \/ ~job.reorg /\ Extend(bs) /\ UNCHANGED <<raced, mixed>>
      /\ job' = [job EXCEPT !.stage = IF phase = "sync" THEN "mark" ELSE "page"]
      /\ applied' = IF phase = "sync" THEN applied ELSE PathTo[Last(bs)]
      /\ UNCHANGED <<phase, fetched, page>>
  BY DEF Count, chainVars
<1>2. bs \in Seq(Blocks) /\ bs # <<>> /\ Tracking /\ Live
  BY <1>1, LastOfJob DEF Tracking, Live
<1>3. /\ job'.blocks = bs /\ job'.reorg = job.reorg
      /\ job'.stage = IF phase = "sync" THEN "mark" ELSE "page"
  <2> DEFINE s == IF phase = "sync" THEN "mark" ELSE "page"
  <2>1. s \in Stages
    BY DEF Stages
  <2>2. job \in Jobs /\ job' = [job EXCEPT !.stage = s]
    BY <1>1 DEF StateInv, Typed, WorkTyped
  <2> HIDE DEF s
  <2>3. job'.stage = s /\ job'.blocks = job.blocks /\ job'.reorg = job.reorg
    BY <2>1, <2>2, NextStage
  <2> QED
    BY <2>3 DEF s
<1>4. /\ config \in Configs /\ counted \in Seq(Entries) /\ recent \in Seq(Entries)
      /\ newest \in Seq(Entries) /\ counts = Counted(recent) /\ applied \in Seq(Blocks)
  BY DEF StateInv, Typed, MinersTyped, HistTyped
<1>5. ~Counting /\ Listed = applied
  BY <1>1 DEF Counting, Listed
<1>6. PagePanicsOnlyByRace'
  BY <1>1, <1>2 DEF PagePanicsOnlyByRace, Tracking
<1>7. CASE ~job.reorg
  <2>1. Extend(bs) /\ UNCHANGED <<raced, mixed>>
    BY <1>1, <1>7
  <2>2. /\ config' = config /\ counted' = counted \o MinersOf(config, bs)
        /\ newest' = NewestOf(recent')
    BY <1>2, <1>4, <2>1, Extended
  <2>3. /\ phase = "sync" => Counting' /\ Listed' = applied \o bs
        /\ phase = "keepup" => ~Counting' /\ Listed' = PathTo[Last(bs)] /\ fetched # {}
    <3>1. phase = "sync" => Counting' /\ Listed' = applied \o bs
      BY <1>1, <1>3 DEF Counting, Listed
    <3>2. phase = "keepup" => ~Counting' /\ Listed' = PathTo[Last(bs)]
      BY <1>1, <1>3 DEF Counting, Listed
    <3>3. phase = "keepup" => fetched # {}
      BY <1>1, NextBlock
    <3> QED
      BY <3>1, <3>2, <3>3
  <2>4. /\ ToSet(Listed') \subseteq ToSet(applied) \cup ToSet(bs)
        /\ ~mixed => Listed' = applied \o bs
    <3>1. CASE phase = "sync"
      <4>1. ToSet(applied \o bs) \subseteq ToSet(applied) \cup ToSet(bs)
        <5>1. \A s, t \in Seq(Blocks) : ToSet(s \o t) = ToSet(s) \cup ToSet(t)
          BY ConcatBasics
        <5> QED
          BY <5>1, <1>2, <1>4, Zenon
      <4> QED
        BY <2>3, <3>1, <4>1
    <3>2. CASE phase = "keepup"
      BY <1>1, <1>7, <2>3, <3>2, NextBlock
    <3> QED
      BY <1>2, <3>1, <3>2 DEF Tracking
  <2>5. CountedInv'
    <3> SUFFICES ASSUME ~raced
                 PROVE  FoundIn(Listed, counted)' /\ (~mixed => counted' = MinersOf(config, Listed)')
      BY <2>1 DEF CountedInv
    <3>1. FoundIn(applied, counted) /\ (~mixed => counted = MinersOf(config, applied))
      BY <1>2, <1>5 DEF ShownInv, CountedInv
    <3>2. FoundIn(Listed', counted')
      BY <1>2, <1>4, <2>2, <2>4, <3>1, ExtensionFound
    <3>3. ASSUME ~mixed
          PROVE  counted' = MinersOf(config', Listed')
      <4>1. MinersOf(config, applied \o bs) = MinersOf(config, applied) \o MinersOf(config, bs)
        BY <1>2, <1>4, MinersOfConcat
      <4> QED
        BY <2>2, <2>4, <3>1, <3>3, <4>1
    <3> QED
      BY <3>2, <3>3 DEF FoundIn, MinersOf, Miner
  <2>6. NewestInv'
    BY <1>1, <1>2, <2>2, <2>3 DEF NewestInv, NewestOf, Tracking
  <2>7. PageInv'
    <3> SUFFICES ASSUME ~mixed
                 PROVE  /\ job'.stage # "page" => Shows(applied)'
                        /\ job'.stage = "page" =>
                             \E old \in Seq(Blocks) : applied' = old \o job'.blocks /\ Shows(old)'
      BY <2>1 DEF PageInv
    <3>1. Shows(applied)
      BY <1>1, <1>2 DEF ShownInv, PageInv
    <3>2. page'.blocks = FirstN(Reverse(applied), PAGE) /\ page'.txs = FirstN(TxsOf(Reverse(applied)), PAGE)
      BY <1>1, <3>1 DEF Shows
    <3>3. CASE phase = "sync"
      BY <1>1, <1>3, <3>2, <3>3 DEF Shows
    <3>4. CASE phase = "keepup"
      <4>1. applied' = applied \o job'.blocks
        BY <1>1, <1>3, <1>7, <3>4, NextBlock
      <4>2. job'.stage = "page"
        BY <1>3, <3>4
      <4> QED
        BY <1>4, <3>2, <4>1, <4>2 DEF Shows
    <3> QED
      BY <1>2, <3>3, <3>4 DEF Tracking
  <2> QED
    BY <1>6, <2>5, <2>6, <2>7 DEF ShownInv
<1>8. CASE job.reorg
  <2>1. /\ Recalculate(config, SyncedUpTo(Last(bs))) /\ raced' = FALSE /\ mixed' = FALSE
    BY <1>1, <1>8
  <2>2. phase = "keepup"
    BY <1>2, <1>8 DEF Tracking, ChainInv, JobInv
  <2> DEFINE b == Last(bs)
             p == PathTo[b]
  <2>3. b \in Blocks /\ b \in fetched /\ Closed(fetched)
    BY <1>1, <2>2, NextBlock DEF ChainInv, FetchedInv
  <2>4. p \in Seq(Blocks) /\ p # <<>> /\ SyncedUpTo(b) = p
    BY <2>3, PathType, PathCut DEF SyncedUpTo
  <2>5. Recalculate(config, p) /\ applied' = p
    BY <1>1, <2>1, <2>2, <2>4
  <2> HIDE DEF p
  <2>6. config' = config /\ counted' = MinersOf(config, p) /\ newest' = NewestOf(recent')
    BY <1>4, <2>4, <2>5, Recalculated
  <2>7. ~Counting' /\ Listed' = p
    BY <1>1, <2>2, <2>5 DEF Counting, Listed
  <2>8. FoundIn(p, MinersOf(config, p))
    BY <1>4, <2>4, MinersFound
  <2>9. CountedInv'
    <3>1. FoundIn(Listed, counted)'
      BY <2>6, <2>7, <2>8 DEF FoundIn
    <3>2. counted' = MinersOf(config, Listed)'
      BY <2>6, <2>7 DEF MinersOf, Miner
    <3> QED
      BY <3>1, <3>2 DEF CountedInv
  <2>10. NewestInv'
    BY <1>1, <2>3, <2>6 DEF NewestInv, NewestOf
  <2>11. PageInv'
    BY <1>3, <1>8, <2>2 DEF PageInv
  <2> QED
    BY <1>6, <2>9, <2>10, <2>11 DEF ShownInv
<1> QED
  BY <1>7, <1>8

\* The page of a chain from the new blocks and the page before them.
LEMMA PageExtends ==
  ASSUME NEW old \in Seq(Blocks), NEW bs \in Seq(Blocks)
  PROVE  /\ FirstN(Reverse(old \o bs), PAGE)
              = FirstN(Reverse(bs), PAGE)
                  \o FirstN(FirstN(Reverse(old), PAGE), PAGE - Len(FirstN(Reverse(bs), PAGE)))
         /\ FirstN(TxsOf(Reverse(old \o bs)), PAGE)
              = FirstN(TxsOf(Reverse(bs)), PAGE)
                  \o FirstN(FirstN(TxsOf(Reverse(old)), PAGE),
                            PAGE - Len(FirstN(TxsOf(Reverse(bs)), PAGE)))
<1> DEFINE r == Reverse(bs)
           o == Reverse(old)
<1>1. r \in Seq(Blocks) /\ o \in Seq(Blocks) /\ Reverse(old \o bs) = r \o o
  BY ReverseBasics, ReverseConcat
<1>2. PAGE \in Nat
  BY ExplorerAssumption
<1> HIDE DEF r, o
<1> DEFINE tr == TxsOf(r)
           to == TxsOf(o)
<1>3. tr \in Seq(Blocks \X Nat) /\ to \in Seq(Blocks \X Nat) /\ TxsOf(r \o o) = tr \o to
  BY <1>1, TxsOfType, TxsOfConcat
<1> HIDE DEF tr, to
<1>4. FirstN(r \o o, PAGE) = FirstN(r, PAGE) \o FirstN(FirstN(o, PAGE), PAGE - Len(FirstN(r, PAGE)))
  BY <1>1, <1>2, FirstNConcat
<1>5. FirstN(tr \o to, PAGE) = FirstN(tr, PAGE) \o FirstN(FirstN(to, PAGE), PAGE - Len(FirstN(tr, PAGE)))
  BY <1>2, <1>3, FirstNConcat
<1> QED
  BY <1>1, <1>3, <1>4, <1>5, Zenon DEF r, o, tr, to

\* The applied chain ends with the blocks that are to be shown.
LEMMA AppliedEndsWith ==
  ASSUME StateInv, ChainInv, ShownInv, job.stage = "page", ~job.reorg
  PROVE  \E old \in Seq(Blocks) : applied = old \o job.blocks
<1> DEFINE bs == job.blocks
<1>1. /\ bs \in Seq(Blocks) /\ bs # <<>> /\ Tracking /\ Last(bs) \in Blocks
      /\ applied \in Seq(Blocks) /\ applied = PathTo[Last(bs)]
  BY LastOfJob DEF StateInv, Typed, HistTyped, ChainInv, JobInv
<1>2. CASE ~mixed
  BY <1>1, <1>2 DEF ShownInv, PageInv
<1>3. CASE mixed
  <2>1. bs = <<Last(bs)>>
    BY <1>1, <1>3 DEF ChainInv, FetchedInv, JobInv, Tracking
  <2> DEFINE b == Last(bs)
  <2>2. CASE b = Genesis
    <3>1. applied = <<>> \o bs /\ <<>> \in Seq(Blocks)
      BY <1>1, <2>1, <2>2, EmptyBasics, PathDef, ConcatEmptySeq
    <3> QED
      BY <3>1
  <2>3. CASE b # Genesis
    <3>1. Parent[b] \in Blocks
      BY <1>1, <2>3, TreeAssumption
    <3> HIDE DEF b
    <3>2. b \in Blocks /\ b # Genesis
      BY <1>1, <2>3 DEF b
    <3>3. PathTo[Parent[b]] \in Seq(Blocks)
      BY <3>1, PathType
    <3>4. PathTo[b] = PathTo[Parent[b]] \o <<b>> /\ PathTo[Parent[b]] \in Seq(Blocks)
      BY <3>2, <3>3, PathDef, AppendIsConcat
    <3> QED
      BY <1>1, <2>1, <3>4 DEF b
  <2> QED
    BY <2>2, <2>3
<1> QED
  BY <1>2, <1>3

LEMMA ShownShowPage ==
  ASSUME StateInv, StoredInv, ChainInv, ShownInv, ShowPage
  PROVE  ShownInv'
<1> DEFINE bs == job.blocks
           nf == Reverse(PathTo[Last(bs)])
<1>1. /\ job.stage = "page" /\ job' = NoJob
      /\ \/ /\ phase' = "dead"
            /\ \/ job.reorg /\ GeneratePanics(nf)
               \/ ~job.reorg /\ UpdatePanics(bs, nf)
         \/ /\ UNCHANGED phase
            /\ \/ job.reorg /\ Generate(nf)
               \/ ~job.reorg /\ Update(bs, nf)
      /\ UNCHANGED <<fetched, config, counted, recent, newest, applied, raced, mixed>>
  BY ShowPageCases
<1>2. bs \in Seq(Blocks) /\ Tracking /\ Live /\ applied \in Seq(Blocks) /\ job'.stage = "idle"
  BY <1>1, LastOfJob, NoJobFacts DEF Tracking, Live, StateInv, Typed, HistTyped
<1>3. /\ applied = PathTo[Last(bs)] /\ ToSet(bs) \subseteq ToSet(applied)
      /\ ToSet(applied) \subseteq fetched
  BY <1>1, <1>2 DEF ChainInv, JobInv, AppliedInv
<1>4. nf = Reverse(applied)
  BY <1>3
<1> HIDE DEF nf
<1>5. ~Counting /\ ~Counting' /\ Listed = applied /\ Listed' = applied
  BY <1>1, <1>2 DEF Counting, Listed
<1>6. CountedInv'
  <2>1. FoundIn(Listed, counted)' <=> FoundIn(Listed, counted)
    BY <1>1, <1>5 DEF FoundIn
  <2> QED
    BY <1>1, <1>2, <1>5, <2>1 DEF ShownInv, CountedInv, MinersOf, Miner
<1>7. NewestInv'
  BY <1>1, <1>2, <1>5 DEF ShownInv, NewestInv, NewestOf
<1>8. PagePanicsOnlyByRace'
  <2>1. UNCHANGED <<torn, unreadable>>
    BY DEF ShowPage, diskVars, failVars
  <2> SUFFICES ASSUME phase' = "dead", ~raced,
                      ToSet(FirstN(Reverse(applied), PAGE)) \cap Damaged = {}
               PROVE  FALSE
    BY <1>1, <2>1 DEF PagePanicsOnlyByRace, Damaged, FirstN
  <2>2. \/ job.reorg /\ GeneratePanics(Reverse(applied))
        \/ ~job.reorg /\ UpdatePanics(bs, Reverse(applied))
    BY <1>1, <1>2, <1>4 DEF Tracking
  <2>3. ASSUME ~job.reorg
        PROVE  ToSet(FirstN(Reverse(bs), PAGE)) \cap unreadable = {}
    <3>1. PICK old \in Seq(Blocks) : applied = old \o bs
      BY <1>1, <1>2, <1>3, <2>3, AppliedEndsWith
    <3>2. ToSet(FirstN(Reverse(bs), PAGE)) \subseteq ToSet(FirstN(Reverse(applied), PAGE))
      BY <1>2, <3>1, NewestWithin
    <3> QED
      BY <3>2 DEF Damaged
  <2>4. FoundIn(applied, counted)
    BY <1>2, <1>5 DEF ShownInv, CountedInv
  <2>5. ~GeneratePanics(Reverse(applied))
    BY <1>2, <1>3, <2>4, GenerateSafe
  <2>6. ~job.reorg => ~UpdatePanics(bs, Reverse(applied))
    BY <1>2, <1>3, <2>4, <2>3, UpdateSafe
  <2> QED
    BY <2>2, <2>5, <2>6
<1>9. PageInv'
  <2> SUFFICES ASSUME Tracking', ~mixed
               PROVE  Shows(applied)'
    BY <1>1, <1>2 DEF PageInv
  <2>1. \/ job.reorg /\ Generate(nf)
        \/ ~job.reorg /\ Update(bs, nf)
    BY <1>1 DEF Tracking
  <2>2. nf \in Seq(Blocks)
    BY <1>2, <1>4, ReverseBasics
  <2>3. CASE Generate(nf)
    <3>1. page'.blocks = FirstN(nf, PAGE) /\ page'.txs = FirstN(TxsOf(nf), PAGE)
      BY <2>2, <2>3, Generated
    <3> QED
      BY <1>1, <1>4, <3>1 DEF Shows
  <2>4. CASE ~job.reorg /\ Update(bs, nf)
    <3>1. PICK old \in Seq(Blocks) : applied = old \o bs /\ Shows(old)
      BY <1>1, <1>2, <2>4 DEF ShownInv, PageInv
    <3>2. /\ page'.blocks = FirstN(Reverse(bs), PAGE)
                              \o FirstN(page.blocks, PAGE - Len(FirstN(Reverse(bs), PAGE)))
          /\ page'.txs = FirstN(TxsOf(Reverse(bs)), PAGE)
                           \o FirstN(page.txs, PAGE - Len(FirstN(TxsOf(Reverse(bs)), PAGE)))
      BY <1>2, <2>2, <2>4, Updated DEF StateInv, Typed
    <3>3. page.blocks = FirstN(Reverse(old), PAGE) /\ page.txs = FirstN(TxsOf(Reverse(old)), PAGE)
      BY <3>1 DEF Shows
    <3>4. /\ page'.blocks = FirstN(Reverse(old \o bs), PAGE)
          /\ page'.txs = FirstN(TxsOf(Reverse(old \o bs)), PAGE)
      BY <1>2, <3>2, <3>3, PageExtends
    <3> QED
      BY <1>1, <3>1, <3>4 DEF Shows
  <2> QED
    BY <2>1, <2>3, <2>4
<1> QED
  BY <1>6, <1>7, <1>8, <1>9 DEF ShownInv

\* The steps that prepare or store blocks show nothing.
LEMMA ShownQuietly ==
  ASSUME StateInv, ShownInv,
         \/ FlushHeaders
         \/ \E h \in Blocks : LearnHeader(h)
         \/ StartBatch
         \/ StartApply
         \/ \E t \in Tables : Write(t)
         \/ \E t \in Tables : WriteFails(t)
         \/ StoreFlags
         \/ UNCHANGED vars
  PROVE  ShownInv'
<1>1. CASE FlushHeaders \/ (\E h \in Blocks : LearnHeader(h)) \/ UNCHANGED vars
  <2>1. /\ UNCHANGED <<phase, fetched, config, counted, recent, newest, page, applied, raced>>
        /\ mixed' = mixed /\ job' = job /\ UNCHANGED <<torn, unreadable, gap>>
    BY <1>1 DEF FlushHeaders, LearnHeader, vars, diskVars, chainVars, minerVars, histVars, failVars
  <2> QED
    BY <2>1, ShownFrame
<1>2. CASE StartBatch \/ StartApply
  <2>1. /\ UNCHANGED <<phase, fetched, config, counted, recent, newest, page, applied, raced>>
        /\ job = NoJob /\ job'.stage = "write"
    BY <1>2 DEF StartBatch, StartApply, StartJob, diskVars, chainVars, minerVars, histVars
  <2>2. (mixed => mixed') /\ phase # "dead"
    <3>1. mixed => mixed'
      BY <1>2 DEF StartBatch, StartApply, histVars
    <3>2. phase # "dead"
      BY <1>2 DEF StartBatch, StartApply
    <3> QED
      BY <3>1, <3>2
  <2>3. job.stage # "page" /\ job'.stage # "page" /\ ~Counting /\ ~Counting'
    BY <2>1, NoJobFacts DEF Counting
  <2> QED
    BY <2>1, <2>2, <2>3, ShownFrame
<1>3. CASE StoreFlags
  <2> DEFINE s == IF phase = "sync" THEN "count" ELSE "mark"
  <2>1. /\ job.stage = "write" /\ job' = [job EXCEPT !.stage = s]
        /\ UNCHANGED <<phase, fetched, config, counted, recent, newest, page, applied, raced>>
        /\ mixed' = mixed
    BY <1>3 DEF StoreFlags, chainVars, minerVars, histVars
  <2>2. s \in Stages /\ job \in Jobs
    BY DEF Stages, StateInv, Typed, WorkTyped
  <2> HIDE DEF s
  <2>3. job'.stage = s
    BY <2>1, <2>2, NextStage
  <2>4. job.stage # "page" /\ job'.stage # "page" /\ ~Counting /\ ~Counting'
    BY <2>1, <2>3 DEF Counting, s
  <2>5. phase # "dead"
    BY <2>1 DEF StateInv, Shape, Tracking
  <2> QED
    BY <2>1, <2>4, <2>5, ShownFrame
<1>4. ASSUME NEW t \in Tables, Write(t) \/ WriteFails(t)
      PROVE  ShownInv'
  <2>1. /\ EndTask(t) /\ mixed' = mixed
        /\ UNCHANGED <<phase, fetched, config, counted, recent, newest, page, applied, raced>>
    BY <1>4 DEF Write, WriteFails, diskVars, chainVars, minerVars, histVars
  <2>2. job.stage = "write" /\ job'.stage = "write"
    BY <2>1, NextEnded DEF StateInv, Typed, WorkTyped
  <2>3. job.stage # "page" /\ job'.stage # "page" /\ ~Counting /\ ~Counting' /\ phase # "dead"
    BY <2>2 DEF Counting, StateInv, Shape, Tracking
  <2> QED
    BY <2>1, <2>3, ShownFrame
<1> QED
  BY <1>1, <1>2, <1>3, <1>4

LEMMA ShownStep ==
  ASSUME StateInv, StoredInv, ChainInv, ShownInv, [Next]_vars, ~gap'
  PROVE  ShownInv'
<1>1. ~SyncGivesUp /\ ~DropBlock
  BY DEF SyncGivesUp, DropBlock
<1> QED
  BY <1>1, ShownStart, ShownStartSync, ShownStop, ShownReload, ShownSyncDone,
     ShownMarkDownloaded,
     ShownCount, ShownShowPage, ShownQuietly
     DEF Next

-----------------------------------------------------------------------------
(* The theorems.                                                            *)

\* After a block was given up, only a restart makes the rest true again.
ExplorerInv == StateInv /\ StoredInv /\ (gap \/ (ChainInv /\ ShownInv))

\* Only a stop forgets that a block was given up.
LEMMA GapStays ==
  ASSUME gap, [Next]_vars
  PROVE  gap' \/ Stop
BY DEF Next, Start, StartSync, FlushHeaders, LearnHeader, Reload, StartBatch, SyncDone,
       SyncGivesUp, StartApply, DropBlock, Write, WriteFails, StoreFlags, MarkDownloaded,
       Count, ShowPage, vars, failVars

LEMMA ExplorerAlways == Spec => []ExplorerInv
<1>1. Init => ExplorerInv
  BY StateAtFirst, StoredAtFirst, ChainAtFirst, ShownAtFirst DEF ExplorerInv
<1>2. ASSUME ExplorerInv, [Next]_vars
      PROVE  ExplorerInv'
  <2>1. StateInv /\ StoredInv /\ (gap \/ (ChainInv /\ ShownInv))
    BY <1>2 DEF ExplorerInv
  <2>2. StateInv' /\ StoredInv'
    BY <1>2, <2>1, StateStep, StoredStep
  <2>3. CASE gap'
    BY <2>2, <2>3 DEF ExplorerInv
  <2>4. CASE ~gap' /\ gap
    <3>1. Stop
      BY <1>2, <2>4, GapStays
    <3> QED
      BY <2>2, <3>1, ChainStop, ShownStop DEF ExplorerInv
  <2>5. CASE ~gap' /\ ~gap
    <3>1. ChainInv' /\ ShownInv'
      BY <1>2, <2>5, <2>1, ChainStep, ShownStep
    <3> QED
      BY <2>2, <3>1 DEF ExplorerInv
  <2> QED
    BY <2>3, <2>4, <2>5
<1> QED
  BY <1>1, <1>2, PTL DEF Spec

\* None of the unwrap()s and expect()s behind the front page fails, for any
\* tree of blocks, any rules and any moment at which the process was stopped,
\* if no block on the page was written in part or left empty and none was given
\* up since the start: what generate_frontpage_data and update_frontpage_data
\* look up was written before fetched_full was, and counted before the page is
\* made, unless the miners were counted on another chain.
THEOREM NoPanicButByRace == Spec => []PagePanicsOnlyByRace
<1>1. ExplorerInv => PagePanicsOnlyByRace
  BY DEF ExplorerInv, ShownInv, PagePanicsOnlyByRace
<1> QED
  BY <1>1, ExplorerAlways, PTL

\* Between blocks blocks_mined_by_miners lists the applied chain, each block
\* once and under the current rules, however batches, forks, failed writes,
\* reloads of miners.yml and restarts interleave, as long as no block was given
\* up.
THEOREM EveryBlockCountedOnce == Spec => []CountedOnce
<1>1. ExplorerInv => CountedOnce
  <2> SUFFICES ASSUME ExplorerInv, Idle, ~raced, ~mixed, ~gap
               PROVE  counted = MinersOf(config, applied)
    BY DEF CountedOnce, MinersOf
  <2>1. Live /\ job.stage = "idle"
    BY NoJobFacts DEF Idle, Live
  <2>2. Listed = applied
    BY <2>1 DEF Listed, Counting
  <2> QED
    BY <2>1, <2>2 DEF ExplorerInv, ShownInv, CountedInv
<1> QED
  BY <1>1, ExplorerAlways, PTL

\* The counts from which the shares of the miners are computed are those of
\* recent_blocks, through every pop, reload and reorganisation, also after a
\* block was given up; and the miners' page shows the newest of them.
THEOREM CountsAreOfRecent == Spec => []CountsMatchRecent
<1>1. ExplorerInv => CountsMatchRecent
  BY DEF ExplorerInv, StateInv, Typed, MinersTyped, Counted, ShownInv, NewestInv, CountsMatchRecent
<1> QED
  BY <1>1, ExplorerAlways, PTL

\* Between blocks the front page shows the newest blocks of the applied chain
\* and their transactions, whether it was generated at once or updated batch by
\* batch, as long as no block that replaced the top was appended to it and none
\* was given up.
THEOREM PageShowsTheChain == Spec => []PageCurrent
<1>1. ExplorerInv => PageCurrent
  <2> SUFFICES ASSUME ExplorerInv, Idle, ~mixed, ~gap
               PROVE  Shows(applied)
    BY DEF PageCurrent, Shows
  <2>1. Tracking /\ job.stage = "idle"
    BY NoJobFacts DEF Idle, Tracking
  <2> QED
    BY <2>1 DEF ExplorerInv, ShownInv, PageInv
<1> QED
  BY <1>1, ExplorerAlways, PTL
=============================================================================

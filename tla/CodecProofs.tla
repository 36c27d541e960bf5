----------------------------- MODULE CodecProofs -----------------------------
(***************************************************************************)
(* CodecFaithful for every transaction, whatever it looks like, every      *)
(* number of missing bytes and every number of values of a byte above      *)
(* four.                                                                   *)
(*                                                                         *)
(* The argument follows the bytes.  A string, an input, an output or a     *)
(* list that stands at an offset of a buffer (Has) is read back, and the   *)
(* reader stops right behind it; this is shown once for any encoding that  *)
(* leads with the right count (Varint), because the code and the peers     *)
(* differ in how they write a count of 0xFFFF (VarintsWritten).  A whole   *)
(* transaction is its parts at known offsets (IsLaid), with the outputs    *)
(* or without them (Laid).  What misses bytes is refused: a reader that    *)
(* succeeds on the beginning of a buffer reads the same in the whole of it *)
(* and ends where it ends (Begins, Same), so that success on less than a   *)
(* transaction would end before the transaction does (CutFails).  The      *)
(* sizes that the code computes are the lengths of what it writes (Sizes), *)
(* which is why the parts of a stored value do not overlap (StoredRead).   *)
(*                                                                         *)
(* BlockTreeProofs is extended for its two lemmas on natural numbers.      *)
(***************************************************************************)
EXTENDS Codec, BlockTreeProofs

\* Power satisfies its equation.
LEMMA PowerDef ==
  Power = [n \in 0 .. 8 |-> IF n = 0 THEN 1 ELSE Base * Power[n - 1]]
<1> DEFINE Step(v, i) == Base * v
           Is(n, g) == g = [i \in 0 .. n |-> IF i = 0 THEN 1 ELSE Step(g[i - 1], i)]
           T == {n \in Nat : \E g : Is(n, g)}
<1>1. 0 \in T
  <2> DEFINE g == [i \in 0 .. 0 |-> 1]
  <2>1. Is(0, g)
    OBVIOUS
  <2> QED
    BY <2>1
<1>2. ASSUME NEW n \in Nat, n \in T
      PROVE  n + 1 \in T
  <2>1. PICK g : Is(n, g)
    BY <1>2
  <2> HIDE DEF Step
  <2> DEFINE h == [i \in 0 .. (n + 1) |-> IF i <= n THEN g[i] ELSE Step(g[n], i)]
  <2>2. \A i \in 0 .. n : g[i] = IF i = 0 THEN 1 ELSE Step(g[i - 1], i)
    BY <2>1
  <2>3. ASSUME NEW i \in 0 .. (n + 1)
        PROVE  h[i] = IF i = 0 THEN 1 ELSE Step(h[i - 1], i)
    <3>1. CASE i = 0
      BY <3>1, <2>2
    <3>2. CASE i \in 1 .. n
      <4>1. i - 1 \in 0 .. n /\ i - 1 \in 0 .. (n + 1)
        BY <3>2
      <4>2. h[i] = g[i] /\ h[i - 1] = g[i - 1]
        BY <4>1, <3>2
      <4> QED
        BY <4>2, <2>2, <3>2
    <3>3. CASE i = n + 1
      <4>1. h[n] = g[n] /\ i - 1 = n /\ i # 0
        BY <3>3
      <4> QED
        BY <4>1, <3>3
    <3> QED
      BY <3>1, <3>2, <3>3
  <2>4. h = [i \in 0 .. (n + 1) |-> h[i]]
    OBVIOUS
  <2> HIDE DEF h
  <2>5. Is(n + 1, h)
    BY <2>3, <2>4
  <2> QED
    BY <2>5
<1>3. Nat \subseteq T
  <2> HIDE DEF T
  <2> QED
    BY <1>1, <1>2, NaturalsInSet
<1>4. \E g : g = [n \in 0 .. 8 |-> IF n = 0 THEN 1 ELSE Base * g[n - 1]]
  BY <1>3
<1> QED
  BY <1>4, Zenon DEF Power

LEMMA MulMonotonic ==
  ASSUME NEW a \in Nat, NEW b \in Nat, NEW c \in Nat, a <= b
  PROVE  c * a <= c * b
<1> DEFINE d == b - a
<1>1. d \in Nat /\ b = a + d
  OBVIOUS
<1> HIDE DEF d
<1>2. c * b = c * a + c * d
  BY <1>1
<1>3. c * d \in Nat /\ c * a \in Nat
  BY <1>1
<1> QED
  BY <1>2, <1>3

LEMMA Division ==
  ASSUME NEW a \in Nat, NEW b \in Nat \ {0}
  PROVE  \E q \in Nat, r \in 0 .. (b - 1) :
           q = a \div b /\ r = a % b /\ a = b * q + r
<1> DEFINE q == a \div b
           r == a % b
<1>1. q \in Int /\ r \in Int /\ 0 <= r /\ r < b /\ b > 0
  OBVIOUS
<1>2. q = a \div b /\ r = a % b
  OBVIOUS
<1> HIDE DEF q, r
<1>3. a = b * q + r
  BY <1>1, <1>2
<1>4. ASSUME q + 1 <= 0 PROVE FALSE
  <2>1. -q - 1 \in Nat
    BY <1>1, <1>4
  <2>2. b * (-q - 1) \in Nat
    BY <2>1
  <2>3. b * (-q - 1) = -(b*q) - b /\ b * q \in Int
    BY <1>1
  <2>x. a >= 0 /\ a \in Int /\ b \in Int
    OBVIOUS
  <2> DEFINE w == b * q
  <2>5. a = w + r /\ w \in Int /\ -w - b >= 0
    BY <1>3, <2>2, <2>3
  <2> HIDE DEF w
  <2> QED
    BY <1>1, <2>x, <2>5
<1>5. q \in Nat /\ r \in 0 .. (b - 1)
  BY <1>1, <1>4
<1> QED
  BY <1>2, <1>3, <1>5, Zenon

\* Quotient and remainder are determined by the two facts.
LEMMA DivisionUnique ==
  ASSUME NEW b \in Nat \ {0}, NEW q \in Nat, NEW r \in 0 .. (b - 1),
         NEW a \in Nat, a = b * q + r
  PROVE  a \div b = q /\ a % b = r
<1>1. PICK p \in Nat, s \in 0 .. (b - 1) : p = a \div b /\ s = a % b /\ a = b * p + s
  BY Division
<1>w. p \in Nat /\ s \in 0 .. (b - 1) /\ a = b * p + s
  BY <1>1
<1>2. ~(p < q)
  <2> SUFFICES ASSUME p + 1 <= q
               PROVE  FALSE
    BY <1>1
  <2>1. b * (p + 1) <= b * q
    BY <1>1, MulMonotonic
  <2>2. b * (p + 1) = b * p + b /\ b * p \in Nat /\ b * q \in Nat
    BY <1>1
  <2> QED
    BY <1>1, <2>1, <2>2
<1>3. ~(q < p)
  <2> SUFFICES ASSUME q + 1 <= p
               PROVE  FALSE
    BY <1>1
  <2>1. b * (q + 1) <= b * p
    BY <1>1, MulMonotonic
  <2>2. b * (q + 1) = b * q + b /\ b * p \in Nat /\ b * q \in Nat
    BY <1>1
  <2> QED
    BY <1>1, <2>1, <2>2
<1>4. p = q
  BY <1>1, <1>2, <1>3
<1>5. s = r
  BY <1>1, <1>4
<1> QED
  BY <1>1, <1>4, <1>5

LEMMA DivDiv ==
  ASSUME NEW a \in Nat, NEW b \in Nat \ {0}, NEW c \in Nat \ {0}
  PROVE  a \div (c * b) = (a \div b) \div c
<1>1. PICK q \in Nat, r \in 0 .. (b - 1) : q = a \div b /\ r = a % b /\ a = b * q + r
  BY Division
<1>2. PICK q2 \in Nat, r2 \in 0 .. (c - 1) : q2 = q \div c /\ r2 = q % c /\ q = c * q2 + r2
  BY Division
<1>v. a = b * q + r /\ q = c * q2 + r2
  BY <1>1, <1>2
<1>3. b * r2 \in Nat /\ b * r2 <= b * (c - 1)
  BY MulMonotonic
<1>4. b * (c - 1) = c * b - b /\ c * b \in Nat \ {0}
  OBVIOUS
<1>5. b * r2 + r \in 0 .. (c * b - 1)
  BY <1>3, <1>4
<1>6. a = (c * b) * q2 + (b * r2 + r)
  <2>1. b * q = b * (c * q2) + b * r2
    BY <1>v
  <2>2. b * (c * q2) = (c * b) * q2
    OBVIOUS
  <2> QED
    BY <1>v, <1>3, <2>1, <2>2
<1>7. a \div (c * b) = q2
  BY <1>4, <1>5, <1>6, DivisionUnique
<1> QED
  BY <1>1, <1>2, <1>7

LEMMA DivLess ==
  ASSUME NEW a \in Nat, NEW b \in Nat \ {0}, NEW p \in Nat, a < b * p
  PROVE  a \div b < p
<1>1. PICK q \in Nat, r \in 0 .. (b - 1) : q = a \div b /\ r = a % b /\ a = b * q + r
  BY Division
<1>2. ASSUME p <= q PROVE FALSE
  <2>1. b * p <= b * q /\ b * p \in Nat /\ b * q \in Nat
    BY <1>2, MulMonotonic
  <2> DEFINE w == b * q
             v == b * p
  <2>2. a < v
    OBVIOUS
  <2>3. v <= w /\ w \in Nat /\ v \in Nat
    BY <2>1
  <2>4. a = w + r
    BY <1>1
  <2> HIDE DEF w, v
  <2> QED
    BY <2>2, <2>3, <2>4
<1>3. q < p
  BY <1>2
<1> QED
  BY <1>1, <1>3

LEMMA BaseFacts == Base \in Nat /\ Base > 4 /\ Base \in Nat \ {0}
BY CodecAssumption

LEMMA PowerStep ==
  /\ Power[0] = 1
  /\ \A n \in 1 .. 8 : Power[n] = Base * Power[n - 1]
<1> DEFINE P == Power
<1>1. P = [n \in 0 .. 8 |-> IF n = 0 THEN 1 ELSE Base * P[n - 1]]
  BY PowerDef
<1> HIDE DEF P
<1>2. \A n \in 0 .. 8 : P[n] = IF n = 0 THEN 1 ELSE Base * P[n - 1]
  BY <1>1
<1>3. P[0] = 1 /\ \A n \in 1 .. 8 : P[n] = Base * P[n - 1]
  BY <1>2
<1> QED
  BY <1>3 DEF P

LEMMA PowerFacts ==
  /\ \A n \in 0 .. 8 : Power[n] \in Nat \ {0}
  /\ Power[1] = Base
  /\ Base <= Power[2] - 1 /\ Power[2] < Power[4] - 1 /\ Power[4] <= Power[8]
<1>1. ASSUME NEW a \in Nat \ {0}
      PROVE  Base * a \in Nat \ {0} /\ a + 4 <= Base * a
  <2>1. Base * a = a + (Base - 1) * a /\ Base - 1 \in Nat \ {0} /\ Base - 1 >= 4
    BY BaseFacts
  <2>2. (Base - 1) * 1 <= (Base - 1) * a
    BY <2>1, MulMonotonic
  <2> QED
    BY <2>1, <2>2
<1>2. Power[0] \in Nat \ {0}
  BY PowerStep
<1>3. ASSUME NEW n \in 1 .. 8, Power[n - 1] \in Nat \ {0}
      PROVE  Power[n] \in Nat \ {0} /\ Power[n - 1] + 4 <= Power[n]
  BY <1>1, <1>3, PowerStep
<1>4. Power[1] \in Nat \ {0} /\ Power[0] + 4 <= Power[1]
  BY <1>2, <1>3
<1>5. Power[2] \in Nat \ {0} /\ Power[1] + 4 <= Power[2]
  BY <1>4, <1>3
<1>6. Power[3] \in Nat \ {0} /\ Power[2] + 4 <= Power[3]
  BY <1>5, <1>3
<1>7. Power[4] \in Nat \ {0} /\ Power[3] + 4 <= Power[4]
  BY <1>6, <1>3
<1>8. Power[5] \in Nat \ {0} /\ Power[4] + 4 <= Power[5]
  BY <1>7, <1>3
<1>9. Power[6] \in Nat \ {0} /\ Power[5] + 4 <= Power[6]
  BY <1>8, <1>3
<1>10. Power[7] \in Nat \ {0} /\ Power[6] + 4 <= Power[7]
  BY <1>9, <1>3
<1>11. Power[8] \in Nat \ {0} /\ Power[7] + 4 <= Power[8]
  BY <1>10, <1>3
<1>12. Power[1] = Base
  BY PowerStep, BaseFacts
<1>13. \A n \in 0 .. 8 : n = 0 \/ n = 1 \/ n = 2 \/ n = 3 \/ n = 4 \/ n = 5 \/ n = 6 \/ n = 7 \/ n = 8
  OBVIOUS
<1>14. \A n \in 0 .. 8 : Power[n] \in Nat \ {0}
  BY <1>2, <1>4, <1>5, <1>6, <1>7, <1>8, <1>9, <1>10, <1>11, <1>13, Zenon
<1> QED
  BY <1>4, <1>5, <1>6, <1>7, <1>8, <1>9, <1>10, <1>11, <1>12, <1>14
\* f[n] is the value of the last n bytes.
LastBytes(f, bytes, k) ==
  f[0] = 0 /\ \A n \in 1 .. k : f[n] = bytes[k - n + 1] + Base * f[n - 1]

LEMMA FromLEDef ==
  ASSUME NEW bytes, NEW k \in Nat, Len(bytes) = k
  PROVE  \E f : FromLE(bytes) = f[k] /\ LastBytes(f, bytes, k)
<1> DEFINE Step(v, i) == bytes[k - i + 1] + Base * v
           Is(n, g) == g = [i \in 0 .. n |-> IF i = 0 THEN 0 ELSE Step(g[i - 1], i)]
           T == {n \in Nat : \E g : Is(n, g)}
<1>1. 0 \in T
  <2> DEFINE g == [i \in 0 .. 0 |-> 0]
  <2>1. Is(0, g)
    OBVIOUS
  <2> QED
    BY <2>1
<1>2. ASSUME NEW n \in Nat, n \in T
      PROVE  n + 1 \in T
  <2>1. PICK g : Is(n, g)
    BY <1>2
  <2> HIDE DEF Step
  <2> DEFINE h == [i \in 0 .. (n + 1) |-> IF i <= n THEN g[i] ELSE Step(g[n], i)]
  <2>2. \A i \in 0 .. n : g[i] = IF i = 0 THEN 0 ELSE Step(g[i - 1], i)
    BY <2>1
  <2>3. ASSUME NEW i \in 0 .. (n + 1)
        PROVE  h[i] = IF i = 0 THEN 0 ELSE Step(h[i - 1], i)
    <3>1. CASE i = 0
      BY <3>1, <2>2
    <3>2. CASE i \in 1 .. n
      <4>1. i - 1 \in 0 .. n /\ i - 1 \in 0 .. (n + 1)
        BY <3>2
      <4>2. h[i] = g[i] /\ h[i - 1] = g[i - 1]
        BY <4>1, <3>2
      <4> QED
        BY <4>2, <2>2, <3>2
    <3>3. CASE i = n + 1
      <4>1. h[n] = g[n] /\ i - 1 = n /\ i # 0
        BY <3>3
      <4> QED
        BY <4>1, <3>3
    <3> QED
      BY <3>1, <3>2, <3>3
  <2>4. h = [i \in 0 .. (n + 1) |-> h[i]]
    OBVIOUS
  <2> HIDE DEF h
  <2>5. Is(n + 1, h)
    BY <2>3, <2>4
  <2> QED
    BY <2>5
<1>3. Nat \subseteq T
  <2> HIDE DEF T
  <2> QED
    BY <1>1, <1>2, NaturalsInSet
<1>4. \E g : g = [n \in 0 .. k |-> IF n = 0 THEN 0 ELSE bytes[k - n + 1] + Base * g[n - 1]]
  BY <1>3
<1> DEFINE f == CHOOSE g : g = [n \in 0 .. k |-> IF n = 0 THEN 0 ELSE bytes[k - n + 1] + Base * g[n - 1]]
<1>5. f = [n \in 0 .. k |-> IF n = 0 THEN 0 ELSE bytes[k - n + 1] + Base * f[n - 1]]
  BY <1>4
<1>6. FromLE(bytes) = f[k]
  BY Zenon DEF FromLE
<1> HIDE DEF f
<1>7. \A n \in 0 .. k : f[n] = IF n = 0 THEN 0 ELSE bytes[k - n + 1] + Base * f[n - 1]
  BY <1>5
<1>8. f[0] = 0 /\ \A n \in 1 .. k : f[n] = bytes[k - n + 1] + Base * f[n - 1]
  BY <1>7
<1> QED
  BY <1>6, <1>8, Zenon DEF LastBytes

LEMMA ByteFacts ==
  /\ 0 \in Byte /\ 1 \in Byte /\ Base - 3 \in Byte /\ Base - 2 \in Byte /\ Base - 1 \in Byte
  /\ \A b \in Byte : b \in Nat /\ b < Base
BY BaseFacts DEF Byte

LEMMA LEFacts ==
  ASSUME NEW v \in Nat, NEW w \in 0 .. 8
  PROVE  /\ LE(v, w) \in Seq(Byte) /\ Len(LE(v, w)) = w
         /\ \A i \in 1 .. w : LE(v, w)[i] = (v \div Power[i - 1]) % Base
<1>1. ASSUME NEW i \in 1 .. w
      PROVE  (v \div Power[i - 1]) % Base \in Byte
  <2>1. Power[i - 1] \in Nat \ {0}
    BY PowerFacts
  <2>2. PICK q \in Nat, r \in 0 .. (Power[i - 1] - 1) : q = v \div Power[i - 1]
    BY <2>1, Division
  <2>3. \E p \in Nat, d \in 0 .. (Base - 1) : d = q % Base
    BY BaseFacts, Division
  <2> QED
    BY <2>2, <2>3 DEF Byte
<1>2. LE(v, w) \in [1 .. w -> Byte]
  BY <1>1 DEF LE
<1>3. \A i \in 1 .. w : LE(v, w)[i] = (v \div Power[i - 1]) % Base
  BY DEF LE
<1> HIDE DEF LE
<1> QED
  BY <1>2, <1>3

\* The value of the last bytes is what is left of the number.
LEMMA LEReads ==
  ASSUME NEW w \in 0 .. 8, NEW v \in 0 .. (Power[w] - 1)
  PROVE  FromLE(LE(v, w)) = v
<1> DEFINE bytes == LE(v, w)
           Rest(i) == v \div Power[i]
<1>v. v \in Nat /\ w \in Nat
  BY PowerFacts
<1>1. Len(bytes) = w /\ \A i \in 1 .. w : bytes[i] = Rest(i - 1) % Base
  BY <1>v, LEFacts
<1> HIDE DEF bytes
<1>2. PICK f : FromLE(bytes) = f[w] /\ LastBytes(f, bytes, w)
  BY <1>v, <1>1, FromLEDef, Zenon
<1>3. ASSUME NEW i \in 0 .. w
      PROVE  Rest(i) \in Nat
  <2>1. Power[i] \in Nat \ {0} /\ v \in Nat
    BY PowerFacts
  <2> QED
    BY <2>1, Division
<1>4. Rest(0) = v
  <2>1. v = 1 * v + 0 /\ v \in Nat
    BY PowerFacts
  <2> QED
    BY <2>1, PowerStep, DivisionUnique
<1>5. Rest(w) = 0
  <2>1. Power[w] \in Nat \ {0} /\ v \in Nat /\ v < Power[w] * 1
    BY PowerFacts
  <2>2. v \div Power[w] < 1
    BY <2>1, DivLess
  <2> QED
    BY <2>2, <1>3
<1>6. ASSUME NEW i \in 1 .. w
      PROVE  \E r \in Nat : r = Rest(i - 1) % Base /\ Rest(i - 1) = Base * Rest(i) + r
  <2>1. Power[i - 1] \in Nat \ {0} /\ v \in Nat /\ Power[i] = Base * Power[i - 1]
    BY PowerFacts, PowerStep
  <2>2. Rest(i) = Rest(i - 1) \div Base
    BY <2>1, BaseFacts, DivDiv
  <2>3. Rest(i - 1) \in Nat
    BY <1>3
  <2> HIDE DEF Rest
  <2>4. PICK q \in Nat, r \in 0 .. (Base - 1) :
          q = Rest(i - 1) \div Base /\ r = Rest(i - 1) % Base /\ Rest(i - 1) = Base * q + r
    BY <2>3, BaseFacts, Division
  <2>5. q = Rest(i)
    BY <2>2, <2>4
  <2> QED
    BY <2>4, <2>5
<1> HIDE DEF Rest
<1> DEFINE T == {n \in Nat : n <= w => f[n] = Rest(w - n)}
<1>7. 0 \in T
  BY <1>2, <1>5 DEF LastBytes
<1>8. ASSUME NEW n \in Nat, n \in T
      PROVE  n + 1 \in T
  <2> SUFFICES ASSUME n + 1 <= w
               PROVE  f[n + 1] = Rest(w - (n + 1))
    OBVIOUS
  <2>1. f[n] = Rest(w - n) /\ n + 1 \in 1 .. w /\ (n + 1) - 1 = n
    BY <1>8
  <2>2. f[n + 1] = bytes[w - (n + 1) + 1] + Base * f[n]
    BY <1>2, <2>1 DEF LastBytes
  <2> DEFINE i == w - n
  <2>3. i \in 1 .. w /\ i - 1 = w - (n + 1) /\ i = w - (n + 1) + 1
    OBVIOUS
  <2> HIDE DEF i
  <2>4. bytes[i] = Rest(i - 1) % Base /\ f[n] = Rest(i)
    BY <1>1, <2>1, <2>3 DEF i
  <2>5. PICK r \in Nat : r = Rest(i - 1) % Base /\ Rest(i - 1) = Base * Rest(i) + r
    BY <1>6, <2>3
  <2>6. f[n + 1] = r + Base * Rest(i)
    BY <2>2, <2>3, <2>4, <2>5
  <2>7. Rest(i) \in Nat
    BY <1>3, <2>3
  <2>8. Base * Rest(i) \in Nat
    BY <2>7, BaseFacts
  <2>9. f[n + 1] = Rest(i - 1)
    BY <2>5, <2>6, <2>8
  <2> QED
    BY <2>3, <2>9
<1>9. Nat \subseteq T
  <2> HIDE DEF T
  <2> QED
    BY <1>7, <1>8, NaturalsInSet
<1>10. w \in T
  BY <1>9
<1>11. f[w] = Rest(0)
  BY <1>10
<1> QED
  BY <1>2, <1>4, <1>11 DEF bytes

LEMMA FromLEType ==
  ASSUME NEW bytes \in Seq(Byte)
  PROVE  FromLE(bytes) \in Nat
<1> DEFINE k == Len(bytes)
<1>1. k \in Nat
  OBVIOUS
<1>2. PICK f : FromLE(bytes) = f[k] /\ LastBytes(f, bytes, k)
  BY <1>1, FromLEDef
<1>3. \A i \in 1 .. k : bytes[i] \in Nat
  BY ByteFacts
<1> HIDE DEF k
<1> DEFINE T == {n \in Nat : n <= k => f[n] \in Nat}
<1>4. 0 \in T
  BY <1>1, <1>2 DEF LastBytes
<1>5. ASSUME NEW n \in Nat, n \in T
      PROVE  n + 1 \in T
  <2> SUFFICES ASSUME n + 1 <= k
               PROVE  f[n + 1] \in Nat
    OBVIOUS
  <2>1. f[n] \in Nat /\ n + 1 \in 1 .. k /\ (n + 1) - 1 = n
        /\ k - (n + 1) + 1 \in 1 .. k
    BY <1>1, <1>5
  <2>2. f[n + 1] = bytes[k - (n + 1) + 1] + Base * f[n]
    BY <1>2, <2>1 DEF LastBytes
  <2>3. Base * f[n] \in Nat /\ bytes[k - (n + 1) + 1] \in Nat
    BY <1>3, <2>1, BaseFacts
  <2> QED
    BY <2>2, <2>3
<1>6. Nat \subseteq T
  <2> HIDE DEF T
  <2> QED
    BY <1>4, <1>5, NaturalsInSet
<1> QED
  BY <1>1, <1>2, <1>6

---------------------------------------------------------------------------
(* Readers find what was written. *)

\* The bytes enc stand at an offset of the buffer.
Has(buf, off, enc) ==
  off + Len(enc) <= Len(buf) /\ \A i \in 1 .. Len(enc) : buf[off + i] = enc[i]

Result(v, off) == [val |-> v, at |-> off]

LEMMA ResultFacts ==
  ASSUME NEW v, NEW off \in Nat
  PROVE  Result(v, off).val = v /\ Result(v, off).at = off /\ ~Failed(Result(v, off))
BY DEF Result, Failed

LEMMA HasParts ==
  ASSUME NEW buf \in Seq(Byte), NEW off \in Nat, NEW a \in Seq(Byte), NEW b \in Seq(Byte)
  PROVE  Has(buf, off, a \o b) <=> Has(buf, off, a) /\ Has(buf, off + Len(a), b)
<1>1. /\ Len(a) \in Nat /\ Len(b) \in Nat /\ Len(buf) \in Nat
      /\ Len(a \o b) = Len(a) + Len(b)
      /\ \A i \in 1 .. (Len(a) + Len(b)) :
           (a \o b)[i] = IF i <= Len(a) THEN a[i] ELSE b[i - Len(a)]
  BY ConcatProperties
<1> DEFINE c == a \o b
           m == Len(a)
           n == Len(b)
<1>2. /\ m \in Nat /\ n \in Nat /\ Len(c) = m + n /\ Len(a) = m /\ Len(b) = n /\ Len(buf) \in Nat
      /\ \A i \in 1 .. (m + n) : c[i] = IF i <= m THEN a[i] ELSE b[i - m]
  BY <1>1
<1> HIDE DEF c, m, n
<1>3. ASSUME Has(buf, off, c)
      PROVE  Has(buf, off, a) /\ Has(buf, off + m, b)
  <2>1. off + (m + n) <= Len(buf) /\ \A i \in 1 .. (m + n) : buf[off + i] = c[i]
    BY <1>2, <1>3 DEF Has
  <2>2. \A i \in 1 .. m : buf[off + i] = a[i]
    BY <1>2, <2>1
  <2>3. ASSUME NEW i \in 1 .. n
        PROVE  buf[(off + m) + i] = b[i]
    <3>1. m + i \in 1 .. (m + n) /\ ~(m + i <= m) /\ (m + i) - m = i /\ off + (m + i) = (off + m) + i
      BY <1>2
    <3>2. c[m + i] = b[(m + i) - m]
      BY <1>2, <3>1
    <3> QED
      BY <2>1, <3>1, <3>2
  <2>4. off + m <= Len(buf) /\ (off + m) + n <= Len(buf)
    BY <1>2, <2>1
  <2> QED
    BY <1>2, <2>2, <2>3, <2>4 DEF Has
<1>4. ASSUME Has(buf, off, a), Has(buf, off + m, b)
      PROVE  Has(buf, off, c)
  <2>1. \A i \in 1 .. m : buf[off + i] = a[i]
    BY <1>2, <1>4 DEF Has
  <2>2. (off + m) + n <= Len(buf) /\ \A i \in 1 .. n : buf[(off + m) + i] = b[i]
    BY <1>2, <1>4 DEF Has
  <2>3. ASSUME NEW i \in 1 .. (m + n)
        PROVE  buf[off + i] = c[i]
    <3>1. CASE i <= m
      BY <1>2, <2>1, <3>1
    <3>2. CASE ~(i <= m)
      <4>1. i - m \in 1 .. n /\ (off + m) + (i - m) = off + i
        BY <1>2, <3>2
      <4>2. buf[(off + m) + (i - m)] = b[i - m]
        BY <2>2, <4>1
      <4> QED
        BY <1>2, <3>2, <4>1, <4>2
    <3> QED
      BY <3>1, <3>2
  <2>4. off + (m + n) <= Len(buf)
    BY <1>2, <2>2
  <2> QED
    BY <1>2, <2>3, <2>4 DEF Has
<1> QED
  BY <1>3, <1>4 DEF c, m

LEMMA HasItself ==
  ASSUME NEW buf \in Seq(Byte)
  PROVE  Has(buf, 0, buf)
BY DEF Has

LEMMA HasTaken ==
  ASSUME NEW buf \in Seq(Byte), NEW off \in Nat, NEW enc \in Seq(Byte), Has(buf, off, enc)
  PROVE  /\ SubSeq(buf, off + 1, off + Len(enc)) = enc
         /\ Take(buf, off, Len(enc)) = Result(enc, off + Len(enc))
         /\ off + Len(enc) \in Nat /\ off + Len(enc) <= Len(buf)
<1> DEFINE n == Len(enc)
           s == SubSeq(buf, off + 1, off + n)
<1>1. n \in Nat /\ Len(buf) \in Nat /\ off + n <= Len(buf) /\ Len(enc) = n
  BY DEF Has
<1>2. \A i \in 1 .. n : buf[off + i] = enc[i]
  BY <1>1 DEF Has
<1> HIDE DEF n
<1>3. s = [i \in 1 .. n |-> buf[off + i]]
  BY <1>1, SubSeqProperties
<1>4. enc = [i \in 1 .. n |-> enc[i]]
  BY <1>1
<1>5. s = enc
  BY <1>2, <1>3, <1>4
<1>s. Take(buf, off, n) = Result(s, off + n)
  BY <1>1 DEF Take, Result
<1>6. Take(buf, off, n) = Result(enc, off + n)
  BY <1>5, <1>s
<1>7. off + n \in Nat
  BY <1>1
<1> QED
  BY <1>1, <1>5, <1>6, <1>7 DEF n

LEMMA NumberReads ==
  ASSUME NEW buf \in Seq(Byte), NEW off \in Nat, NEW w \in 0 .. 8, NEW v \in 0 .. (Power[w] - 1),
         Has(buf, off, LE(v, w))
  PROVE  get_le(buf, off, w) = Result(v, off + w) /\ off + w \in Nat
<1>v. v \in Nat
  BY PowerFacts
<1>1. LE(v, w) \in Seq(Byte) /\ Len(LE(v, w)) = w
  BY <1>v, LEFacts
<1>2. Take(buf, off, w) = Result(LE(v, w), off + w) /\ off + w \in Nat
  BY <1>1, HasTaken
<1>3. FromLE(LE(v, w)) = v
  BY LEReads
<1> QED
  BY <1>2, <1>3, ResultFacts DEF get_le, Result

\* A leading byte, and how many bytes it leads.
Leads(byte, w) ==
  /\ Base - 3 <= byte
  /\ w = IF byte = Base - 3 THEN 2 ELSE IF byte = Base - 2 THEN 4 ELSE 8

Led(enc, v, byte, w) == Leads(byte, w) /\ v < Power[w] /\ enc = <<byte>> \o LE(v, w)

\* The ways to write a number that deserialize_varint reads.
Varint(enc, v) ==
  \/ v < Base - 3 /\ enc = <<v>>
  \/ \E byte \in Byte, w \in 0 .. 8 : Led(enc, v, byte, w)

LEMMA LedFacts ==
  ASSUME NEW leader \in Byte, NEW v \in Nat, NEW w \in 0 .. 8
  PROVE  /\ <<leader>> \in Seq(Byte) /\ <<leader>> \o LE(v, w) \in Seq(Byte)
         /\ Len(<<leader>> \o LE(v, w)) = w + 1
         /\ (<<leader>> \o LE(v, w))[1] = leader
<1>1. LE(v, w) \in Seq(Byte) /\ Len(LE(v, w)) = w
  BY LEFacts
<1> DEFINE s == LE(v, w)
<1> HIDE DEF s
<1>2. s \in Seq(Byte) /\ Len(s) = w
  BY <1>1 DEF s
<1>3. <<leader>> \o s \in Seq(Byte) /\ Len(<<leader>> \o s) = w + 1 /\ (<<leader>> \o s)[1] = leader
  BY <1>2
<1> QED
  BY <1>3 DEF s

LEMMA VarintType ==
  ASSUME NEW v \in Nat, NEW enc, Varint(enc, v)
  PROVE  /\ enc \in Seq(Byte) /\ Len(enc) >= 1 /\ Len(enc) \in Nat
         /\ v # 0 => enc[1] # 0
<1>1. CASE v < Base - 3 /\ enc = <<v>>
  <2>1. v \in Byte
    BY <1>1, BaseFacts DEF Byte
  <2> QED
    BY <1>1, <2>1
<1>2. ASSUME NEW byte \in Byte, NEW w \in 0 .. 8, Led(enc, v, byte, w)
      PROVE  enc \in Seq(Byte) /\ Len(enc) >= 1 /\ Len(enc) \in Nat /\ enc[1] # 0
  <2>1. enc \in Seq(Byte) /\ Len(enc) = w + 1 /\ enc[1] = byte
    BY <1>2, LedFacts DEF Led
  <2>2. byte # 0
    BY <1>2, BaseFacts DEF Led, Leads
  <2> QED
    BY <2>1, <2>2
<1> QED
  BY <1>1, <1>2 DEF Varint

LEMMA LedReads ==
  ASSUME NEW buf \in Seq(Byte), NEW off \in Nat, NEW leader \in Byte,
         NEW w \in 0 .. 8, Leads(leader, w), NEW v \in 0 .. (Power[w] - 1),
         Has(buf, off, <<leader>> \o LE(v, w))
  PROVE  deserialize_varint(buf, off) = Result(v, off + w + 1)
<1>v. v \in Nat
  BY PowerFacts
<1>l. LE(v, w) \in Seq(Byte)
  BY <1>v, LEFacts
<1>1. <<leader>> \in Seq(Byte) /\ LE(v, w) \in Seq(Byte) /\ Len(<<leader>>) = 1
  BY <1>l
<1>2. Has(buf, off, <<leader>>) /\ Has(buf, off + 1, LE(v, w))
  BY <1>1, HasParts
<1>3. Take(buf, off, 1) = Result(<<leader>>, off + 1)
  BY <1>1, <1>2, HasTaken
<1>o. off + 1 \in Nat
  OBVIOUS
<1>4. get_le(buf, off + 1, w) = Result(v, (off + 1) + w)
  BY <1>2, <1>o, NumberReads, Zenon
<1>5. Take(buf, off, 1).val[1] = leader /\ ~Failed(Take(buf, off, 1))
  BY <1>3, ResultFacts
<1>6. deserialize_varint(buf, off) = get_le(buf, off + 1, w)
  BY <1>5, BaseFacts, ByteFacts DEF deserialize_varint, Leads
<1> QED
  BY <1>4, <1>6

LEMMA VarintReads ==
  ASSUME NEW buf \in Seq(Byte), NEW off \in Nat, NEW v \in Nat, NEW enc, Varint(enc, v),
         Has(buf, off, enc)
  PROVE  /\ deserialize_varint(buf, off) = Result(v, off + Len(enc))
         /\ off + Len(enc) \in Nat
<1>1. enc \in Seq(Byte) /\ Len(enc) \in Nat
  BY VarintType
<1>2. CASE v < Base - 3 /\ enc = <<v>>
  <2>1. Take(buf, off, 1) = Result(<<v>>, off + 1) /\ Len(enc) = 1
    BY <1>1, <1>2, HasTaken
  <2>2. Take(buf, off, 1).val[1] = v /\ ~Failed(Take(buf, off, 1))
    BY <2>1, ResultFacts
  <2> QED
    BY <1>2, <2>1, <2>2 DEF deserialize_varint, Result
<1>3. ASSUME NEW byte \in Byte, NEW w \in 0 .. 8, Led(enc, v, byte, w)
      PROVE  deserialize_varint(buf, off) = Result(v, off + Len(enc))
  <2>p. Power[w] \in Nat
    BY PowerFacts
  <2>1. v \in 0 .. (Power[w] - 1)
    BY <1>3, <2>p DEF Led
  <2>2. deserialize_varint(buf, off) = Result(v, off + w + 1)
    BY <1>3, <2>1, LedReads DEF Led
  <2>3. Len(enc) = w + 1
    BY <1>3, LedFacts DEF Led
  <2> QED
    BY <2>2, <2>3
<1>7. deserialize_varint(buf, off) = Result(v, off + Len(enc))
  BY <1>2, <1>3 DEF Varint
<1> QED
  BY <1>1, <1>7

LEMMA StringReads ==
  ASSUME NEW buf \in Seq(Byte), NEW off \in Nat, NEW s \in Seq(Byte), NEW n, Varint(n, Len(s)),
         Has(buf, off, n \o s)
  PROVE  /\ deserialize_varstr(buf, off) = Result(s, off + Len(n \o s))
         /\ off + Len(n \o s) \in Nat /\ n \o s \in Seq(Byte)
<1>1. n \in Seq(Byte) /\ Len(n) \in Nat /\ Len(s) \in Nat
  BY VarintType
<1>2. Has(buf, off, n) /\ Has(buf, off + Len(n), s)
  BY <1>1, HasParts
<1>3. deserialize_varint(buf, off) = Result(Len(s), off + Len(n)) /\ off + Len(n) \in Nat
  BY <1>1, <1>2, VarintReads
<1>4. Take(buf, off + Len(n), Len(s)) = Result(s, (off + Len(n)) + Len(s))
  BY <1>1, <1>2, <1>3, HasTaken
<1>5. deserialize_varstr(buf, off) = Take(buf, off + Len(n), Len(s))
  BY <1>3, ResultFacts DEF deserialize_varstr
<1>6. n \o s \in Seq(Byte) /\ Len(n \o s) = Len(n) + Len(s)
  BY <1>1, ConcatProperties
<1>7. (off + Len(n)) + Len(s) = off + Len(n \o s) /\ off + Len(n \o s) \in Nat
  BY <1>1, <1>6
<1> QED
  BY <1>4, <1>5, <1>6, <1>7

\* serialize_varint and the protocol write such a number; they differ where
\* the code takes the highest of two bytes to need four.
LEMMA VarintsWritten ==
  ASSUME NEW v \in 0 .. (Power[4] - 2)
  PROVE  /\ Varint(serialize_varint(v), v) /\ Varint(Canonical(v), v)
         /\ length_varint(v) = Len(serialize_varint(v))
         /\ v # Power[2] - 1 => serialize_varint(v) = Canonical(v)
         /\ v = Power[2] - 1 => Len(serialize_varint(v)) = Len(Canonical(v)) + 2
<1>1. /\ Power[2] \in Nat /\ Power[4] \in Nat /\ Base <= Power[2] - 1 /\ Power[2] < Power[4] - 1
      /\ v \in Nat /\ Base \in Nat
  BY PowerFacts, BaseFacts
<1>2. /\ Leads(Base - 3, 2) /\ Leads(Base - 2, 4) /\ 2 \in 0 .. 8 /\ 4 \in 0 .. 8
      /\ Base - 3 \in Byte /\ Base - 2 \in Byte
  BY BaseFacts, ByteFacts DEF Leads
<1>3. CASE v < Base - 3
  <2>1. serialize_varint(v) = <<v>> /\ Canonical(v) = <<v>> /\ length_varint(v) = 1
    BY <1>3 DEF serialize_varint, Canonical, length_varint
  <2>2. v # Power[2] - 1
    BY <1>1, <1>3
  <2> QED
    BY <1>3, <2>1, <2>2 DEF Varint
<1>4. CASE v >= Base - 3 /\ v < Power[2] - 1
  <2>1. ~(v < Base - 3) /\ v < Power[2] - 1 /\ v < Power[2]
    BY <1>1, <1>4
  <2>2. serialize_varint(v) = <<Base - 3>> \o LE(v, 2)
    BY <2>1 DEF serialize_varint
  <2>3. length_varint(v) = 3
    BY <2>1 DEF length_varint
  <2>4. Canonical(v) = <<Base - 3>> \o LE(v, 2)
    BY <2>1 DEF Canonical
  <2>5. serialize_varint(v) = <<Base - 3>> \o LE(v, 2) /\ length_varint(v) = 3 /\ Canonical(v) = <<Base - 3>> \o LE(v, 2)
    BY <2>2, <2>3, <2>4
  <2>6. Led(serialize_varint(v), v, Base - 3, 2)
    BY <1>1, <1>2, <1>4, <2>5 DEF Led
  <2>7. Varint(serialize_varint(v), v)
    BY <1>2, <2>6 DEF Varint
  <2>8. Len(serialize_varint(v)) = 3
    BY <1>1, <1>2, <2>5, LedFacts
  <2> QED
    BY <1>1, <1>4, <2>5, <2>7, <2>8
<1>5. CASE v = Power[2] - 1
  <2>1. ~(v < Base - 3) /\ ~(v < Power[2] - 1) /\ v < Power[4] - 1 /\ v < Power[2]
    BY <1>1, <1>5
  <2>2. serialize_varint(v) = <<Base - 2>> \o LE(v, 4)
    BY <2>1 DEF serialize_varint
  <2>3. length_varint(v) = 5
    BY <2>1 DEF length_varint
  <2>4. Canonical(v) = <<Base - 3>> \o LE(v, 2)
    BY <2>1 DEF Canonical
  <2>5. serialize_varint(v) = <<Base - 2>> \o LE(v, 4) /\ length_varint(v) = 5 /\ Canonical(v) = <<Base - 3>> \o LE(v, 2)
    BY <2>2, <2>3, <2>4
  <2>6. v < Power[2] /\ v < Power[4]
    BY <1>1, <1>5
  <2>7. Led(serialize_varint(v), v, Base - 2, 4) /\ Led(Canonical(v), v, Base - 3, 2)
    BY <1>2, <2>5, <2>6 DEF Led
  <2>8. Varint(serialize_varint(v), v) /\ Varint(Canonical(v), v)
    BY <1>2, <2>7 DEF Varint
  <2>9. Len(serialize_varint(v)) = 5 /\ Len(Canonical(v)) = 3
    BY <1>1, <1>2, <2>5, LedFacts
  <2>10. length_varint(v) = 5
    BY <2>5
  <2>11. length_varint(v) = Len(serialize_varint(v)) /\ Len(serialize_varint(v)) = Len(Canonical(v)) + 2
    BY <2>9, <2>10
  <2> QED
    BY <1>5, <2>8, <2>11, Zenon
<1>6. CASE v >= Power[2]
  <2> DEFINE enc == <<Base - 2>> \o LE(v, 4)
  <2>1. /\ ~(v < Base - 3) /\ ~(v < Power[2] - 1) /\ ~(v < Power[2]) /\ v < Power[4] - 1
    BY <1>1, <1>6
  <2>2. serialize_varint(v) = enc
    BY <2>1 DEF serialize_varint
  <2>3. length_varint(v) = 5
    BY <2>1 DEF length_varint
  <2>4. Canonical(v) = enc
    BY <2>1 DEF Canonical
  <2>5. serialize_varint(v) = enc /\ length_varint(v) = 5 /\ Canonical(v) = enc
    BY <2>2, <2>3, <2>4
  <2>6. Led(serialize_varint(v), v, Base - 2, 4)
    BY <1>1, <1>2, <1>6, <2>5 DEF Led
  <2>7. Varint(serialize_varint(v), v)
    BY <1>2, <2>6 DEF Varint
  <2>8. Len(serialize_varint(v)) = 5
    BY <1>1, <1>2, <2>5, LedFacts
  <2> QED
    BY <1>1, <1>6, <2>5, <2>7, <2>8
<1> QED
  BY <1>1, <1>3, <1>4, <1>5, <1>6

---------------------------------------------------------------------------
(* Sums, lists of encodings, and readers of lists. *)

Sums(f, numbers, k) ==
  f[0] = 0 /\ \A n \in 1 .. k : f[n] = f[n - 1] + numbers[n]

LEMMA TotalDef ==
  ASSUME NEW numbers, NEW k \in Nat, Len(numbers) = k
  PROVE  \E f : Total(numbers) = f[k] /\ Sums(f, numbers, k)
<1> DEFINE Step(v, i) == v + numbers[i]
           Is(n, g) == g = [i \in 0 .. n |-> IF i = 0 THEN 0 ELSE Step(g[i - 1], i)]
           T == {n \in Nat : \E g : Is(n, g)}
<1>1. 0 \in T
  <2> DEFINE g == [i \in 0 .. 0 |-> 0]
  <2>1. Is(0, g)
    OBVIOUS
  <2> QED
    BY <2>1
<1>2. ASSUME NEW n \in Nat, n \in T
      PROVE  n + 1 \in T
  <2>1. PICK g : Is(n, g)
    BY <1>2
  <2> HIDE DEF Step
  <2> DEFINE h == [i \in 0 .. (n + 1) |-> IF i <= n THEN g[i] ELSE Step(g[n], i)]
  <2>2. \A i \in 0 .. n : g[i] = IF i = 0 THEN 0 ELSE Step(g[i - 1], i)
    BY <2>1
  <2>3. ASSUME NEW i \in 0 .. (n + 1)
        PROVE  h[i] = IF i = 0 THEN 0 ELSE Step(h[i - 1], i)
    <3>1. CASE i = 0
      BY <3>1, <2>2
    <3>2. CASE i \in 1 .. n
      <4>1. i - 1 \in 0 .. n /\ i - 1 \in 0 .. (n + 1)
        BY <3>2
      <4>2. h[i] = g[i] /\ h[i - 1] = g[i - 1]
        BY <4>1, <3>2
      <4> QED
        BY <4>2, <2>2, <3>2
    <3>3. CASE i = n + 1
      <4>1. h[n] = g[n] /\ i - 1 = n /\ i # 0
        BY <3>3
      <4> QED
        BY <4>1, <3>3
    <3> QED
      BY <3>1, <3>2, <3>3
  <2>4. h = [i \in 0 .. (n + 1) |-> h[i]]
    OBVIOUS
  <2> HIDE DEF h
  <2>5. Is(n + 1, h)
    BY <2>3, <2>4
  <2> QED
    BY <2>5
<1>3. Nat \subseteq T
  <2> HIDE DEF T
  <2> QED
    BY <1>1, <1>2, NaturalsInSet
<1>4. \E g : g = [n \in 0 .. k |-> IF n = 0 THEN 0 ELSE g[n - 1] + numbers[n]]
  BY <1>3
<1> DEFINE f == CHOOSE g : g = [n \in 0 .. k |-> IF n = 0 THEN 0 ELSE g[n - 1] + numbers[n]]
<1>5. f = [n \in 0 .. k |-> IF n = 0 THEN 0 ELSE f[n - 1] + numbers[n]]
  BY <1>4
<1>6. Total(numbers) = f[k]
  BY Zenon DEF Total
<1> HIDE DEF f
<1>7. \A n \in 0 .. k : f[n] = IF n = 0 THEN 0 ELSE f[n - 1] + numbers[n]
  BY <1>5
<1>8. f[0] = 0 /\ \A n \in 1 .. k : f[n] = f[n - 1] + numbers[n]
  BY <1>7
<1> QED
  BY <1>6, <1>8, Zenon DEF Sums

Reads(f, start, item, k) ==
  f[0] = [val |-> <<>>, at |-> start] /\ \A n \in 1 .. k : f[n] = Extended(f[n - 1], item)

LEMMA RepeatDef ==
  ASSUME NEW start, NEW item, NEW k \in Nat
  PROVE  \E f : Repeat(k, start, item) = f[k] /\ Reads(f, start, item, k)
<1> DEFINE Step(v, i) == Extended(v, item)
           Is(n, g) == g = [i \in 0 .. n |-> IF i = 0 THEN [val |-> <<>>, at |-> start] ELSE Step(g[i - 1], i)]
           T == {n \in Nat : \E g : Is(n, g)}
<1>1. 0 \in T
  <2> DEFINE g == [i \in 0 .. 0 |-> [val |-> <<>>, at |-> start]]
  <2>1. Is(0, g)
    OBVIOUS
  <2> QED
    BY <2>1
<1>2. ASSUME NEW n \in Nat, n \in T
      PROVE  n + 1 \in T
  <2>1. PICK g : Is(n, g)
    BY <1>2
  <2> HIDE DEF Step
  <2> DEFINE h == [i \in 0 .. (n + 1) |-> IF i <= n THEN g[i] ELSE Step(g[n], i)]
  <2>2. \A i \in 0 .. n : g[i] = IF i = 0 THEN [val |-> <<>>, at |-> start] ELSE Step(g[i - 1], i)
    BY <2>1
  <2>3. ASSUME NEW i \in 0 .. (n + 1)
        PROVE  h[i] = IF i = 0 THEN [val |-> <<>>, at |-> start] ELSE Step(h[i - 1], i)
    <3>1. CASE i = 0
      BY <3>1, <2>2
    <3>2. CASE i \in 1 .. n
      <4>1. i - 1 \in 0 .. n /\ i - 1 \in 0 .. (n + 1)
        BY <3>2
      <4>2. h[i] = g[i] /\ h[i - 1] = g[i - 1]
        BY <4>1, <3>2
      <4> QED
        BY <4>2, <2>2, <3>2
    <3>3. CASE i = n + 1
      <4>1. h[n] = g[n] /\ i - 1 = n /\ i # 0
        BY <3>3
      <4> QED
        BY <4>1, <3>3
    <3> QED
      BY <3>1, <3>2, <3>3
  <2>4. h = [i \in 0 .. (n + 1) |-> h[i]]
    OBVIOUS
  <2> HIDE DEF h
  <2>5. Is(n + 1, h)
    BY <2>3, <2>4
  <2> QED
    BY <2>5
<1>3. Nat \subseteq T
  <2> HIDE DEF T
  <2> QED
    BY <1>1, <1>2, NaturalsInSet
<1>4. \E g : g = [n \in 0 .. k |-> IF n = 0 THEN [val |-> <<>>, at |-> start] ELSE Extended(g[n - 1], item)]
  BY <1>3
<1> DEFINE f == CHOOSE g : g = [n \in 0 .. k |-> IF n = 0 THEN [val |-> <<>>, at |-> start] ELSE Extended(g[n - 1], item)]
<1>5. f = [n \in 0 .. k |-> IF n = 0 THEN [val |-> <<>>, at |-> start] ELSE Extended(f[n - 1], item)]
  BY <1>4
<1>6. Repeat(k, start, item) = f[k]
  BY Zenon DEF Repeat
<1> HIDE DEF f
<1>7. \A n \in 0 .. k : f[n] = IF n = 0 THEN [val |-> <<>>, at |-> start] ELSE Extended(f[n - 1], item)
  BY <1>5
<1>8. f[0] = [val |-> <<>>, at |-> start] /\ \A n \in 1 .. k : f[n] = Extended(f[n - 1], item)
  BY <1>7
<1> QED
  BY <1>6, <1>8, Zenon DEF Reads

Concatenates(f, s, k) ==
  f[0] = <<>> /\ \A n \in 1 .. k : f[n] = f[n - 1] \o s[n]

LEMMA FlattenDef ==
  ASSUME NEW U, NEW s \in Seq(Seq(U))
  PROVE  \E f : FlattenSeq(s) = f[Len(s)] /\ Concatenates(f, s, Len(s))
<1> DEFINE k == Len(s)
           Step(v, i) == IF i = 1 THEN s[i] ELSE v \o s[i]
           Is(n, g) == g = [i \in 1 .. n |-> Step(g[i - 1], i)]
           T == {n \in Nat : \E g : Is(n, g)}
<1>1. 0 \in T
  <2> DEFINE g == [i \in 1 .. 0 |-> <<>>]
  <2>1. Is(0, g)
    OBVIOUS
  <2> QED
    BY <2>1
<1>2. ASSUME NEW n \in Nat, n \in T
      PROVE  n + 1 \in T
  <2>1. PICK g : Is(n, g)
    BY <1>2
  <2>s. \A v, w : Step(v, 1) = Step(w, 1)
    OBVIOUS
  <2> HIDE DEF Step
  <2> DEFINE h == [i \in 1 .. (n + 1) |-> IF i <= n THEN g[i] ELSE Step(g[n], i)]
  <2>2. \A i \in 1 .. n : g[i] = Step(g[i - 1], i)
    BY <2>1
  <2>3. ASSUME NEW i \in 1 .. (n + 1)
        PROVE  h[i] = Step(h[i - 1], i)
    <3>1. CASE i = 1
      BY <3>1, <2>2, <2>s
    <3>2. CASE i \in 2 .. n
      <4>1. i - 1 \in 1 .. n /\ i - 1 \in 1 .. (n + 1)
        BY <3>2
      <4>2. h[i] = g[i] /\ h[i - 1] = g[i - 1]
        BY <4>1, <3>2
      <4> QED
        BY <4>2, <2>2, <3>2
    <3>3. CASE i = n + 1 /\ i # 1
      <4>1. h[n] = g[n] /\ i - 1 = n
        BY <3>3
      <4> QED
        BY <4>1, <3>3
    <3> QED
      BY <3>1, <3>2, <3>3
  <2>4. h = [i \in 1 .. (n + 1) |-> h[i]]
    OBVIOUS
  <2> HIDE DEF h
  <2>5. Is(n + 1, h)
    BY <2>3, <2>4
  <2> QED
    BY <2>5
<1>3. Nat \subseteq T
  <2> HIDE DEF T
  <2> QED
    BY <1>1, <1>2, NaturalsInSet
<1>k. k \in Nat /\ Len(s) = k
  OBVIOUS
<1>4. \E g : g = [n \in 1 .. k |-> IF n = 1 THEN s[n] ELSE g[n - 1] \o s[n]]
  <2> HIDE DEF k
  <2> QED
    BY <1>3, <1>k
<1> DEFINE g == CHOOSE g : g = [n \in 1 .. k |-> IF n = 1 THEN s[n] ELSE g[n - 1] \o s[n]]
<1>5. g = [n \in 1 .. k |-> IF n = 1 THEN s[n] ELSE g[n - 1] \o s[n]]
  BY <1>4
<1>6. FlattenSeq(s) = IF k = 0 THEN s ELSE g[k]
  BY Zenon DEF FlattenSeq
<1> HIDE DEF g, k
<1>7. \A n \in 1 .. k : g[n] = IF n = 1 THEN s[n] ELSE g[n - 1] \o s[n]
  BY <1>5
<1> DEFINE f == [n \in 0 .. k |-> IF n = 0 THEN <<>> ELSE g[n]]
<1>8. f[0] = <<>> /\ \A n \in 1 .. k : f[n] = g[n]
  BY <1>k
<1>9. FlattenSeq(s) = f[k]
  <2>1. CASE k = 0
    BY <1>6, <1>8, <1>k, <2>1, EmptySeq
  <2>2. CASE k # 0
    BY <1>6, <1>8, <1>k, <2>2
  <2> QED
    BY <2>1, <2>2
<1> HIDE DEF f
<1>10. ASSUME NEW n \in 1 .. k
       PROVE  f[n] = f[n - 1] \o s[n]
  <2>1. s[n] \in Seq(U)
    BY <1>k
  <2>2. CASE n = 1
    <3>1. f[1] = s[1] /\ f[0] = <<>>
      BY <1>7, <1>8, <1>k, <2>2
    <3>2. <<>> \o s[1] = s[1]
      BY <2>1, <2>2, ConcatEmptySeq
    <3>3. n - 1 = 0
      BY <2>2
    <3> QED
      BY <2>2, <3>1, <3>2, <3>3, Zenon
  <2>3. CASE n # 1
    <3>1. n - 1 \in 1 .. k
      BY <1>k, <2>3
    <3> QED
      BY <1>7, <1>8, <2>3, <3>1
  <2> QED
    BY <2>2, <2>3
<1> QED
  BY <1>8, <1>9, <1>10, Zenon DEF Concatenates, k

LEMMA TotalType ==
  ASSUME NEW a \in Seq(Nat)
  PROVE  Total(a) \in Nat
<1> DEFINE k == Len(a)
<1>1. k \in Nat /\ Len(a) = k /\ \A i \in 1 .. k : a[i] \in Nat
  OBVIOUS
<1> HIDE DEF k
<1>2. PICK f : Total(a) = f[k] /\ Sums(f, a, k)
  BY <1>1, TotalDef
<1> DEFINE T == {n \in Nat : n <= k => f[n] \in Nat}
<1>3. 0 \in T
  BY <1>2 DEF Sums
<1>4. ASSUME NEW n \in Nat, n \in T
      PROVE  n + 1 \in T
  <2> SUFFICES ASSUME n + 1 <= k
               PROVE  f[n + 1] \in Nat
    OBVIOUS
  <2>1. f[n] \in Nat /\ n + 1 \in 1 .. k /\ (n + 1) - 1 = n
    BY <1>1, <1>4
  <2>2. f[n + 1] = f[n] + a[n + 1]
    BY <1>2, <2>1 DEF Sums
  <2> QED
    BY <1>1, <2>1, <2>2
<1>5. Nat \subseteq T
  <2> HIDE DEF T
  <2> QED
    BY <1>3, <1>4, NaturalsInSet
<1> QED
  BY <1>1, <1>2, <1>5

LEMMA TotalConstant ==
  ASSUME NEW k \in Nat, NEW c \in Nat
  PROVE  Total([i \in 1 .. k |-> c]) = c * k
<1> DEFINE a == [i \in 1 .. k |-> c]
<1>1. Len(a) = k /\ \A i \in 1 .. k : a[i] = c
  OBVIOUS
<1> HIDE DEF a
<1>2. PICK f : Total(a) = f[k] /\ Sums(f, a, k)
  BY <1>1, TotalDef
<1> DEFINE T == {n \in Nat : n <= k => f[n] = c * n}
<1>3. 0 \in T
  BY <1>2 DEF Sums
<1>4. ASSUME NEW n \in Nat, n \in T
      PROVE  n + 1 \in T
  <2> SUFFICES ASSUME n + 1 <= k
               PROVE  f[n + 1] = c * (n + 1)
    OBVIOUS
  <2>1. f[n] = c * n /\ n + 1 \in 1 .. k /\ (n + 1) - 1 = n
    BY <1>4
  <2>2. f[n + 1] = f[n] + a[n + 1] /\ a[n + 1] = c
    BY <1>1, <1>2, <2>1 DEF Sums
  <2>3. c * (n + 1) = c * n + c
    OBVIOUS
  <2> QED
    BY <2>1, <2>2, <2>3
<1>5. Nat \subseteq T
  <2> HIDE DEF T
  <2> QED
    BY <1>3, <1>4, NaturalsInSet
<1> QED
  BY <1>2, <1>5 DEF a

LEMMA TotalsCompared ==
  ASSUME NEW k \in Nat, NEW a \in Seq(Nat), NEW b \in Seq(Nat), Len(a) = k, Len(b) = k,
         \A i \in 1 .. k : b[i] <= a[i]
  PROVE  Total(b) <= Total(a) /\ (Total(a) = Total(b) <=> \A i \in 1 .. k : a[i] = b[i])
<1>1. \A i \in 1 .. k : a[i] \in Nat /\ b[i] \in Nat /\ b[i] <= a[i]
  OBVIOUS
<1>2. PICK f : Total(a) = f[k] /\ Sums(f, a, k)
  BY TotalDef
<1>3. PICK g : Total(b) = g[k] /\ Sums(g, b, k)
  BY TotalDef
<1> DEFINE Good(n) == /\ f[n] \in Nat /\ g[n] \in Nat /\ g[n] <= f[n]
                      /\ f[n] = g[n] <=> \A i \in 1 .. n : a[i] = b[i]
           T == {n \in Nat : n <= k => Good(n)}
<1>4. 0 \in T
  BY <1>2, <1>3 DEF Sums
<1>5. ASSUME NEW n \in Nat, n \in T
      PROVE  n + 1 \in T
  <2> SUFFICES ASSUME n + 1 <= k
               PROVE  Good(n + 1)
    OBVIOUS
  <2>1. Good(n) /\ n + 1 \in 1 .. k /\ (n + 1) - 1 = n
    BY <1>5
  <2>2. f[n + 1] = f[n] + a[n + 1] /\ g[n + 1] = g[n] + b[n + 1]
    BY <1>2, <1>3, <2>1 DEF Sums
  <2>3. a[n + 1] \in Nat /\ b[n + 1] \in Nat /\ b[n + 1] <= a[n + 1]
    BY <1>1, <2>1
  <2>6. f[n] \in Nat /\ g[n] \in Nat /\ g[n] <= f[n]
    BY <2>1
  <2>4. /\ f[n + 1] \in Nat /\ g[n + 1] \in Nat /\ g[n + 1] <= f[n + 1]
        /\ f[n + 1] = g[n + 1] => f[n] = g[n] /\ a[n + 1] = b[n + 1]
        /\ f[n] = g[n] /\ a[n + 1] = b[n + 1] => f[n + 1] = g[n + 1]
    BY <2>2, <2>3, <2>6
  <2>5. (\A i \in 1 .. (n + 1) : a[i] = b[i]) <=> (\A i \in 1 .. n : a[i] = b[i]) /\ a[n + 1] = b[n + 1]
    <3>1. \A i \in 1 .. (n + 1) : i \in 1 .. n \/ i = n + 1
      OBVIOUS
    <3>2. n + 1 \in 1 .. (n + 1) /\ \A i \in 1 .. n : i \in 1 .. (n + 1)
      OBVIOUS
    <3> QED
      BY <3>1, <3>2, Zenon
  <2> QED
    BY <2>1, <2>4, <2>5, Zenon
<1>6. Nat \subseteq T
  <2> HIDE DEF T
  <2> QED
    BY <1>4, <1>5, NaturalsInSet
<1>7. Good(k)
  BY <1>6
<1> QED
  BY <1>2, <1>3, <1>7

LEMMA FlattenFacts ==
  ASSUME NEW s \in Seq(Seq(Byte))
  PROVE  /\ FlattenSeq(s) \in Seq(Byte)
         /\ Len(FlattenSeq(s)) = Total([i \in 1 .. Len(s) |-> Len(s[i])])
<1> DEFINE k == Len(s)
           a == [i \in 1 .. k |-> Len(s[i])]
<1>1. k \in Nat /\ Len(s) = k /\ \A i \in 1 .. k : s[i] \in Seq(Byte) /\ Len(s[i]) \in Nat
  OBVIOUS
<1>2. Len(a) = k /\ \A i \in 1 .. k : a[i] = Len(s[i])
  BY <1>1
<1>3. PICK f : FlattenSeq(s) = f[k] /\ Concatenates(f, s, k)
  BY FlattenDef
<1> HIDE DEF k, a
<1>4. PICK g : Total(a) = g[k] /\ Sums(g, a, k)
  BY <1>1, <1>2, TotalDef
<1> DEFINE T == {n \in Nat : n <= k => f[n] \in Seq(Byte) /\ Len(f[n]) = g[n]}
<1>5. 0 \in T
  BY <1>3, <1>4, EmptySeq DEF Concatenates, Sums
<1>6. ASSUME NEW n \in Nat, n \in T
      PROVE  n + 1 \in T
  <2> SUFFICES ASSUME n + 1 <= k
               PROVE  f[n + 1] \in Seq(Byte) /\ Len(f[n + 1]) = g[n + 1]
    OBVIOUS
  <2>1. f[n] \in Seq(Byte) /\ Len(f[n]) = g[n] /\ n + 1 \in 1 .. k /\ (n + 1) - 1 = n
    BY <1>1, <1>6
  <2>2. f[n + 1] = f[n] \o s[n + 1]
    BY <1>3, <2>1 DEF Concatenates
  <2>3. g[n + 1] = g[n] + Len(s[n + 1]) /\ s[n + 1] \in Seq(Byte)
    BY <1>1, <1>2, <1>4, <2>1 DEF Sums
  <2>4. f[n] \o s[n + 1] \in Seq(Byte) /\ Len(f[n] \o s[n + 1]) = Len(f[n]) + Len(s[n + 1])
    BY <2>1, <2>3, ConcatProperties
  <2> QED
    BY <2>1, <2>2, <2>3, <2>4
<1>7. Nat \subseteq T
  <2> HIDE DEF T
  <2> QED
    BY <1>5, <1>6, NaturalsInSet
<1>8. f[k] \in Seq(Byte) /\ Len(f[k]) = g[k]
  BY <1>1, <1>7
<1> QED
  BY <1>3, <1>4, <1>8 DEF a, k

LEMMA AppendOne ==
  ASSUME NEW U, NEW s \in Seq(U), NEW n \in Nat, n + 1 <= Len(s)
  PROVE  Append([i \in 1 .. n |-> s[i]], s[n + 1]) = [i \in 1 .. (n + 1) |-> s[i]]
<1> DEFINE t == [i \in 1 .. n |-> s[i]]
           u == Append(t, s[n + 1])
<1>1. \A i \in 1 .. (n + 1) : s[i] \in U
  OBVIOUS
<1>2. t \in Seq(U) /\ Len(t) = n /\ \A i \in 1 .. n : t[i] = s[i]
  BY <1>1
<1>3. s[n + 1] \in U
  BY <1>1
<1> HIDE DEF t
<1>4. /\ u \in Seq(U) /\ Len(u) = n + 1
      /\ \A i \in 1 .. n : u[i] = t[i]
      /\ u[n + 1] = s[n + 1]
  BY <1>2, <1>3, AppendProperties
<1> HIDE DEF u
<1>5. u = [i \in 1 .. (n + 1) |-> u[i]]
  BY <1>4
<1>6. \A i \in 1 .. (n + 1) : u[i] = s[i]
  BY <1>2, <1>4
<1>7. u = [i \in 1 .. (n + 1) |-> s[i]]
  BY <1>5, <1>6
<1> QED
  BY <1>7 DEF u, t

\* A reader of one item finds each of them wherever its bytes stand.
ItemsRead(buf, item, s, parts) ==
  \A i \in 1 .. Len(s) : \A o \in Nat :
    Has(buf, o, parts[i]) => item[o] = Result(s[i], o + Len(parts[i]))

LEMMA RepeatReads ==
  ASSUME NEW buf \in Seq(Byte), NEW off \in Nat, NEW U, NEW s \in Seq(U), NEW item,
         NEW parts \in Seq(Seq(Byte)), Len(parts) = Len(s), ItemsRead(buf, item, s, parts),
         Has(buf, off, FlattenSeq(parts))
  PROVE  /\ Repeat(Len(s), off, item) = Result(s, off + Len(FlattenSeq(parts)))
         /\ off + Len(FlattenSeq(parts)) \in Nat
<1> DEFINE k == Len(s)
<1>1. /\ k \in Nat /\ Len(s) = k /\ Len(parts) = k
      /\ \A i \in 1 .. k : parts[i] \in Seq(Byte) /\ Len(parts[i]) \in Nat
  OBVIOUS
<1> HIDE DEF k
<1>2. PICK f : FlattenSeq(parts) = f[k] /\ Concatenates(f, parts, k)
  BY <1>1, FlattenDef
<1>3. PICK g : Repeat(k, off, item) = g[k] /\ Reads(g, off, item, k)
  BY <1>1, RepeatDef
<1>4. /\ f[0] = <<>> /\ \A n \in 0 .. (k - 1) : f[n + 1] = f[n] \o parts[n + 1]
  <2>1. \A n \in 0 .. (k - 1) : n + 1 \in 1 .. k /\ (n + 1) - 1 = n
    BY <1>1
  <2> QED
    BY <1>2, <2>1 DEF Concatenates
<1> DEFINE B == {n \in Nat : n <= k => f[n] \in Seq(Byte)}
<1>5. 0 \in B
  BY <1>4, EmptySeq
<1>6. ASSUME NEW n \in Nat, n \in B
      PROVE  n + 1 \in B
  <2> SUFFICES ASSUME n + 1 <= k
               PROVE  f[n + 1] \in Seq(Byte)
    OBVIOUS
  <2>1. f[n] \in Seq(Byte) /\ n \in 0 .. (k - 1) /\ n + 1 \in 1 .. k
    BY <1>1, <1>6
  <2> QED
    BY <1>1, <1>4, <2>1, ConcatProperties
<1>7. Nat \subseteq B
  <2> HIDE DEF B
  <2> QED
    BY <1>5, <1>6, NaturalsInSet
<1>8. \A n \in 0 .. k : f[n] \in Seq(Byte) /\ Len(f[n]) \in Nat
  BY <1>1, <1>7
<1> DEFINE D == {m \in Nat : m <= k => Has(buf, off, f[k - m])}
<1>9. 0 \in D
  <2>1. k - 0 = k
    BY <1>1
  <2> QED
    BY <1>2, <2>1
<1>10. ASSUME NEW m \in Nat, m \in D
       PROVE  m + 1 \in D
  <2> SUFFICES ASSUME m + 1 <= k
               PROVE  Has(buf, off, f[k - (m + 1)])
    OBVIOUS
  <2> DEFINE n == k - (m + 1)
  <2>1. n \in 0 .. (k - 1) /\ n \in 0 .. k /\ n + 1 \in 1 .. k /\ k - m = n + 1
    BY <1>1
  <2>2. Has(buf, off, f[n + 1])
    <3>m. m <= k
      BY <1>1
    <3>1. Has(buf, off, f[k - m])
      BY <1>10, <3>m
    <3> HIDE DEF n
    <3> QED
      BY <2>1, <3>1
  <2> HIDE DEF n
  <2>3. Has(buf, off, f[n] \o parts[n + 1])
    BY <1>4, <2>1, <2>2
  <2>4. f[n] \in Seq(Byte) /\ parts[n + 1] \in Seq(Byte)
    BY <1>1, <1>8, <2>1
  <2>5. Has(buf, off, f[n])
    BY <2>3, <2>4, HasParts
  <2> QED
    BY <2>5 DEF n
<1>11. Nat \subseteq D
  <2> HIDE DEF D
  <2> QED
    BY <1>9, <1>10, NaturalsInSet
<1>12. ASSUME NEW n \in 0 .. k
       PROVE  Has(buf, off, f[n])
  <2>1. k - n \in Nat /\ k - n <= k /\ k - (k - n) = n
    BY <1>1
  <2>2. k - n \in D
    BY <1>11, <2>1
  <2>3. Has(buf, off, f[k - (k - n)])
    BY <2>1, <2>2
  <2> QED
    BY <2>1, <2>3
<1> DEFINE T == {n \in Nat : n <= k => g[n] = Result([i \in 1 .. n |-> s[i]], off + Len(f[n]))}
<1>13. 0 \in T
  <2>1. [i \in 1 .. 0 |-> s[i]] = <<>> /\ off + Len(f[0]) = off
    BY <1>4, EmptySeq
  <2> QED
    BY <1>3, <2>1 DEF Reads, Result
<1>14. ASSUME NEW n \in Nat, n \in T
       PROVE  n + 1 \in T
  <2> SUFFICES ASSUME n + 1 <= k
               PROVE  g[n + 1] = Result([i \in 1 .. (n + 1) |-> s[i]], off + Len(f[n + 1]))
    OBVIOUS
  <2> DEFINE o == off + Len(f[n])
             t == [i \in 1 .. n |-> s[i]]
             p == parts[n + 1]
  <2>1. /\ n + 1 \in 1 .. k /\ (n + 1) - 1 = n /\ n \in 0 .. (k - 1) /\ n \in 0 .. k /\ n + 1 \in 0 .. k
    BY <1>1
  <2>2. g[n] = Result(t, o)
    BY <1>1, <1>14
  <2>3. f[n + 1] = f[n] \o p /\ f[n] \in Seq(Byte) /\ p \in Seq(Byte) /\ Len(f[n]) \in Nat /\ Len(p) \in Nat
    BY <1>1, <1>4, <1>8, <2>1
  <2>4. Append(t, s[n + 1]) = [i \in 1 .. (n + 1) |-> s[i]]
    BY <1>1, AppendOne
  <2>5. o \in Nat
    BY <2>3
  <2>6. Has(buf, off, f[n] \o p)
    BY <1>12, <2>1, <2>3
  <2> HIDE DEF p, t
  <2>7. Has(buf, o, p)
    BY <2>3, <2>6, HasParts
  <2> HIDE DEF o
  <2>8. item[o] = Result(s[n + 1], o + Len(p))
    BY <1>1, <2>1, <2>5, <2>7 DEF ItemsRead, p
  <2>9. g[n + 1] = Extended(g[n], item)
    BY <1>3, <2>1 DEF Reads
  <2>10. g[n + 1] = Result(Append(t, s[n + 1]), o + Len(p))
    <3>1. o + Len(p) \in Nat
      BY <2>3, <2>5
    <3>2. g[n].val = t /\ g[n].at = o /\ ~Failed(g[n])
      BY <2>2, <2>5, ResultFacts
    <3>3. item[o].val = s[n + 1] /\ item[o].at = o + Len(p)
      BY <2>8, <3>1, ResultFacts
    <3>4. Extended(g[n], item) = Result(Append(g[n].val, item[g[n].at].val), item[g[n].at].at)
      BY <3>2 DEF Extended, Result
    <3> QED
      BY <2>9, <3>2, <3>3, <3>4
  <2>11. Len(f[n + 1]) = Len(f[n]) + Len(p)
    BY <2>3, ConcatProperties
  <2>12. o + Len(p) = off + Len(f[n + 1])
    BY <2>3, <2>11 DEF o
  <2> QED
    BY <2>4, <2>10, <2>12
<1>15. Nat \subseteq T
  <2> HIDE DEF T
  <2> QED
    BY <1>13, <1>14, NaturalsInSet
<1>16. g[k] = Result([i \in 1 .. k |-> s[i]], off + Len(f[k]))
  BY <1>1, <1>15
<1>17. s = [i \in 1 .. k |-> s[i]]
  BY <1>1
<1>18. off + Len(f[k]) \in Nat
  BY <1>1, <1>8
<1>19. g[k] = Result(s, off + Len(f[k]))
  BY <1>16, <1>17, Zenon
<1> QED
  BY <1>1, <1>2, <1>3, <1>18, <1>19

LEMMA ArrayReads ==
  ASSUME NEW buf \in Seq(Byte), NEW off \in Nat, NEW U, NEW s \in Seq(U), NEW item,
         NEW parts \in Seq(Seq(Byte)), Len(parts) = Len(s), ItemsRead(buf, item, s, parts),
         NEW n, Varint(n, Len(s)), Has(buf, off, n \o FlattenSeq(parts))
  PROVE  /\ deserialize_array(buf, off, item) = Result(s, off + Len(n \o FlattenSeq(parts)))
         /\ n \o FlattenSeq(parts) \in Seq(Byte)
<1>1. Len(s) \in Nat
  OBVIOUS
<1>2. n \in Seq(Byte) /\ Len(n) \in Nat
  BY <1>1, VarintType
<1> DEFINE flat == FlattenSeq(parts)
<1>3. flat \in Seq(Byte)
  BY FlattenFacts
<1> HIDE DEF flat
<1>4. Len(flat) \in Nat
  BY <1>3
<1>5. Has(buf, off, n) /\ Has(buf, off + Len(n), flat)
  BY <1>2, <1>3, HasParts DEF flat
<1>6. deserialize_varint(buf, off) = Result(Len(s), off + Len(n)) /\ off + Len(n) \in Nat
  BY <1>1, <1>5, VarintReads
<1>7. deserialize_array(buf, off, item) = Repeat(Len(s), off + Len(n), item)
  BY <1>6, ResultFacts DEF deserialize_array
<1>8. Repeat(Len(s), off + Len(n), item) = Result(s, (off + Len(n)) + Len(flat))
  BY <1>5, <1>6, RepeatReads DEF flat
<1>9. n \o flat \in Seq(Byte) /\ Len(n \o flat) = Len(n) + Len(flat)
  BY <1>2, <1>3, ConcatProperties
<1>10. (off + Len(n)) + Len(flat) = off + Len(n \o flat)
  BY <1>2, <1>4, <1>9
<1> QED
  BY <1>7, <1>8, <1>9, <1>10 DEF flat

LEMMA HasThree ==
  ASSUME NEW buf \in Seq(Byte), NEW off \in Nat, NEW a \in Seq(Byte), NEW b \in Seq(Byte),
         NEW c \in Seq(Byte)
  PROVE  /\ a \o b \o c \in Seq(Byte) /\ Len(a \o b \o c) = Len(a) + Len(b) + Len(c)
         /\ Len(a) \in Nat /\ Len(b) \in Nat /\ Len(c) \in Nat
         /\ Has(buf, off, a \o b \o c)
              => /\ Has(buf, off, a) /\ Has(buf, off + Len(a), b)
                  /\ Has(buf, off + Len(a) + Len(b), c)
<1> DEFINE ab == a \o b
<1>1. ab \in Seq(Byte) /\ Len(ab) = Len(a) + Len(b) /\ Len(a) \in Nat /\ Len(b) \in Nat /\ Len(c) \in Nat
  BY ConcatProperties
<1>2. Has(buf, off, ab) <=> Has(buf, off, a) /\ Has(buf, off + Len(a), b)
  BY HasParts
<1> HIDE DEF ab
<1>3. Has(buf, off, ab \o c) <=> Has(buf, off, ab) /\ Has(buf, off + Len(ab), c)
  BY <1>1, HasParts
<1>4. ab \o c \in Seq(Byte) /\ Len(ab \o c) = Len(ab) + Len(c)
  BY <1>1, ConcatProperties
<1>5. off + Len(ab) = off + Len(a) + Len(b) /\ Len(ab \o c) = Len(a) + Len(b) + Len(c)
  BY <1>1, <1>4
<1> QED
  BY <1>1, <1>2, <1>3, <1>4, <1>5 DEF ab

LEMMA HasFour ==
  ASSUME NEW buf \in Seq(Byte), NEW off \in Nat, NEW a \in Seq(Byte), NEW b \in Seq(Byte),
         NEW c \in Seq(Byte), NEW d \in Seq(Byte)
  PROVE  /\ a \o b \o c \o d \in Seq(Byte)
         /\ Len(a \o b \o c \o d) = Len(a) + Len(b) + Len(c) + Len(d)
         /\ Len(a) \in Nat /\ Len(b) \in Nat /\ Len(c) \in Nat /\ Len(d) \in Nat
         /\ Has(buf, off, a \o b \o c \o d)
              => /\ Has(buf, off, a) /\ Has(buf, off + Len(a), b)
                  /\ Has(buf, off + Len(a) + Len(b), c)
                  /\ Has(buf, off + Len(a) + Len(b) + Len(c), d)
<1> DEFINE abc == a \o b \o c
<1>1. /\ abc \in Seq(Byte) /\ Len(abc) = Len(a) + Len(b) + Len(c)
      /\ Len(a) \in Nat /\ Len(b) \in Nat /\ Len(c) \in Nat /\ Len(d) \in Nat
      /\ Has(buf, off, abc) => /\ Has(buf, off, a) /\ Has(buf, off + Len(a), b)
                                /\ Has(buf, off + Len(a) + Len(b), c)
  BY HasThree
<1> HIDE DEF abc
<1>3. Has(buf, off, abc \o d) <=> Has(buf, off, abc) /\ Has(buf, off + Len(abc), d)
  BY <1>1, HasParts
<1>4. abc \o d \in Seq(Byte) /\ Len(abc \o d) = Len(abc) + Len(d)
  BY <1>1, ConcatProperties
<1>5. /\ off + Len(abc) = off + Len(a) + Len(b) + Len(c)
      /\ Len(abc \o d) = Len(a) + Len(b) + Len(c) + Len(d)
  BY <1>1, <1>4
<1> QED
  BY <1>1, <1>3, <1>4, <1>5 DEF abc

LEMMA Opened ==
  ASSUME NEW v, NEW off \in Nat, NEW r, r = Result(v, off)
  PROVE  r.val = v /\ r.at = off /\ ~Failed(r)
BY ResultFacts

LEMMA FixedWidth ==
  ASSUME NEW n \in Nat, NEW h \in [1 .. n -> Byte]
  PROVE  h \in Seq(Byte) /\ Len(h) = n
<1>1. h \in Seq(Byte) /\ DOMAIN h = 1 .. n
  BY SeqDef
<1> QED
  BY <1>1, LenProperties

---------------------------------------------------------------------------
(* How the code and the peers write strings, inputs, outputs and lists: they *)
(* may differ in how they write a length.                                    *)

StringBytes(enc, s) == \E n : Varint(n, Len(s)) /\ enc = n \o s

InBytes(enc, i) ==
  \E script : /\ StringBytes(script, i.sig_script)
              /\ enc = i.prevout_hash \o LE(i.prevout_index, 4) \o script \o LE(i.sequence, 4)

OutBytes(enc, o) ==
  \E script : StringBytes(script, o.script) /\ enc = LE(o.value, 8) \o script

LEMMA Strings ==
  ASSUME NEW buf \in Seq(Byte), NEW off \in Nat, NEW s \in Seq(Byte), NEW enc, StringBytes(enc, s)
  PROVE  /\ enc \in Seq(Byte) /\ Len(enc) \in Nat
         /\ Has(buf, off, enc) => deserialize_varstr(buf, off) = Result(s, off + Len(enc))
<1>1. PICK n : Varint(n, Len(s)) /\ enc = n \o s
  BY DEF StringBytes
<1>2. n \in Seq(Byte)
  <2>1. Len(s) \in Nat
    OBVIOUS
  <2> QED
    BY <1>1, <2>1, VarintType
<1>3. enc \in Seq(Byte) /\ Len(enc) \in Nat
  BY <1>1, <1>2, ConcatProperties
<1> QED
  BY <1>1, <1>3, StringReads

LEMMA Numbers ==
  /\ \A v \in U32 : LE(v, 4) \in Seq(Byte) /\ Len(LE(v, 4)) = 4
  /\ \A v \in 0 .. (Power[8] - 1) : LE(v, 8) \in Seq(Byte) /\ Len(LE(v, 8)) = 8
<1>1. Power[4] \in Nat /\ Power[8] \in Nat /\ 4 \in 0 .. 8 /\ 8 \in 0 .. 8
  BY PowerFacts
<1>2. \A v \in U32 : v \in Nat
  BY <1>1 DEF U32
<1>3. \A v \in 0 .. (Power[8] - 1) : v \in Nat
  BY <1>1
<1> QED
  BY <1>1, <1>2, <1>3, LEFacts

LEMMA TxinReads ==
  ASSUME NEW buf \in Seq(Byte), NEW off \in Nat, NEW i \in TxIns, NEW enc, InBytes(enc, i)
  PROVE  /\ enc \in Seq(Byte) /\ Len(enc) \in Nat /\ Len(enc) >= 40
         /\ Has(buf, off, enc) => deserialize_txin(buf, off) = Result(i, off + Len(enc))
<1> DEFINE h == i.prevout_hash
           x == LE(i.prevout_index, 4)
           q == LE(i.sequence, 4)
<1>1. PICK e : StringBytes(e, i.sig_script) /\ enc = h \o x \o e \o q
  BY DEF InBytes
<1>s. StringBytes(e, i.sig_script)
  BY <1>1
<1>2. /\ h \in [1 .. 32 -> Byte] /\ i.prevout_index \in U32 /\ i.sequence \in U32
      /\ i.sig_script \in Seq(Byte)
  BY DEF TxIns, Short
<1>3. x \in Seq(Byte) /\ Len(x) = 4 /\ q \in Seq(Byte) /\ Len(q) = 4
  BY <1>2, Numbers
<1>4. h \in Seq(Byte) /\ Len(h) = 32
  BY <1>2, FixedWidth
<1>5. e \in Seq(Byte) /\ Len(e) \in Nat
  BY <1>1, <1>2, Strings
<1>i. i = [prevout_hash |-> h, prevout_index |-> i.prevout_index,
           sig_script |-> i.sig_script, sequence |-> i.sequence]
  BY DEF TxIns
<1> HIDE DEF h, x, q
<1> DEFINE o1 == off + 32
           o2 == off + 32 + 4
           o3 == off + 32 + 4 + Len(e)
           o4 == off + Len(enc)
<1>5a. /\ enc \in Seq(Byte) /\ Len(enc) = Len(h) + Len(x) + Len(e) + Len(q)
       /\ Has(buf, off, enc) => /\ Has(buf, off, h) /\ Has(buf, off + Len(h), x)
                                 /\ Has(buf, off + Len(h) + Len(x), e)
                                 /\ Has(buf, off + Len(h) + Len(x) + Len(e), q)
  <2>1. /\ h \o x \o e \o q \in Seq(Byte)
        /\ Len(h \o x \o e \o q) = Len(h) + Len(x) + Len(e) + Len(q)
        /\ Has(buf, off, h \o x \o e \o q)
             => /\ Has(buf, off, h) /\ Has(buf, off + Len(h), x)
                 /\ Has(buf, off + Len(h) + Len(x), e)
                 /\ Has(buf, off + Len(h) + Len(x) + Len(e), q)
    <3>1. h \in Seq(Byte) /\ x \in Seq(Byte) /\ e \in Seq(Byte) /\ q \in Seq(Byte)
      BY <1>3, <1>4, <1>5
    <3>2. h \o x \o e \o q \in Seq(Byte)
      BY <3>1, HasFour
    <3>3. Len(h \o x \o e \o q) = Len(h) + Len(x) + Len(e) + Len(q)
      BY <3>1, HasFour
    <3>4. ASSUME Has(buf, off, h \o x \o e \o q)
          PROVE  /\ Has(buf, off, h) /\ Has(buf, off + Len(h), x)
                 /\ Has(buf, off + Len(h) + Len(x), e)
                 /\ Has(buf, off + Len(h) + Len(x) + Len(e), q)
      BY <3>1, <3>4, HasFour
    <3> QED
      BY <3>2, <3>3, <3>4
  <2> QED
    BY <1>1, <2>1, Zenon
<1>6. /\ enc \in Seq(Byte) /\ Len(enc) = 32 + 4 + Len(e) + 4
      /\ Has(buf, off, enc) => /\ Has(buf, off, h) /\ Has(buf, o1, x)
                               /\ Has(buf, o2, e) /\ Has(buf, o3, q)
  BY <1>3, <1>4, <1>5a
<1>7. /\ Len(enc) >= 40 /\ Len(enc) \in Nat
      /\ o1 = off + 32 /\ o2 = o1 + 4 /\ o3 = o2 + Len(e) /\ o4 = o3 + 4
      /\ o1 \in Nat /\ o2 \in Nat /\ o3 \in Nat /\ o4 \in Nat /\ 4 \in 0 .. 8
  BY <1>5, <1>6
<1> HIDE DEF o1, o2, o3, o4
<1>8. ASSUME Has(buf, off, enc)
      PROVE  deserialize_txin(buf, off) = Result(i, o4)
  <2> DEFINE hash == Take(buf, off, 32)
             index == get_le(buf, o1, 4)
             script == deserialize_varstr(buf, o2)
             sequence == get_le(buf, o3, 4)
  <2>1. hash.val = h /\ hash.at = o1
    <3>1. hash = Result(h, o1)
      <4>1. Take(buf, off, Len(h)) = Result(h, off + Len(h))
        BY <1>4, <1>6, <1>8, HasTaken
      <4> QED
        BY <1>4, <1>7, <4>1
    <3> QED
      BY <1>7, <3>1, ResultFacts
  <2>2. index.val = i.prevout_index /\ index.at = o2
    <3>1. Has(buf, o1, LE(i.prevout_index, 4)) /\ i.prevout_index \in 0 .. (Power[4] - 1)
      BY <1>2, <1>6, <1>8 DEF x, U32
    <3>2. index = Result(i.prevout_index, o1 + 4)
      BY <1>7, <3>1, NumberReads, Zenon
    <3>3. index = Result(i.prevout_index, o2)
      BY <1>7, <3>2, Zenon
    <3> QED
      BY <1>7, <3>3, Opened
  <2>3. script.val = i.sig_script /\ script.at = o3
    <3>h. Has(buf, o2, e)
      BY <1>6, <1>8
    <3>1. script = Result(i.sig_script, o2 + Len(e))
      <4>1. i.sig_script \in Seq(Byte) /\ o2 \in Nat
        BY <1>2, <1>7
      <4> HIDE DEF script
      <4>2. deserialize_varstr(buf, o2) = Result(i.sig_script, o2 + Len(e))
        BY <1>s, <3>h, <4>1, Strings
      <4> QED
        BY <4>2 DEF script
    <3> QED
      BY <1>7, <3>1, ResultFacts
  <2>4. sequence.val = i.sequence /\ sequence.at = o4
    <3>1. Has(buf, o3, LE(i.sequence, 4)) /\ i.sequence \in 0 .. (Power[4] - 1)
      BY <1>2, <1>6, <1>8 DEF q, U32
    <3>2. sequence = Result(i.sequence, o3 + 4)
      BY <1>7, <3>1, NumberReads, Zenon
    <3> QED
      BY <1>7, <3>2, ResultFacts
  <2> HIDE DEF hash, index, script, sequence
  <2>5. deserialize_txin(buf, off)
          = Result([prevout_hash |-> hash.val, prevout_index |-> index.val,
                    sig_script |-> script.val, sequence |-> sequence.val], sequence.at)
    BY <2>1, <2>2, <2>3 DEF deserialize_txin, Result, hash, index, script, sequence
  <2>6. [prevout_hash |-> hash.val, prevout_index |-> index.val,
         sig_script |-> script.val, sequence |-> sequence.val] = i
    BY <1>i, <2>1, <2>2, <2>3, <2>4
  <2> QED
    BY <2>4, <2>5, <2>6, Zenon
<1> QED
  BY <1>6, <1>7, <1>8 DEF o4

LEMMA TxoutReads ==
  ASSUME NEW buf \in Seq(Byte), NEW off \in Nat, NEW o \in TxOuts, NEW enc, OutBytes(enc, o)
  PROVE  /\ enc \in Seq(Byte) /\ Len(enc) \in Nat
         /\ Has(buf, off, enc) => deserialize_txout(buf, off) = Result(o, off + Len(enc))
<1> DEFINE x == LE(o.value, 8)
<1>1. PICK e : StringBytes(e, o.script) /\ enc = x \o e
  BY DEF OutBytes
<1>2. o.value \in 0 .. (Power[8] - 1) /\ o.script \in Seq(Byte)
  BY DEF TxOuts, Short
<1>3. x \in Seq(Byte) /\ Len(x) = 8
  BY <1>2, Numbers
<1>5. e \in Seq(Byte) /\ Len(e) \in Nat
  BY <1>1, <1>2, Strings
<1>i. o = [value |-> o.value, script |-> o.script]
  BY DEF TxOuts
<1> HIDE DEF x
<1> DEFINE o1 == off + 8
           o2 == off + Len(enc)
<1>6. /\ enc \in Seq(Byte) /\ Len(enc) = 8 + Len(e)
      /\ Has(buf, off, enc) => Has(buf, off, x) /\ Has(buf, o1, e)
  <2>1. x \o e \in Seq(Byte) /\ Len(x \o e) = Len(x) + Len(e)
    BY <1>3, <1>5, ConcatProperties
  <2>2. Has(buf, off, x \o e) => Has(buf, off, x) /\ Has(buf, off + Len(x), e)
    BY <1>3, <1>5, HasParts
  <2> QED
    BY <1>1, <1>3, <2>1, <2>2
<1>7. /\ Len(enc) \in Nat /\ o1 = off + 8 /\ o2 = o1 + Len(e)
      /\ o1 \in Nat /\ o2 \in Nat /\ 8 \in 0 .. 8
  BY <1>5, <1>6
<1> HIDE DEF o1, o2
<1>8. ASSUME Has(buf, off, enc)
      PROVE  deserialize_txout(buf, off) = Result(o, o2)
  <2> DEFINE value == get_le(buf, off, 8)
             script == deserialize_varstr(buf, o1)
  <2>2. value.val = o.value /\ value.at = o1
    <3>1. Has(buf, off, LE(o.value, 8))
      BY <1>6, <1>8 DEF x
    <3>2. value = Result(o.value, off + 8)
      BY <1>2, <1>7, <3>1, NumberReads, Zenon
    <3> QED
      BY <1>7, <3>2, ResultFacts
  <2>3. script.val = o.script /\ script.at = o2
    <3>1. script = Result(o.script, o1 + Len(e))
      BY <1>1, <1>2, <1>6, <1>7, <1>8, Strings
    <3> QED
      BY <1>7, <3>1, ResultFacts
  <2> HIDE DEF value, script
  <2>5. deserialize_txout(buf, off) = Result([value |-> value.val, script |-> script.val], script.at)
    BY <2>2 DEF deserialize_txout, Result, value, script
  <2>6. [value |-> value.val, script |-> script.val] = o
    BY <1>i, <2>2, <2>3
  <2> QED
    BY <2>3, <2>5, <2>6, Zenon
<1> QED
  BY <1>6, <1>7, <1>8 DEF o2

InsEncoded(enc, txins) ==
  \E n : \E parts \in Seq(Seq(Byte)) :
    /\ Varint(n, Len(txins)) /\ Len(parts) = Len(txins)
    /\ \A i \in 1 .. Len(txins) : InBytes(parts[i], txins[i])
    /\ enc = n \o FlattenSeq(parts)

OutsEncoded(enc, txouts) ==
  \E n : \E parts \in Seq(Seq(Byte)) :
    /\ Varint(n, Len(txouts)) /\ Len(parts) = Len(txouts)
    /\ \A i \in 1 .. Len(txouts) : OutBytes(parts[i], txouts[i])
    /\ enc = n \o FlattenSeq(parts)

IsStack(enc) == \E items \in Short(Short(Byte)) : enc = Stack(items)

\* An offset where something stands is one of the buffer's.
LEMMA HasOffset ==
  ASSUME NEW buf \in Seq(Byte), NEW off \in Nat, NEW enc \in Seq(Byte), Has(buf, off, enc)
  PROVE  off \in Offsets(buf)
<1>1. Len(enc) \in Nat /\ Len(buf) \in Nat
  OBVIOUS
<1>2. off + Len(enc) <= Len(buf)
  BY DEF Has
<1> QED
  BY <1>1, <1>2 DEF Offsets

LEMMA ListFacts ==
  ASSUME NEW k \in Nat, NEW n, Varint(n, k), NEW parts \in Seq(Seq(Byte)), NEW enc,
         enc = n \o FlattenSeq(parts)
  PROVE  /\ enc \in Seq(Byte) /\ Len(enc) \in Nat /\ Len(enc) >= 1 /\ (k # 0 => enc[1] # 0)
         /\ Len(enc) = Len(n) + Len(FlattenSeq(parts))
         /\ Len(n) \in Nat /\ Len(FlattenSeq(parts)) \in Nat
<1> DEFINE flat == FlattenSeq(parts)
<1>1. flat \in Seq(Byte)
  BY FlattenFacts
<1>2. n \in Seq(Byte) /\ Len(n) >= 1 /\ Len(n) \in Nat /\ (k # 0 => n[1] # 0)
  BY VarintType
<1> HIDE DEF flat
<1>3. /\ n \o flat \in Seq(Byte) /\ Len(n \o flat) = Len(n) + Len(flat) /\ Len(flat) \in Nat
      /\ (n \o flat)[1] = n[1]
  BY <1>1, <1>2, ConcatProperties
<1>4. enc = n \o flat
  BY DEF flat
<1> QED
  BY <1>2, <1>3, <1>4 DEF flat

LEMMA InsRead ==
  ASSUME NEW buf \in Seq(Byte), NEW off \in Nat, NEW txins \in Seq(TxIns), NEW enc,
         InsEncoded(enc, txins)
  PROVE  /\ enc \in Seq(Byte) /\ Len(enc) \in Nat /\ Len(enc) >= 1
         /\ txins # <<>> => enc[1] # 0
         /\ Has(buf, off, enc) =>
              deserialize_array(buf, off, [o \in Offsets(buf) |-> deserialize_txin(buf, o)])
                = Result(txins, off + Len(enc))
<1> DEFINE item == [o \in Offsets(buf) |-> deserialize_txin(buf, o)]
           k == Len(txins)
<1>1. PICK n : \E parts \in Seq(Seq(Byte)) :
        /\ Varint(n, k) /\ Len(parts) = k
        /\ \A i \in 1 .. k : InBytes(parts[i], txins[i])
        /\ enc = n \o FlattenSeq(parts)
  BY DEF InsEncoded
<1>2. PICK parts \in Seq(Seq(Byte)) :
        /\ Varint(n, k) /\ Len(parts) = k
        /\ \A i \in 1 .. k : InBytes(parts[i], txins[i])
        /\ enc = n \o FlattenSeq(parts)
  BY <1>1
<1>3. k \in Nat /\ (txins # <<>> => k # 0) /\ \A i \in 1 .. k : txins[i] \in TxIns /\ parts[i] \in Seq(Byte)
  BY <1>2, EmptySeq
<1>4. enc \in Seq(Byte) /\ Len(enc) \in Nat /\ Len(enc) >= 1 /\ (k # 0 => enc[1] # 0)
  <2>1. Varint(n, k) /\ k \in Nat
    BY <1>2, <1>3
  <2>2. enc = n \o FlattenSeq(parts)
    BY <1>2
  <2> HIDE DEF k
  <2> QED
    BY <2>1, <2>2, ListFacts
<1> HIDE DEF k
<1>5. ASSUME NEW i \in 1 .. k, NEW o \in Nat, Has(buf, o, parts[i])
      PROVE  item[o] = Result(txins[i], o + Len(parts[i]))
  <2>1. o \in Offsets(buf)
    BY <1>3, <1>5, HasOffset
  <2>2. deserialize_txin(buf, o) = Result(txins[i], o + Len(parts[i]))
    BY <1>2, <1>3, <1>5, TxinReads
  <2> QED
    BY <2>1, <2>2
<1> HIDE DEF item
<1>6. ItemsRead(buf, item, txins, parts)
  BY <1>5 DEF ItemsRead, k
<1>7. ASSUME Has(buf, off, enc)
      PROVE  deserialize_array(buf, off, item) = Result(txins, off + Len(enc))
  <2>1. Has(buf, off, n \o FlattenSeq(parts)) /\ Varint(n, Len(txins)) /\ Len(parts) = Len(txins)
    BY <1>2, <1>7 DEF k
  <2>2. deserialize_array(buf, off, item) = Result(txins, off + Len(n \o FlattenSeq(parts)))
    BY <1>6, <2>1, ArrayReads
  <2> QED
    BY <1>2, <2>2
<1> QED
  BY <1>3, <1>4, <1>7 DEF item

LEMMA OutsRead ==
  ASSUME NEW buf \in Seq(Byte), NEW off \in Nat, NEW txouts \in Seq(TxOuts), NEW enc,
         OutsEncoded(enc, txouts)
  PROVE  /\ enc \in Seq(Byte) /\ Len(enc) \in Nat
         /\ Has(buf, off, enc) => deserialize_txouts(buf, off) = Result(txouts, off + Len(enc))
<1> DEFINE item == [o \in Offsets(buf) |-> deserialize_txout(buf, o)]
           k == Len(txouts)
<1>1. PICK n : \E parts \in Seq(Seq(Byte)) :
        /\ Varint(n, k) /\ Len(parts) = k
        /\ \A i \in 1 .. k : OutBytes(parts[i], txouts[i])
        /\ enc = n \o FlattenSeq(parts)
  BY DEF OutsEncoded
<1>2. PICK parts \in Seq(Seq(Byte)) :
        /\ Varint(n, k) /\ Len(parts) = k
        /\ \A i \in 1 .. k : OutBytes(parts[i], txouts[i])
        /\ enc = n \o FlattenSeq(parts)
  BY <1>1
<1>3. k \in Nat /\ \A i \in 1 .. k : txouts[i] \in TxOuts /\ parts[i] \in Seq(Byte)
  BY <1>2
<1>4. enc \in Seq(Byte) /\ Len(enc) \in Nat
  BY <1>2, <1>3, ListFacts
<1> HIDE DEF k
<1>5. ASSUME NEW i \in 1 .. k, NEW o \in Nat, Has(buf, o, parts[i])
      PROVE  item[o] = Result(txouts[i], o + Len(parts[i]))
  <2>1. o \in Offsets(buf)
    BY <1>3, <1>5, HasOffset
  <2>2. deserialize_txout(buf, o) = Result(txouts[i], o + Len(parts[i]))
    BY <1>2, <1>3, <1>5, TxoutReads
  <2> QED
    BY <2>1, <2>2
<1> HIDE DEF item
<1>6. ItemsRead(buf, item, txouts, parts)
  BY <1>5 DEF ItemsRead, k
<1>7. ASSUME Has(buf, off, enc)
      PROVE  deserialize_array(buf, off, item) = Result(txouts, off + Len(enc))
  <2>1. Has(buf, off, n \o FlattenSeq(parts)) /\ Varint(n, Len(txouts)) /\ Len(parts) = Len(txouts)
    BY <1>2, <1>7 DEF k
  <2>2. deserialize_array(buf, off, item) = Result(txouts, off + Len(n \o FlattenSeq(parts)))
    BY <1>6, <2>1, ArrayReads
  <2> QED
    BY <1>2, <2>2
<1> QED
  BY <1>4, <1>7 DEF item, deserialize_txouts

\* Lengths that fit into four bytes, the ones the code and the peers write.
LEMMA ShortFacts ==
  ASSUME NEW S, NEW s \in Short(S)
  PROVE  s \in Seq(S) /\ Len(s) \in Nat /\ Len(s) \in 0 .. (Power[4] - 2)
<1>1. s \in Seq(S) /\ Len(s) < Power[4] - 1
  BY DEF Short
<1>2. Power[4] \in Nat
  BY PowerFacts
<1>3. Len(s) \in Nat
  BY <1>1
<1> QED
  BY <1>1, <1>2, <1>3

LEMMA StackReads ==
  ASSUME NEW buf \in Seq(Byte), NEW off \in Nat, NEW enc, IsStack(enc)
  PROVE  /\ enc \in Seq(Byte) /\ Len(enc) \in Nat /\ (Len(enc) = 1 <=> enc = <<0>>)
         /\ Has(buf, off, enc) =>
              deserialize_array_of_varstr_as_varstr(buf, off) = Result(enc, off + Len(enc))
<1>1. PICK items \in Short(Short(Byte)) : enc = Stack(items)
  BY DEF IsStack
<1> DEFINE k == Len(items)
           n == Canonical(k)
           parts == [i \in 1 .. k |-> CanonicalStr(items[i])]
           item == [o \in Offsets(buf) |-> deserialize_varstr(buf, o)]
<1>2. items \in Seq(Short(Byte)) /\ k \in Nat /\ k \in 0 .. (Power[4] - 2)
  BY ShortFacts
<1>3. ASSUME NEW i \in 1 .. k
      PROVE  /\ items[i] \in Seq(Byte) /\ StringBytes(CanonicalStr(items[i]), items[i])
             /\ CanonicalStr(items[i]) \in Seq(Byte) /\ Len(CanonicalStr(items[i])) \in Nat
             /\ Len(CanonicalStr(items[i])) >= 1
  <2>1. items[i] \in Short(Byte)
    BY <1>2
  <2>2. items[i] \in Seq(Byte) /\ Len(items[i]) \in 0 .. (Power[4] - 2) /\ Len(items[i]) \in Nat
    BY <2>1, ShortFacts
  <2>3. Varint(Canonical(Len(items[i])), Len(items[i]))
    BY <2>2, VarintsWritten
  <2>4. StringBytes(CanonicalStr(items[i]), items[i])
    BY <2>3 DEF StringBytes, CanonicalStr
  <2>5. CanonicalStr(items[i]) \in Seq(Byte) /\ Len(CanonicalStr(items[i])) \in Nat
    BY <2>2, <2>4, Strings
  <2>6. Canonical(Len(items[i])) \in Seq(Byte) /\ Len(Canonical(Len(items[i]))) >= 1
    BY <2>2, <2>3, VarintType
  <2>7. Len(CanonicalStr(items[i])) = Len(Canonical(Len(items[i]))) + Len(items[i])
    BY <2>2, <2>6, ConcatProperties DEF CanonicalStr
  <2>8. Len(Canonical(Len(items[i]))) \in Nat
    BY <2>6
  <2>9. Len(CanonicalStr(items[i])) >= 1
    <3> DEFINE x == Len(CanonicalStr(items[i]))
               y == Len(Canonical(Len(items[i])))
               z == Len(items[i])
    <3>1. x = y + z /\ y >= 1 /\ y \in Nat /\ z \in Nat
      BY <2>2, <2>6, <2>7, <2>8
    <3> HIDE DEF x, y, z
    <3>2. x >= 1
      BY <3>1
    <3> QED
      BY <3>2 DEF x
  <2> QED
    BY <2>2, <2>4, <2>5, <2>9
<1>4. parts \in Seq(Seq(Byte)) /\ Len(parts) = k /\ \A i \in 1 .. k : parts[i] = CanonicalStr(items[i])
  BY <1>2, <1>3
<1>5. Varint(n, k)
  BY <1>2, VarintsWritten
<1>6. enc = n \o FlattenSeq(parts)
  <2>1. DOMAIN items = 1 .. k
    BY <1>2
  <2>2. [i \in DOMAIN items |-> CanonicalStr(items[i])] = parts
    BY <2>1
  <2> HIDE DEF parts, k
  <2>3. Len(parts) = k
    BY <1>4
  <2> QED
    BY <1>1, <2>2, <2>3 DEF Stack, CanonicalList
<1> HIDE DEF k, n, parts
<1>7. /\ enc \in Seq(Byte) /\ Len(enc) \in Nat /\ Len(enc) = Len(n) + Len(FlattenSeq(parts))
      /\ Len(n) \in Nat /\ Len(FlattenSeq(parts)) \in Nat /\ Len(n) >= 1
  <2>1. Len(n) >= 1
    BY <1>2, <1>5, VarintType
  <2> QED
    <3>1. Varint(n, k) /\ k \in Nat /\ parts \in Seq(Seq(Byte))
      BY <1>2, <1>4, <1>5
    <3> QED
      BY <1>6, <2>1, <3>1, ListFacts
<1>8. Len(enc) = 1 => enc = <<0>>
  <2> SUFFICES ASSUME Len(enc) = 1
               PROVE  enc = <<0>>
    OBVIOUS
  <2> DEFINE a == [i \in 1 .. k |-> Len(parts[i])]
             b == [i \in 1 .. k |-> 1]
  <2>1. a \in Seq(Nat) /\ b \in Seq(Nat) /\ Len(a) = k /\ Len(b) = k /\ \A i \in 1 .. k : b[i] <= a[i]
    BY <1>2, <1>3, <1>4
  <2>2. Total(b) = 1 * k
    BY <1>2, TotalConstant
  <2>3. Len(FlattenSeq(parts)) = Total(a)
    BY <1>4, FlattenFacts
  <2> HIDE DEF a, b
  <2>4. Total(b) <= Total(a)
    BY <1>2, <2>1, TotalsCompared
  <2>5. Total(a) \in Nat
    BY <2>1, TotalType
  <2>6. k = 0
    BY <1>2, <1>7, <2>2, <2>3, <2>4, <2>5
  <2>7. n = <<0>>
    BY <2>6, BaseFacts DEF n, Canonical
  <2>8. Len(FlattenSeq(parts)) = 0 /\ FlattenSeq(parts) \in Seq(Byte)
    <3> DEFINE x == Len(FlattenSeq(parts))
               y == Len(n)
               z == Len(enc)
    <3>1. z = y + x /\ y >= 1 /\ y \in Nat /\ x \in Nat /\ z = 1
      BY <1>7
    <3> HIDE DEF x, y, z
    <3>2. x = 0
      BY <3>1
    <3> QED
      BY <1>4, <3>2, FlattenFacts DEF x
  <2>9. FlattenSeq(parts) = <<>>
    BY <2>8, EmptySeq
  <2>10. <<0>> \o <<>> = <<0>>
    OBVIOUS
  <2> QED
    BY <1>6, <2>7, <2>9, <2>10
<1>9. ASSUME NEW i \in 1 .. k, NEW o \in Nat, Has(buf, o, parts[i])
      PROVE  item[o] = Result(items[i], o + Len(parts[i]))
  <2>1. o \in Offsets(buf)
    BY <1>3, <1>4, <1>9, HasOffset
  <2>2. deserialize_varstr(buf, o) = Result(items[i], o + Len(parts[i]))
    <3>1. parts[i] = CanonicalStr(items[i])
      BY <1>4
    <3>2. StringBytes(parts[i], items[i]) /\ items[i] \in Seq(Byte)
      BY <1>3, <3>1
    <3> QED
      BY <1>9, <3>2, Strings
  <2> QED
    BY <2>1, <2>2
<1> HIDE DEF item
<1>10. ItemsRead(buf, item, items, parts)
  BY <1>9 DEF ItemsRead, k
<1>11. ASSUME Has(buf, off, enc)
       PROVE  deserialize_array_of_varstr_as_varstr(buf, off) = Result(enc, off + Len(enc))
  <2>1. Has(buf, off, n \o FlattenSeq(parts)) /\ Varint(n, Len(items)) /\ Len(parts) = Len(items)
    BY <1>4, <1>5, <1>6, <1>11 DEF k
  <2>2. deserialize_array(buf, off, item) = Result(items, off + Len(n \o FlattenSeq(parts)))
    BY <1>2, <1>4, <1>10, <2>1, ArrayReads
  <2> DEFINE stack == deserialize_array(buf, off, item)
  <2>3. stack = Result(items, off + Len(enc)) /\ off + Len(enc) \in Nat
    BY <1>6, <1>7, <2>2
  <2> HIDE DEF stack
  <2>4. ~Failed(stack) /\ stack.at = off + Len(enc)
    BY <2>3, Opened
  <2>5. stack.at - off = Len(enc)
    BY <1>7, <2>4
  <2>6. Take(buf, off, Len(enc)) = Result(enc, off + Len(enc))
    BY <1>7, <1>11, HasTaken
  <2>7. deserialize_array_of_varstr_as_varstr(buf, off) = Take(buf, off, stack.at - off)
    BY <2>4 DEF deserialize_array_of_varstr_as_varstr, stack, item
  <2> QED
    BY <2>5, <2>6, <2>7
<1> QED
  BY <1>7, <1>8, <1>11

---------------------------------------------------------------------------
(* A transaction. *)

\* What the parser keeps of one.
Keeps == [version : U32, txins : Short(TxIns), txouts : Short(TxOuts), witness : Seq(Seq(Byte)),
          locktime : U32]

Kept(t) ==
  /\ t \in Keeps
  /\ t.txins # <<>>
  /\ t.witness # NoWitness => Len(t.witness) = Len(t.txins)
  /\ \A i \in 1 .. Len(t.witness) : IsStack(t.witness[i])

LEMMA KeptFacts ==
  ASSUME NEW t, Kept(t)
  PROVE  /\ t.version \in U32 /\ t.locktime \in U32
         /\ t.txins \in Seq(TxIns) /\ t.txouts \in Seq(TxOuts) /\ t.witness \in Seq(Seq(Byte))
         /\ t.txins # <<>>
         /\ t.witness # NoWitness => Len(t.witness) = Len(t.txins)
         /\ \A i \in 1 .. Len(t.witness) : IsStack(t.witness[i])
         /\ t = [version |-> t.version, txins |-> t.txins, txouts |-> t.txouts,
                 witness |-> t.witness, locktime |-> t.locktime]
<1>1. t \in Keeps
  BY DEF Kept
<1>2. /\ t.version \in U32 /\ t.locktime \in U32 /\ t.witness \in Seq(Seq(Byte))
      /\ t.txins \in Short(TxIns) /\ t.txouts \in Short(TxOuts)
      /\ t = [version |-> t.version, txins |-> t.txins, txouts |-> t.txouts,
              witness |-> t.witness, locktime |-> t.locktime]
  BY <1>1 DEF Keeps
<1>3. t.txins \in Seq(TxIns) /\ t.txouts \in Seq(TxOuts)
  BY <1>2, ShortFacts
<1> QED
  BY <1>2, <1>3 DEF Kept

LEMMA WitnessFacts ==
  ASSUME NEW w \in Seq(Seq(Byte))
  PROVE  /\ Marker(w) \in Seq(Byte) /\ Len(Marker(w)) = IF w = NoWitness THEN 0 ELSE 2
         /\ Stacks(w) \in Seq(Byte)
<1>1. <<>> \in Seq(Byte) /\ Len(<<>>) = 0
  BY EmptySeq
<1>2. <<0, 1>> \in Seq(Byte) /\ Len(<<0, 1>>) = 2
  BY ByteFacts
<1>3. FlattenSeq(w) \in Seq(Byte)
  BY FlattenFacts
<1>4. CASE w = NoWitness
  <2>1. Marker(w) = <<>> /\ Stacks(w) = <<>>
    BY <1>4 DEF Marker, Stacks
  <2> QED
    BY <1>1, <1>4, <2>1
<1>5. CASE w # NoWitness
  <2>1. Marker(w) = <<0, 1>> /\ Stacks(w) = FlattenSeq(w)
    BY <1>5 DEF Marker, Stacks
  <2> QED
    BY <1>2, <1>3, <1>5, <2>1
<1> QED
  BY <1>4, <1>5

\* The parts of a transaction stand in the buffer one after the other: p is
\* the offset of the inputs, q and r the ones behind them and behind the
\* outputs, z the one of the locktime.
Laid(buf, t, ins, outs, p, q, r, z) ==
  /\ p = 4 + Len(Marker(t.witness)) /\ q = p + Len(ins) /\ r = q + Len(outs)
  /\ z = r + Len(Stacks(t.witness))
  /\ Has(buf, 0, LE(t.version, 4)) /\ Has(buf, 4, Marker(t.witness)) /\ Has(buf, p, ins)
  /\ Has(buf, q, outs) /\ Has(buf, r, Stacks(t.witness)) /\ Has(buf, z, LE(t.locktime, 4))

LEMMA MarkerRead ==
  ASSUME NEW buf \in Seq(Byte), NEW t, Kept(t), NEW ins, InsEncoded(ins, t.txins),
         NEW outs \in Seq(Byte), NEW p, NEW q, NEW r, NEW z, Laid(buf, t, ins, outs, p, q, r, z)
  PROVE  /\ p \in Nat /\ q \in Nat /\ r \in Nat /\ z \in Nat /\ p >= 4 /\ z + 4 <= Len(buf)
         /\ p = IF t.witness # NoWitness THEN 6 ELSE 4
         /\ ~Failed(Take(buf, 4, 2))
         /\ has_witness_data(buf) <=> t.witness # NoWitness
<1> DEFINE m == Marker(t.witness)
           s == Stacks(t.witness)
           x == LE(t.locktime, 4)
<1>1. /\ t.txins \in Seq(TxIns) /\ t.txins # <<>> /\ t.locktime \in U32
      /\ t.witness \in Seq(Seq(Byte))
  BY KeptFacts
<1>2. m \in Seq(Byte) /\ Len(m) = (IF t.witness = NoWitness THEN 0 ELSE 2) /\ s \in Seq(Byte)
  BY <1>1, WitnessFacts
<1>3. ins \in Seq(Byte) /\ Len(ins) \in Nat /\ Len(ins) >= 1 /\ ins[1] # 0
  <2>1. 0 \in Nat
    OBVIOUS
  <2> QED
    BY <1>1, <2>1, InsRead
<1>4. Len(x) = 4 /\ Len(s) \in Nat /\ Len(outs) \in Nat
  BY <1>1, <1>2, Numbers
<1>5. /\ p = 4 + Len(m) /\ q = p + Len(ins) /\ r = q + Len(outs) /\ z = r + Len(s)
      /\ Has(buf, 4, m) /\ Has(buf, p, ins) /\ Has(buf, z, x)
  BY DEF Laid
<1>6. z + 4 <= Len(buf)
  BY <1>4, <1>5 DEF Has
<1> HIDE DEF m, s, x
<1>7. p = IF t.witness # NoWitness THEN 6 ELSE 4
  BY <1>2, <1>5
<1>8. p \in Nat /\ p >= 4
  BY <1>7
<1>9. q \in Nat /\ r \in Nat /\ z \in Nat /\ q >= p + 1 /\ r >= q /\ z >= r
  BY <1>3, <1>4, <1>5, <1>8
<1>10. Len(buf) \in Nat /\ Len(buf) >= 9
  BY <1>6, <1>8, <1>9
<1>11. Take(buf, 4, 2) = Result(SubSeq(buf, 5, 6), 6)
  BY <1>10 DEF Take, Result
<1>12. Take(buf, 4, 2).val = SubSeq(buf, 5, 6) /\ ~Failed(Take(buf, 4, 2))
  <2> DEFINE u == SubSeq(buf, 5, 6)
             taken == Take(buf, 4, 2)
  <2>1. taken = Result(u, 6) /\ 6 \in Nat
    BY <1>11
  <2> HIDE DEF u, taken
  <2>2. taken.val = u /\ ~Failed(taken)
    BY <2>1, Opened
  <2> QED
    BY <2>2 DEF u, taken
<1>13. CASE t.witness # NoWitness
  <2>1. Has(buf, 4, <<0, 1>>) /\ <<0, 1>> \in Seq(Byte) /\ Len(<<0, 1>>) = 2
    BY <1>2, <1>5, <1>13, ByteFacts DEF m, Marker
  <2>2. SubSeq(buf, 4 + 1, 4 + Len(<<0, 1>>)) = <<0, 1>>
    BY <2>1, HasTaken
  <2>3. SubSeq(buf, 5, 6) = <<0, 1>>
    BY <2>1, <2>2
  <2> QED
    BY <1>6, <1>7, <1>8, <1>9, <1>12, <1>13, <2>3 DEF has_witness_data
<1>14. CASE t.witness = NoWitness
  <2>1. p = 4 /\ buf[4 + 1] = ins[1]
    BY <1>3, <1>5, <1>7, <1>14 DEF Has
  <2>2. SubSeq(buf, 5, 6)[1] = buf[5]
    BY <1>10, SubSeqProperties
  <2>3. SubSeq(buf, 5, 6)[1] # 0
    BY <1>3, <2>1, <2>2
  <2>4. <<0, 1>>[1] = 0
    OBVIOUS
  <2>5. SubSeq(buf, 5, 6) # <<0, 1>>
    BY <2>3, <2>4
  <2> QED
    BY <1>6, <1>7, <1>8, <1>9, <1>12, <1>14, <2>5 DEF has_witness_data
<1> QED
  BY <1>13, <1>14

LEMMA StacksRead ==
  ASSUME NEW buf \in Seq(Byte), NEW off \in Nat, NEW w \in Seq(Seq(Byte)),
         \A i \in 1 .. Len(w) : IsStack(w[i]), Has(buf, off, FlattenSeq(w))
  PROVE  Repeat(Len(w), off, [o \in Offsets(buf) |-> deserialize_array_of_varstr_as_varstr(buf, o)])
           = Result(w, off + Len(FlattenSeq(w)))
<1> DEFINE item == [o \in Offsets(buf) |-> deserialize_array_of_varstr_as_varstr(buf, o)]
<1>1. ASSUME NEW i \in 1 .. Len(w), NEW o \in Nat, Has(buf, o, w[i])
      PROVE  item[o] = Result(w[i], o + Len(w[i]))
  <2>1. w[i] \in Seq(Byte)
    OBVIOUS
  <2>2. o \in Offsets(buf)
    BY <1>1, <2>1, HasOffset
  <2>3. deserialize_array_of_varstr_as_varstr(buf, o) = Result(w[i], o + Len(w[i]))
    BY <1>1, StackReads
  <2> QED
    BY <2>2, <2>3
<1> HIDE DEF item
<1>2. ItemsRead(buf, item, w, w)
  BY <1>1 DEF ItemsRead
<1>3. Repeat(Len(w), off, item) = Result(w, off + Len(FlattenSeq(w)))
  BY <1>2, RepeatReads
<1> QED
  BY <1>3 DEF item

\* What Transaction returns.
Found(t, at, start, stacks) == [val |-> t, at |-> at, inputs |-> start, stacks |-> stacks]

\* The outputs are there, or there is neither a place nor a value for them.
OutsGiven(withOuts, outs, txouts) ==
  IF withOuts THEN OutsEncoded(outs, txouts) ELSE outs = <<>> /\ txouts = <<>>

LEMMA TransactionReads ==
  ASSUME NEW buf \in Seq(Byte), NEW t, Kept(t), NEW ins, InsEncoded(ins, t.txins),
         NEW withOuts \in BOOLEAN, NEW outs \in Seq(Byte),
         OutsGiven(withOuts, outs, t.txouts),
         NEW p, NEW q, NEW r, NEW z, Laid(buf, t, ins, outs, p, q, r, z)
  PROVE  Transaction(buf, withOuts) = Found(t, z + 4, p, r)
<1>1. /\ p \in Nat /\ q \in Nat /\ r \in Nat /\ z \in Nat /\ z + 4 \in Nat
      /\ p = (IF t.witness # NoWitness THEN 6 ELSE 4)
      /\ ~Failed(Take(buf, 4, 2))
      /\ has_witness_data(buf) <=> t.witness # NoWitness
  BY MarkerRead
<1>2. /\ p = 4 + Len(Marker(t.witness)) /\ q = p + Len(ins) /\ r = q + Len(outs)
      /\ z = r + Len(Stacks(t.witness))
      /\ Has(buf, 0, LE(t.version, 4)) /\ Has(buf, p, ins)
      /\ Has(buf, q, outs) /\ Has(buf, r, Stacks(t.witness)) /\ Has(buf, z, LE(t.locktime, 4))
  BY DEF Laid
<1>3. /\ t.version \in U32 /\ t.locktime \in U32
      /\ t.txins \in Seq(TxIns) /\ t.txouts \in Seq(TxOuts) /\ t.witness \in Seq(Seq(Byte))
      /\ t.txins # <<>>
      /\ t.witness # NoWitness => Len(t.witness) = Len(t.txins)
      /\ \A i \in 1 .. Len(t.witness) : IsStack(t.witness[i])
  BY KeptFacts
<1>t. t = [version |-> t.version, txins |-> t.txins, txouts |-> t.txouts,
           witness |-> t.witness, locktime |-> t.locktime]
  BY KeptFacts
<1> DEFINE txins == deserialize_array(buf, p, [o \in Offsets(buf) |-> deserialize_txin(buf, o)])
           txouts == IF withOuts THEN deserialize_txouts(buf, q) ELSE Result(<<>>, q)
           stacks == Repeat(Len(t.txins), r,
                       [o \in Offsets(buf) |-> deserialize_array_of_varstr_as_varstr(buf, o)])
           witness == IF has_witness_data(buf) THEN stacks ELSE Result(NoWitness, r)
           locktime == get_le(buf, z, 4)
           version == get_le(buf, 0, 4)
<1>4. txins.val = t.txins /\ txins.at = q /\ ~Failed(txins)
  <2>1. txins = Result(t.txins, p + Len(ins))
    BY <1>1, <1>2, <1>3, InsRead
  <2>2. txins = Result(t.txins, q)
    BY <1>2, <2>1
  <2> HIDE DEF txins
  <2> QED
    BY <1>1, <2>2, Opened
<1>5. txouts.val = t.txouts /\ txouts.at = r /\ ~Failed(txouts)
  <2>1. CASE withOuts
    <3>1. deserialize_txouts(buf, q) = Result(t.txouts, q + Len(outs))
      BY <1>1, <1>2, <1>3, <2>1, OutsRead DEF OutsGiven
    <3>2. txouts = Result(t.txouts, r)
      BY <1>2, <2>1, <3>1
    <3> HIDE DEF txouts
    <3> QED
      BY <1>1, <3>2, Opened
  <2>2. CASE ~withOuts
    <3>1. Len(outs) = 0
      BY <2>2, EmptySeq DEF OutsGiven
    <3>2. r = q
      BY <1>1, <1>2, <3>1
    <3>3. txouts = Result(t.txouts, r)
      BY <2>2, <3>2 DEF OutsGiven
    <3> HIDE DEF txouts
    <3> QED
      BY <1>1, <3>3, Opened
  <2> QED
    BY <2>1, <2>2
<1>6. witness.val = t.witness /\ witness.at = z /\ ~Failed(witness)
  <2>1. CASE t.witness # NoWitness
    <3>1. Stacks(t.witness) = FlattenSeq(t.witness) /\ Len(t.txins) = Len(t.witness)
      BY <1>3, <2>1 DEF Stacks
    <3>2. stacks = Result(t.witness, r + Len(FlattenSeq(t.witness)))
      <4>1. Has(buf, r, FlattenSeq(t.witness)) /\ r \in Nat /\ t.witness \in Seq(Seq(Byte))
        BY <1>1, <1>2, <1>3, <3>1
      <4>2. Repeat(Len(t.witness), r,
              [o \in Offsets(buf) |-> deserialize_array_of_varstr_as_varstr(buf, o)])
              = Result(t.witness, r + Len(FlattenSeq(t.witness)))
        BY <1>3, <4>1, StacksRead, Zenon
      <4> QED
        BY <3>1, <4>2
    <3> HIDE DEF stacks
    <3>3. witness = Result(t.witness, z)
      BY <1>1, <1>2, <2>1, <3>1, <3>2
    <3> HIDE DEF witness
    <3> QED
      BY <1>1, <3>3, Opened
  <2>2. CASE t.witness = NoWitness
    <3>1. Stacks(t.witness) = <<>> /\ Len(<<>>) = 0
      BY <2>2, EmptySeq DEF Stacks
    <3>2. z = r
      BY <1>1, <1>2, <3>1
    <3> HIDE DEF stacks
    <3>3. witness = Result(t.witness, z)
      BY <1>1, <2>2, <3>2
    <3> HIDE DEF witness
    <3> QED
      BY <1>1, <3>3, Opened
  <2> QED
    BY <2>1, <2>2
<1>7. locktime.val = t.locktime /\ locktime.at = z + 4 /\ ~Failed(locktime)
  <2>1. 4 \in 0 .. 8 /\ t.locktime \in 0 .. (Power[4] - 1)
    BY <1>3 DEF U32
  <2>2. locktime = Result(t.locktime, z + 4)
    BY <1>1, <1>2, <2>1, NumberReads
  <2> HIDE DEF locktime
  <2> QED
    BY <1>1, <2>2, Opened
<1>8. version.val = t.version
  <2>1. 4 \in 0 .. 8 /\ t.version \in 0 .. (Power[4] - 1) /\ 0 \in Nat
    BY <1>3 DEF U32
  <2>2. version = Result(t.version, 0 + 4) /\ 0 + 4 \in Nat
    BY <1>2, <2>1, NumberReads
  <2> HIDE DEF version
  <2> QED
    BY <2>2, Opened
<1>9. Transaction(buf, withOuts) = AfterIns(buf, p, txins, withOuts)
  <2>1. (IF has_witness_data(buf) THEN 6 ELSE 4) = p
    BY <1>1
  <2> QED
    BY <2>1 DEF Transaction
<1> HIDE DEF txins, stacks
<1>10. AfterIns(buf, p, txins, withOuts) = AfterOuts(buf, p, txins, txouts)
  BY <1>4 DEF AfterIns, Result
<1> HIDE DEF txouts
<1>11. AfterOuts(buf, p, txins, txouts) = Whole(buf, p, txins, txouts, witness)
  <2>1. AfterOuts(buf, p, txins, txouts)
          = Whole(buf, p, txins, txouts,
                  IF has_witness_data(buf)
                  THEN Repeat(Len(t.txins), r,
                         [o \in Offsets(buf) |-> deserialize_array_of_varstr_as_varstr(buf, o)])
                  ELSE Result(NoWitness, r))
    BY <1>4, <1>5 DEF AfterOuts, Result
  <2> QED
    BY <2>1 DEF stacks
<1> HIDE DEF witness, locktime, version
<1>12. Whole(buf, p, txins, txouts, witness)
         = Found([version |-> version.val, txins |-> txins.val, txouts |-> txouts.val,
                  witness |-> witness.val, locktime |-> locktime.val], locktime.at, p, txouts.at)
  <2>1. locktime = get_le(buf, witness.at, 4)
    BY <1>6 DEF locktime
  <2>2. ~(Failed(Take(buf, 4, 2)) \/ Failed(txins) \/ txins.val = <<>> \/ Failed(txouts)
           \/ Failed(witness) \/ Failed(locktime))
    BY <1>1, <1>3, <1>4, <1>5, <1>6, <1>7
  <2> QED
    BY <2>1, <2>2 DEF Whole, Found, version
<1>13. [version |-> version.val, txins |-> txins.val, txouts |-> txouts.val,
        witness |-> witness.val, locktime |-> locktime.val] = t
  BY <1>4, <1>5, <1>6, <1>7, <1>8, <1>t
<1>14. Whole(buf, p, txins, txouts, witness) = Found(t, z + 4, p, r)
  BY <1>5, <1>7, <1>12, <1>13
<1> QED
  BY <1>9, <1>10, <1>11, <1>14

---------------------------------------------------------------------------
(* A reader that succeeds on the beginning of a buffer finds the same in the *)
(* whole buffer, and does not go further than the beginning.                 *)

Begins(p, buf) == Len(p) <= Len(buf) /\ \A i \in 1 .. Len(p) : p[i] = buf[i]

Same(p, off, a, b) == Failed(a) \/ (a = b /\ a.at \in off .. Len(p))

LEMMA SameFacts ==
  ASSUME NEW p \in Seq(Byte), NEW off \in Offsets(p), NEW a, NEW b, Same(p, off, a, b), a.at # -1
  PROVE  a = b /\ a.at \in Offsets(p) /\ a.at \in Nat /\ off <= a.at /\ a.at <= Len(p) /\ ~Failed(a)
<1>1. a = b /\ a.at \in off .. Len(p) /\ ~Failed(a)
  BY DEF Same, Failed
<1>2. off \in Nat /\ Len(p) \in Nat
  BY DEF Offsets
<1> QED
  BY <1>1, <1>2 DEF Offsets

LEMMA SameLater ==
  ASSUME NEW p \in Seq(Byte), NEW off \in Offsets(p), NEW mid \in Offsets(p), off <= mid,
         NEW a, NEW b, Same(p, mid, a, b)
  PROVE  Same(p, off, a, b)
<1>1. off \in Nat /\ mid \in Nat /\ Len(p) \in Nat
  BY DEF Offsets
<1>2. a.at \in mid .. Len(p) => a.at \in off .. Len(p)
  BY <1>1
<1> QED
  BY <1>2 DEF Same

LEMMA FailStays ==
  ASSUME NEW buf, NEW n, NEW w, NEW item
  PROVE  /\ Take(buf, -1, n) = Fail /\ get_le(buf, -1, w) = Fail
         /\ deserialize_varint(buf, -1) = Fail /\ deserialize_varstr(buf, -1) = Fail
         /\ deserialize_array(buf, -1, item) = Fail
         /\ Fail.at = -1 /\ Failed(Fail)
<1>1. Fail.at = -1 /\ Failed(Fail)
  BY DEF Fail, Failed
<1>2. \A m : Take(buf, -1, m) = Fail
  BY DEF Take
<1>3. get_le(buf, -1, w) = Fail
  BY <1>1, <1>2 DEF get_le
<1>4. deserialize_varint(buf, -1) = Fail
  BY <1>1, <1>2 DEF deserialize_varint
<1> QED
  BY <1>1, <1>2, <1>3, <1>4 DEF deserialize_varstr, deserialize_array

LEMMA TakeLocal ==
  ASSUME NEW p \in Seq(Byte), NEW buf \in Seq(Byte), Begins(p, buf), NEW off \in Offsets(p),
         NEW n \in Nat
  PROVE  /\ Same(p, off, Take(p, off, n), Take(buf, off, n))
         /\ ~Failed(Take(p, off, n)) => /\ Take(p, off, n).val \in Seq(Byte)
                                        /\ Len(Take(p, off, n).val) = n
                                        /\ Take(p, off, n).at = off + n
                                        /\ off + n <= Len(p)
<1>1. off \in Nat /\ Len(p) \in Nat /\ Len(buf) \in Nat /\ Len(p) <= Len(buf)
  BY DEF Offsets, Begins
<1>2. CASE off + n > Len(p)
  <2>1. Take(p, off, n) = Fail
    BY <1>1, <1>2 DEF Take
  <2> QED
    BY <2>1, FailStays DEF Same
<1>3. CASE off + n <= Len(p)
  <2> DEFINE s == SubSeq(p, off + 1, off + n)
             u == SubSeq(buf, off + 1, off + n)
  <2>1. \A i \in (off + 1) .. (off + n) : p[i] \in Byte /\ buf[i] \in Byte /\ p[i] = buf[i]
    BY <1>1, <1>3 DEF Begins
  <2>2. off + 1 \in Int /\ off + n \in Int /\ (off + n) - (off + 1) + 1 = n
    BY <1>1
  <2>3. /\ s \in Seq(Byte) /\ Len(s) = IF off + 1 <= off + n THEN (off + n) - (off + 1) + 1 ELSE 0
        /\ \A i \in 1 .. ((off + n) - (off + 1) + 1) : s[i] = p[(off + 1) + i - 1]
    BY <2>1, <2>2, SubSeqProperties
  <2>4. /\ u \in Seq(Byte) /\ Len(u) = IF off + 1 <= off + n THEN (off + n) - (off + 1) + 1 ELSE 0
        /\ \A i \in 1 .. ((off + n) - (off + 1) + 1) : u[i] = buf[(off + 1) + i - 1]
    BY <2>1, <2>2, SubSeqProperties
  <2> HIDE DEF s, u
  <2>5. Len(s) = n /\ Len(u) = n
    BY <1>1, <2>3, <2>4
  <2>6. \A i \in 1 .. n : s[i] = u[i]
    <3> TAKE i \in 1 .. n
    <3>1. (off + 1) + i - 1 \in (off + 1) .. (off + n)
      BY <1>1
    <3> QED
      BY <2>1, <2>2, <2>3, <2>4, <3>1
  <2>7. s = u
    BY <2>3, <2>4, <2>5, <2>6, SeqEqual
  <2>8. Take(p, off, n) = Result(s, off + n)
    BY <1>1, <1>3 DEF Take, Result, s
  <2>9. Take(buf, off, n) = Result(u, off + n)
    BY <1>1, <1>3 DEF Take, Result, u
  <2>10. off + n \in Nat /\ off + n \in off .. Len(p)
    BY <1>1, <1>3
  <2> DEFINE a == Take(p, off, n)
  <2>11. a = Result(s, off + n)
    BY <2>8
  <2> HIDE DEF a
  <2>12. a.val = s /\ a.at = off + n /\ ~Failed(a)
    BY <2>10, <2>11, Opened
  <2>13. a = Take(buf, off, n)
    BY <2>7, <2>9, <2>11
  <2> QED
    BY <1>3, <2>3, <2>5, <2>10, <2>12, <2>13 DEF Same, a
<1> QED
  BY <1>1, <1>2, <1>3

LEMMA NumberLocal ==
  ASSUME NEW p \in Seq(Byte), NEW buf \in Seq(Byte), Begins(p, buf), NEW off \in Offsets(p),
         NEW w \in Nat
  PROVE  /\ Same(p, off, get_le(p, off, w), get_le(buf, off, w))
         /\ ~Failed(get_le(p, off, w)) => get_le(p, off, w).val \in Nat
<1> DEFINE a == Take(p, off, w)
           b == Take(buf, off, w)
<1>1. Same(p, off, a, b) /\ (~Failed(a) => a.val \in Seq(Byte))
  BY TakeLocal
<1>2. get_le(p, off, w) = IF Failed(a) THEN Fail ELSE Result(FromLE(a.val), a.at)
  BY DEF get_le, Result
<1>3. get_le(buf, off, w) = IF Failed(b) THEN Fail ELSE Result(FromLE(b.val), b.at)
  BY DEF get_le, Result
<1> HIDE DEF a, b
<1>4. CASE Failed(a)
  BY <1>2, <1>4, FailStays DEF Same
<1>5. CASE ~Failed(a)
  <2>1. a = b /\ a.at \in off .. Len(p) /\ a.at \in Nat
    BY <1>1, <1>5, SameFacts DEF Same, Failed
  <2>2. get_le(p, off, w) = Result(FromLE(a.val), a.at) /\ get_le(buf, off, w) = Result(FromLE(a.val), a.at)
    BY <1>2, <1>3, <1>5, <2>1
  <2>3. FromLE(a.val) \in Nat
    BY <1>1, <1>5, FromLEType
  <2> QED
    BY <2>1, <2>2, <2>3, ResultFacts DEF Same
<1> QED
  BY <1>4, <1>5

LEMMA VarintLocal ==
  ASSUME NEW p \in Seq(Byte), NEW buf \in Seq(Byte), Begins(p, buf), NEW off \in Offsets(p)
  PROVE  /\ Same(p, off, deserialize_varint(p, off), deserialize_varint(buf, off))
         /\ ~Failed(deserialize_varint(p, off)) => deserialize_varint(p, off).val \in Nat
<1> DEFINE a == Take(p, off, 1)
           b == Take(buf, off, 1)
           Width(byte) == IF byte = Base - 3 THEN 2 ELSE IF byte = Base - 2 THEN 4 ELSE 8
           Value(buffer, byte) ==
             IF byte < Base - 3 THEN Result(byte, off + 1) ELSE get_le(buffer, off + 1, Width(byte))
<1>1. /\ Same(p, off, a, b)
      /\ ~Failed(a) => a.val \in Seq(Byte) /\ Len(a.val) = 1 /\ a.at = off + 1 /\ off + 1 <= Len(p)
  <2>1. 1 \in Nat
    OBVIOUS
  <2> QED
    BY <2>1, TakeLocal, Zenon
<1>2. deserialize_varint(p, off) = IF Failed(a) THEN Fail ELSE Value(p, a.val[1])
  BY DEF deserialize_varint, Result
<1>3. deserialize_varint(buf, off) = IF Failed(b) THEN Fail ELSE Value(buf, b.val[1])
  BY DEF deserialize_varint, Result
<1> HIDE DEF a, b
<1>4. CASE Failed(a)
  BY <1>2, <1>4, FailStays DEF Same
<1>5. CASE ~Failed(a)
  <2> DEFINE byte == a.val[1]
  <2>1. a = b
    BY <1>1, <1>5 DEF Same
  <2>2. byte \in Byte
    BY <1>1, <1>5
  <2>3. off \in Nat /\ Len(p) \in Nat /\ off + 1 \in Offsets(p) /\ off + 1 \in Nat /\ off <= off + 1
        /\ off + 1 \in off .. Len(p)
    BY <1>1, <1>5 DEF Offsets
  <2>4. deserialize_varint(p, off) = Value(p, byte) /\ deserialize_varint(buf, off) = Value(buf, byte)
    BY <1>2, <1>3, <1>5, <2>1
  <2> HIDE DEF byte
  <2>5. CASE byte < Base - 3
    <3>1. /\ deserialize_varint(p, off) = Result(byte, off + 1)
          /\ deserialize_varint(buf, off) = Result(byte, off + 1)
      BY <2>4, <2>5
    <3>2. byte \in Nat
      BY <2>2, ByteFacts
    <3> QED
      BY <2>3, <3>1, <3>2, ResultFacts DEF Same
  <2>6. CASE ~(byte < Base - 3)
    <3>1. Width(byte) \in Nat
      OBVIOUS
    <3>2. /\ deserialize_varint(p, off) = get_le(p, off + 1, Width(byte))
          /\ deserialize_varint(buf, off) = get_le(buf, off + 1, Width(byte))
      BY <2>4, <2>6
    <3> HIDE DEF Width, Value
    <3>3. /\ Same(p, off + 1, get_le(p, off + 1, Width(byte)), get_le(buf, off + 1, Width(byte)))
          /\ ~Failed(get_le(p, off + 1, Width(byte))) => get_le(p, off + 1, Width(byte)).val \in Nat
      BY <2>3, <3>1, NumberLocal
    <3>4. Same(p, off, get_le(p, off + 1, Width(byte)), get_le(buf, off + 1, Width(byte)))
      BY <2>3, <3>3, SameLater
    <3> QED
      BY <3>2, <3>3, <3>4
  <2> QED
    BY <2>5, <2>6
<1> QED
  BY <1>4, <1>5

LEMMA StringLocal ==
  ASSUME NEW p \in Seq(Byte), NEW buf \in Seq(Byte), Begins(p, buf), NEW off \in Offsets(p)
  PROVE  Same(p, off, deserialize_varstr(p, off), deserialize_varstr(buf, off))
<1> DEFINE a == deserialize_varint(p, off)
           b == deserialize_varint(buf, off)
<1>1. Same(p, off, a, b) /\ (~Failed(a) => a.val \in Nat)
  BY VarintLocal
<1>2. deserialize_varstr(p, off) = IF Failed(a) THEN Fail ELSE Take(p, a.at, a.val)
  BY DEF deserialize_varstr
<1>3. deserialize_varstr(buf, off) = IF Failed(b) THEN Fail ELSE Take(buf, b.at, b.val)
  BY DEF deserialize_varstr
<1> HIDE DEF a, b
<1>4. CASE Failed(a)
  BY <1>2, <1>4, FailStays DEF Same
<1>5. CASE ~Failed(a)
  <2>1. a = b /\ a.at \in Offsets(p) /\ off <= a.at
    BY <1>1, <1>5, SameFacts DEF Failed
  <2>2. /\ deserialize_varstr(p, off) = Take(p, a.at, a.val)
        /\ deserialize_varstr(buf, off) = Take(buf, a.at, a.val)
    BY <1>2, <1>3, <1>5, <2>1
  <2>3. Same(p, a.at, Take(p, a.at, a.val), Take(buf, a.at, a.val))
    BY <1>1, <1>5, <2>1, TakeLocal
  <2> QED
    BY <2>1, <2>2, <2>3, SameLater
<1> QED
  BY <1>4, <1>5

ItemsLocal(p, a, b) == \A o \in Offsets(p) : Same(p, o, a[o], b[o])

LEMMA RepeatLocal ==
  ASSUME NEW p \in Seq(Byte), NEW off \in Offsets(p), NEW k \in Nat, NEW a, NEW b, ItemsLocal(p, a, b)
  PROVE  Same(p, off, Repeat(k, off, a), Repeat(k, off, b))
<1>1. PICK f : Repeat(k, off, a) = f[k] /\ Reads(f, off, a, k)
  BY RepeatDef
<1>2. PICK g : Repeat(k, off, b) = g[k] /\ Reads(g, off, b, k)
  BY RepeatDef
<1>3. off \in Nat /\ Len(p) \in Nat /\ off \in off .. Len(p)
  BY DEF Offsets
<1> DEFINE T == {n \in Nat : n <= k => Same(p, off, f[n], g[n])}
<1>4. 0 \in T
  <2>1. f[0] = Result(<<>>, off) /\ g[0] = Result(<<>>, off)
    BY <1>1, <1>2 DEF Reads, Result
  <2> QED
    BY <1>3, <2>1, ResultFacts DEF Same
<1>5. ASSUME NEW n \in Nat, n \in T
      PROVE  n + 1 \in T
  <2> SUFFICES ASSUME n + 1 <= k
               PROVE  Same(p, off, f[n + 1], g[n + 1])
    OBVIOUS
  <2>1. Same(p, off, f[n], g[n]) /\ n + 1 \in 1 .. k /\ (n + 1) - 1 = n
    BY <1>5
  <2>2. f[n + 1] = Extended(f[n], a) /\ g[n + 1] = Extended(g[n], b)
    BY <1>1, <1>2, <2>1 DEF Reads
  <2> DEFINE u == f[n]
             v == g[n]
  <2>3. Same(p, off, u, v) /\ f[n + 1] = Extended(u, a) /\ g[n + 1] = Extended(v, b)
    BY <2>1, <2>2
  <2> HIDE DEF u, v
  <2>4. CASE Failed(u)
    <3>1. Extended(u, a) = u
      BY <2>4 DEF Extended
    <3> QED
      BY <2>3, <2>4, <3>1 DEF Same
  <2>5. CASE ~Failed(u)
    <3> DEFINE o == u.at
               x == a[o]
               y == b[o]
    <3>1. u = v /\ o \in Offsets(p) /\ off <= o
      BY <2>3, <2>5, SameFacts DEF Failed
    <3>2. Same(p, o, x, y)
      BY <3>1 DEF ItemsLocal
    <3>3. /\ Extended(u, a) = Result(Append(u.val, x.val), x.at)
          /\ Extended(v, b) = Result(Append(u.val, y.val), y.at)
      BY <2>5, <3>1 DEF Extended, Result
    <3> HIDE DEF o, x, y
    <3>4. CASE x.at = -1
      <4>1. Extended(u, a).at = -1
        BY <3>3, <3>4 DEF Result
      <4> QED
        BY <2>3, <4>1 DEF Same, Failed
    <3>5. CASE x.at # -1
      <4>1. x = y /\ x.at \in Nat /\ o <= x.at /\ x.at <= Len(p)
        BY <3>1, <3>2, <3>5, SameFacts
      <4>2. o \in Nat /\ x.at \in off .. Len(p)
        BY <1>3, <3>1, <4>1 DEF Offsets
      <4>3. f[n + 1] = g[n + 1] /\ f[n + 1].at = x.at
        BY <2>3, <3>3, <4>1, ResultFacts
      <4> QED
        BY <4>2, <4>3 DEF Same
    <3> QED
      BY <3>4, <3>5
  <2> QED
    BY <2>4, <2>5
<1>6. Nat \subseteq T
  <2> HIDE DEF T
  <2> QED
    BY <1>4, <1>5, NaturalsInSet
<1>7. Same(p, off, f[k], g[k])
  BY <1>6
<1> QED
  BY <1>1, <1>2, <1>7

LEMMA ArrayLocal ==
  ASSUME NEW p \in Seq(Byte), NEW buf \in Seq(Byte), Begins(p, buf), NEW off \in Offsets(p),
         NEW x, NEW y, ItemsLocal(p, x, y)
  PROVE  Same(p, off, deserialize_array(p, off, x), deserialize_array(buf, off, y))
<1> DEFINE a == deserialize_varint(p, off)
           b == deserialize_varint(buf, off)
<1>1. Same(p, off, a, b) /\ (~Failed(a) => a.val \in Nat)
  BY VarintLocal
<1>2. deserialize_array(p, off, x) = IF Failed(a) THEN Fail ELSE Repeat(a.val, a.at, x)
  BY DEF deserialize_array
<1>3. deserialize_array(buf, off, y) = IF Failed(b) THEN Fail ELSE Repeat(b.val, b.at, y)
  BY DEF deserialize_array
<1> HIDE DEF a, b
<1>4. CASE Failed(a)
  BY <1>2, <1>4, FailStays DEF Same
<1>5. CASE ~Failed(a)
  <2>1. a = b /\ a.at \in Offsets(p) /\ off <= a.at
    BY <1>1, <1>5, SameFacts DEF Failed
  <2>2. /\ deserialize_array(p, off, x) = Repeat(a.val, a.at, x)
        /\ deserialize_array(buf, off, y) = Repeat(a.val, a.at, y)
    BY <1>2, <1>3, <1>5, <2>1
  <2>3. Same(p, a.at, Repeat(a.val, a.at, x), Repeat(a.val, a.at, y))
    BY <1>1, <1>5, <2>1, RepeatLocal
  <2> QED
    BY <2>1, <2>2, <2>3, SameLater
<1> QED
  BY <1>4, <1>5

LEMMA TxinLocal ==
  ASSUME NEW p \in Seq(Byte), NEW buf \in Seq(Byte), Begins(p, buf), NEW off \in Offsets(p)
  PROVE  Same(p, off, deserialize_txin(p, off), deserialize_txin(buf, off))
<1> DEFINE In(h, x, s, q) ==
             Result([prevout_hash |-> h.val, prevout_index |-> x.val,
                     sig_script |-> s.val, sequence |-> q.val], q.at)
           h == Take(p, off, 32)
           x == get_le(p, h.at, 4)
           s == deserialize_varstr(p, x.at)
           q == get_le(p, s.at, 4)
           h2 == Take(buf, off, 32)
           x2 == get_le(buf, h2.at, 4)
           s2 == deserialize_varstr(buf, x2.at)
           q2 == get_le(buf, s2.at, 4)
<1>1. deserialize_txin(p, off) = In(h, x, s, q)
  BY DEF deserialize_txin, Result
<1>2. deserialize_txin(buf, off) = In(h2, x2, s2, q2)
  BY DEF deserialize_txin, Result
<1>n. 4 \in Nat /\ 32 \in Nat
  OBVIOUS
<1> HIDE DEF In
<1>3. In(h, x, s, q).at = q.at
  BY DEF In, Result
<1>4. CASE q.at = -1
  BY <1>1, <1>3, <1>4 DEF Same, Failed
<1>5. CASE q.at # -1
  <2>1. s.at # -1
    BY <1>5, FailStays
  <2>2. x.at # -1
    BY <2>1, FailStays
  <2>3. h.at # -1
    BY <2>2, FailStays
  <2>4. Same(p, off, h, h2)
    BY <1>n, TakeLocal, Zenon
  <2>5. h = h2 /\ h.at \in Offsets(p) /\ off <= h.at
    <3> HIDE DEF h, h2
    <3> QED
      BY <2>3, <2>4, SameFacts
  <2>6. Same(p, h.at, x, x2)
    <3>1. x2 = get_le(buf, h.at, 4)
      BY <2>5, Zenon
    <3> HIDE DEF h, h2, x2
    <3>2. Same(p, h.at, x, get_le(buf, h.at, 4))
      BY <1>n, <2>5, NumberLocal, Zenon
    <3> QED
      BY <3>1, <3>2, Zenon
  <2>7. x = x2 /\ x.at \in Offsets(p) /\ h.at <= x.at
    <3> HIDE DEF x, x2, h, h2
    <3> QED
      BY <2>2, <2>5, <2>6, SameFacts
  <2>8. Same(p, x.at, s, s2)
    <3>1. s2 = deserialize_varstr(buf, x.at)
      BY <2>7, Zenon
    <3> HIDE DEF h, h2, x, x2, s2
    <3>2. Same(p, x.at, s, deserialize_varstr(buf, x.at))
      BY <2>7, StringLocal, Zenon
    <3> QED
      BY <3>1, <3>2, Zenon
  <2>9. s = s2 /\ s.at \in Offsets(p) /\ x.at <= s.at
    <3> HIDE DEF x, x2, s, s2
    <3> QED
      BY <2>1, <2>7, <2>8, SameFacts
  <2>10. Same(p, s.at, q, q2)
    <3>1. q2 = get_le(buf, s.at, 4)
      BY <2>9, Zenon
    <3> HIDE DEF h, h2, x, x2, s, s2, q2
    <3>2. Same(p, s.at, q, get_le(buf, s.at, 4))
      BY <1>n, <2>9, NumberLocal, Zenon
    <3> QED
      BY <3>1, <3>2, Zenon
  <2> HIDE DEF h, h2, x, x2, s, s2, q, q2
  <2>11. q = q2 /\ q.at \in Nat /\ s.at <= q.at /\ q.at <= Len(p)
    BY <1>5, <2>9, <2>10, SameFacts
  <2>12. off \in Nat /\ h.at \in Nat /\ x.at \in Nat /\ s.at \in Nat /\ Len(p) \in Nat
    BY <2>5, <2>7, <2>9 DEF Offsets
  <2>13. q.at \in off .. Len(p)
    BY <2>5, <2>7, <2>9, <2>11, <2>12
  <2>14. In(h, x, s, q) = In(h2, x2, s2, q2)
    BY <2>5, <2>7, <2>9, <2>11
  <2> QED
    BY <1>1, <1>2, <1>3, <2>13, <2>14 DEF Same
<1> QED
  BY <1>4, <1>5

LEMMA TxoutLocal ==
  ASSUME NEW p \in Seq(Byte), NEW buf \in Seq(Byte), Begins(p, buf), NEW off \in Offsets(p)
  PROVE  Same(p, off, deserialize_txout(p, off), deserialize_txout(buf, off))
<1> DEFINE Out(x, s) == Result([value |-> x.val, script |-> s.val], s.at)
           x == get_le(p, off, 8)
           s == deserialize_varstr(p, x.at)
           x2 == get_le(buf, off, 8)
           s2 == deserialize_varstr(buf, x2.at)
<1>1. deserialize_txout(p, off) = Out(x, s)
  BY DEF deserialize_txout, Result
<1>2. deserialize_txout(buf, off) = Out(x2, s2)
  BY DEF deserialize_txout, Result
<1>n. 8 \in Nat
  OBVIOUS
<1> HIDE DEF Out
<1>3. Out(x, s).at = s.at
  BY DEF Out, Result
<1>4. CASE s.at = -1
  BY <1>1, <1>3, <1>4 DEF Same, Failed
<1>5. CASE s.at # -1
  <2>2. x.at # -1
    BY <1>5, FailStays
  <2>6. Same(p, off, x, x2)
    BY <1>n, NumberLocal, Zenon
  <2>7. x = x2 /\ x.at \in Offsets(p) /\ off <= x.at
    <3> HIDE DEF x, x2
    <3> QED
      BY <2>2, <2>6, SameFacts
  <2>8. Same(p, x.at, s, s2)
    <3>1. s2 = deserialize_varstr(buf, x.at)
      BY <2>7, Zenon
    <3> HIDE DEF x, x2, s2
    <3>2. Same(p, x.at, s, deserialize_varstr(buf, x.at))
      BY <2>7, StringLocal, Zenon
    <3> QED
      BY <3>1, <3>2, Zenon
  <2> HIDE DEF x, x2, s, s2
  <2>9. s = s2 /\ s.at \in Nat /\ x.at <= s.at /\ s.at <= Len(p)
    BY <1>5, <2>7, <2>8, SameFacts
  <2>12. off \in Nat /\ x.at \in Nat /\ Len(p) \in Nat
    BY <2>7 DEF Offsets
  <2>13. s.at \in off .. Len(p)
    BY <2>7, <2>9, <2>12
  <2>14. Out(x, s) = Out(x2, s2)
    BY <2>7, <2>9
  <2> QED
    BY <1>1, <1>2, <1>3, <2>13, <2>14 DEF Same
<1> QED
  BY <1>4, <1>5

\* The readers of items that the arrays of a transaction are read with.
LEMMA ListsLocal ==
  ASSUME NEW p \in Seq(Byte), NEW buf \in Seq(Byte), Begins(p, buf)
  PROVE  /\ ItemsLocal(p, [o \in Offsets(p) |-> deserialize_txin(p, o)],
                          [o \in Offsets(buf) |-> deserialize_txin(buf, o)])
         /\ ItemsLocal(p, [o \in Offsets(p) |-> deserialize_txout(p, o)],
                          [o \in Offsets(buf) |-> deserialize_txout(buf, o)])
         /\ ItemsLocal(p, [o \in Offsets(p) |-> deserialize_varstr(p, o)],
                          [o \in Offsets(buf) |-> deserialize_varstr(buf, o)])
<1>1. \A o \in Offsets(p) : o \in Offsets(buf)
  BY DEF Begins, Offsets
<1>2. ItemsLocal(p, [o \in Offsets(p) |-> deserialize_txin(p, o)],
                    [o \in Offsets(buf) |-> deserialize_txin(buf, o)])
  BY <1>1, TxinLocal DEF ItemsLocal
<1>3. ItemsLocal(p, [o \in Offsets(p) |-> deserialize_txout(p, o)],
                    [o \in Offsets(buf) |-> deserialize_txout(buf, o)])
  BY <1>1, TxoutLocal DEF ItemsLocal
<1>4. ItemsLocal(p, [o \in Offsets(p) |-> deserialize_varstr(p, o)],
                    [o \in Offsets(buf) |-> deserialize_varstr(buf, o)])
  BY <1>1, StringLocal DEF ItemsLocal
<1> QED
  BY <1>2, <1>3, <1>4

LEMMA StackLocal ==
  ASSUME NEW p \in Seq(Byte), NEW buf \in Seq(Byte), Begins(p, buf), NEW off \in Offsets(p)
  PROVE  Same(p, off, deserialize_array_of_varstr_as_varstr(p, off),
                      deserialize_array_of_varstr_as_varstr(buf, off))
<1> DEFINE a == deserialize_array(p, off, [o \in Offsets(p) |-> deserialize_varstr(p, o)])
           b == deserialize_array(buf, off, [o \in Offsets(buf) |-> deserialize_varstr(buf, o)])
<1>1. Same(p, off, a, b)
  BY ListsLocal, ArrayLocal
<1>2. deserialize_array_of_varstr_as_varstr(p, off) = IF Failed(a) THEN Fail ELSE Take(p, off, a.at - off)
  BY DEF deserialize_array_of_varstr_as_varstr
<1>3. deserialize_array_of_varstr_as_varstr(buf, off) = IF Failed(b) THEN Fail ELSE Take(buf, off, b.at - off)
  BY DEF deserialize_array_of_varstr_as_varstr
<1> HIDE DEF a, b
<1>4. CASE Failed(a)
  BY <1>2, <1>4, FailStays DEF Same
<1>5. CASE ~Failed(a)
  <2>1. a = b /\ a.at \in Nat /\ off <= a.at /\ off \in Nat
    BY <1>1, <1>5, SameFacts DEF Failed, Offsets
  <2> DEFINE n == a.at - off
  <2>2. n \in Nat
    BY <2>1
  <2>3. /\ deserialize_array_of_varstr_as_varstr(p, off) = Take(p, off, n)
        /\ deserialize_array_of_varstr_as_varstr(buf, off) = Take(buf, off, n)
    BY <1>2, <1>3, <1>5, <2>1
  <2> HIDE DEF n
  <2> QED
    BY <2>2, <2>3, TakeLocal
<1> QED
  BY <1>4, <1>5

LEMMA StacksLocal ==
  ASSUME NEW p \in Seq(Byte), NEW buf \in Seq(Byte), Begins(p, buf)
  PROVE  ItemsLocal(p, [o \in Offsets(p) |-> deserialize_array_of_varstr_as_varstr(p, o)],
                       [o \in Offsets(buf) |-> deserialize_array_of_varstr_as_varstr(buf, o)])
<1>1. \A o \in Offsets(p) : o \in Offsets(buf)
  BY DEF Begins, Offsets
<1> QED
  BY <1>1, StackLocal DEF ItemsLocal

\* An encoding that misses bytes at its end is refused.
LEMMA CutFails ==
  ASSUME NEW buf \in Seq(Byte), NEW t, Kept(t), NEW ins, InsEncoded(ins, t.txins),
         NEW outs, OutsEncoded(outs, t.txouts),
         NEW p, NEW q, NEW r, NEW z, Laid(buf, t, ins, outs, p, q, r, z),
         NEW cut \in Seq(Byte), Begins(cut, buf), Len(cut) < z + 4
  PROVE  Failed(Transaction(cut, TRUE))
<1>1. /\ t.txins \in Seq(TxIns) /\ t.txouts \in Seq(TxOuts) /\ t.witness \in Seq(Seq(Byte))
      /\ t.txins # <<>>
      /\ t.witness # NoWitness => Len(t.witness) = Len(t.txins)
      /\ \A i \in 1 .. Len(t.witness) : IsStack(t.witness[i])
  BY KeptFacts
<1>o. outs \in Seq(Byte)
  <2>1. 0 \in Nat
    OBVIOUS
  <2> QED
    BY <1>1, <2>1, OutsRead
<1>2. /\ p \in Nat /\ q \in Nat /\ r \in Nat /\ z \in Nat /\ p >= 4
      /\ p = (IF t.witness # NoWitness THEN 6 ELSE 4)
      /\ has_witness_data(buf) <=> t.witness # NoWitness
  BY <1>o, MarkerRead
<1>3. /\ q = p + Len(ins) /\ r = q + Len(outs) /\ z = r + Len(Stacks(t.witness))
      /\ Has(buf, p, ins) /\ Has(buf, q, outs) /\ Has(buf, r, Stacks(t.witness))
  BY DEF Laid
<1> SUFFICES ASSUME ~Failed(Transaction(cut, TRUE))
             PROVE  FALSE
  OBVIOUS
<1> DEFINE start == IF has_witness_data(cut) THEN 6 ELSE 4
           txins == deserialize_array(cut, start, [o \in Offsets(cut) |-> deserialize_txin(cut, o)])
           txouts == deserialize_txouts(cut, txins.at)
           witness == IF has_witness_data(cut)
                      THEN Repeat(Len(txins.val), txouts.at,
                             [o \in Offsets(cut) |-> deserialize_array_of_varstr_as_varstr(cut, o)])
                      ELSE Result(NoWitness, txouts.at)
           locktime == get_le(cut, witness.at, 4)
<1>4. Transaction(cut, TRUE) = Whole(cut, start, txins, txouts, witness)
  BY DEF Transaction, AfterIns, AfterOuts, Result
<1>5. /\ ~Failed(Take(cut, 4, 2)) /\ txins.at # -1 /\ txouts.at # -1 /\ witness.at # -1
      /\ locktime.at # -1
  <2> HIDE DEF start, txins, txouts, witness
  <2>1. Whole(cut, start, txins, txouts, witness) # Fail
    BY <1>4, FailStays
  <2>2. ~(Failed(Take(cut, 4, 2)) \/ Failed(txins) \/ txins.val = <<>> \/ Failed(txouts)
           \/ Failed(witness) \/ Failed(locktime))
    BY <2>1 DEF Whole
  <2> QED
    BY <2>2 DEF Failed
<1>6. Len(cut) >= 6 /\ Len(cut) \in Nat
  <2>1. Len(cut) \in Nat
    OBVIOUS
  <2>2. CASE 4 + 2 > Len(cut)
    <3>1. Take(cut, 4, 2) = Fail
      BY <2>2 DEF Take
    <3> QED
      BY <1>5, <3>1, FailStays
  <2> QED
    BY <2>1, <2>2
<1>7. has_witness_data(cut) <=> has_witness_data(buf)
  <2>1. 4 \in Offsets(cut) /\ 2 \in Nat
    BY <1>6 DEF Offsets
  <2>2. Same(cut, 4, Take(cut, 4, 2), Take(buf, 4, 2))
    BY <2>1, TakeLocal
  <2>3. Take(cut, 4, 2) = Take(buf, 4, 2)
    BY <1>5, <2>2 DEF Same
  <2> QED
    BY <2>3 DEF has_witness_data
<1>8. start = p /\ p \in Offsets(cut)
  BY <1>2, <1>6, <1>7 DEF Offsets
<1>9. txins = Result(t.txins, q) /\ q \in Offsets(cut)
  <2> DEFINE whole == deserialize_array(buf, p, [o \in Offsets(buf) |-> deserialize_txin(buf, o)])
  <2>1. whole = Result(t.txins, p + Len(ins))
    BY <1>1, <1>2, <1>3, InsRead
  <2>2. txins = deserialize_array(cut, p, [o \in Offsets(cut) |-> deserialize_txin(cut, o)])
    BY <1>8
  <2>3. Same(cut, p, txins, whole)
    BY <1>8, <2>2, ListsLocal, ArrayLocal
  <2>4. whole = Result(t.txins, q)
    BY <1>3, <2>1
  <2> HIDE DEF whole, txins
  <2>5. txins = whole /\ txins.at \in Offsets(cut)
    BY <1>5, <1>8, <2>3, SameFacts
  <2>6. txins.at = q
    BY <1>2, <2>4, <2>5, Opened
  <2> QED
    BY <2>4, <2>5, <2>6
<1>10. txins.val = t.txins /\ txins.at = q
  <2> HIDE DEF txins
  <2> QED
    BY <1>2, <1>9, Opened
<1>11. txouts = Result(t.txouts, r) /\ r \in Offsets(cut)
  <2> DEFINE whole == deserialize_txouts(buf, q)
             mine == deserialize_txouts(cut, q)
  <2>1. whole = Result(t.txouts, q + Len(outs))
    BY <1>1, <1>2, <1>3, OutsRead
  <2>2. txouts = mine
    BY <1>10
  <2>3. Same(cut, q, mine, whole)
    BY <1>9, ListsLocal, ArrayLocal DEF deserialize_txouts
  <2>4. whole = Result(t.txouts, r)
    BY <1>3, <2>1
  <2> HIDE DEF whole, mine, txouts
  <2>5. mine = whole /\ mine.at \in Offsets(cut)
    BY <1>5, <1>9, <2>2, <2>3, SameFacts
  <2>6. mine.at = r
    BY <1>2, <2>4, <2>5, Opened
  <2> QED
    BY <2>2, <2>4, <2>5, <2>6
<1>12. txouts.at = r
  <2> HIDE DEF txouts
  <2> QED
    BY <1>2, <1>11, Opened
<1>13. witness.at = z /\ z \in Offsets(cut)
  <2>1. CASE t.witness # NoWitness
    <3> DEFINE whole == Repeat(Len(t.witness), r,
                          [o \in Offsets(buf) |-> deserialize_array_of_varstr_as_varstr(buf, o)])
               mine == Repeat(Len(t.witness), r,
                          [o \in Offsets(cut) |-> deserialize_array_of_varstr_as_varstr(cut, o)])
    <3>1. Stacks(t.witness) = FlattenSeq(t.witness) /\ Len(t.txins) = Len(t.witness)
      BY <1>1, <2>1 DEF Stacks
    <3>2. Has(buf, r, FlattenSeq(t.witness)) /\ Len(t.witness) \in Nat
      BY <1>1, <1>3, <3>1
    <3>3. whole = Result(t.witness, r + Len(FlattenSeq(t.witness)))
      BY <1>1, <1>2, <3>2, StacksRead, Zenon
    <3>4. witness = mine
      <4> HIDE DEF txins, txouts
      <4> QED
        BY <1>2, <1>7, <1>10, <1>12, <2>1, <3>1
    <3>5. Same(cut, r, mine, whole)
      BY <1>11, <3>2, StacksLocal, RepeatLocal
    <3>6. whole = Result(t.witness, z)
      BY <1>3, <3>1, <3>3
    <3> HIDE DEF whole, mine, witness
    <3>7. mine = whole /\ mine.at \in Offsets(cut)
      BY <1>5, <1>11, <3>4, <3>5, SameFacts
    <3>8. mine.at = z
      BY <1>2, <3>6, <3>7, Opened
    <3> QED
      BY <3>4, <3>7, <3>8
  <2>2. CASE t.witness = NoWitness
    <3>1. Stacks(t.witness) = <<>> /\ Len(<<>>) = 0
      BY <2>2, EmptySeq DEF Stacks
    <3>2. z = r
      BY <1>2, <1>3, <3>1
    <3>3. witness = Result(NoWitness, r)
      <4> HIDE DEF txins, txouts
      <4> QED
        BY <1>2, <1>7, <1>12, <2>2
    <3> HIDE DEF witness
    <3>4. witness.at = r
      BY <1>2, <3>3, Opened
    <3> QED
      BY <1>11, <3>2, <3>4
  <2> QED
    BY <2>1, <2>2
<1>14. locktime = get_le(cut, z, 4)
  <2> HIDE DEF witness
  <2> QED
    BY <1>13
<1> HIDE DEF locktime, witness, txins, txouts, start
<1>15. Take(cut, z, 4) = Fail
  BY <1>2, <1>6, <1>13 DEF Take
<1>16. locktime = Fail
  BY <1>14, <1>15, FailStays DEF get_le
<1> QED
  BY <1>5, <1>16, FailStays

---------------------------------------------------------------------------
(* What the code and the peers write, and how long it is. *)

LEMMA ListsWritten ==
  ASSUME NEW k \in 0 .. (Power[4] - 2), NEW a \in Seq(Seq(Byte)), NEW b \in Seq(Seq(Byte)),
         Len(a) = k, Len(b) = k, \A i \in 1 .. k : Len(b[i]) <= Len(a[i])
  PROVE  /\ Len(serialize_array(a)) = length_varint(k) + Total([i \in 1 .. k |-> Len(a[i])])
         /\ Len(serialize_array(a)) \in Nat /\ Len(CanonicalList(b)) \in Nat
         /\ Len(CanonicalList(b)) <= Len(serialize_array(a))
         /\ Len(CanonicalList(b)) = Len(serialize_array(a))
              <=> k # Power[2] - 1 /\ \A i \in 1 .. k : Len(a[i]) = Len(b[i])
<1> DEFINE n == serialize_varint(k)
           m == Canonical(k)
           x == [i \in 1 .. k |-> Len(a[i])]
           y == [i \in 1 .. k |-> Len(b[i])]
           s == Len(n)
           c == Len(m)
           f == Len(FlattenSeq(a))
           g == Len(FlattenSeq(b))
<1>k. k \in Nat
  BY PowerFacts
<1>1. /\ Varint(n, k) /\ Varint(m, k) /\ length_varint(k) = s
      /\ k # Power[2] - 1 => n = m
      /\ k = Power[2] - 1 => s = c + 2
  BY VarintsWritten
<1>2. x \in Seq(Nat) /\ y \in Seq(Nat) /\ Len(x) = k /\ Len(y) = k /\ \A i \in 1 .. k : y[i] <= x[i]
  BY <1>k
<1>3. f = Total(x) /\ g = Total(y)
  BY FlattenFacts
<1>4. (\A i \in 1 .. k : x[i] = y[i]) <=> \A i \in 1 .. k : Len(a[i]) = Len(b[i])
  OBVIOUS
<1>5. Len(serialize_array(a)) = s + f /\ s \in Nat /\ f \in Nat
  <2>1. serialize_array(a) = n \o FlattenSeq(a)
    BY DEF serialize_array
  <2> DEFINE enc == serialize_array(a)
  <2> HIDE DEF n, enc
  <2>2. enc = n \o FlattenSeq(a)
    BY <2>1 DEF enc
  <2>3. Len(enc) = Len(n) + Len(FlattenSeq(a)) /\ Len(n) \in Nat /\ Len(FlattenSeq(a)) \in Nat
    BY <1>k, <1>1, <2>2, ListFacts
  <2> QED
    BY <2>3 DEF enc
<1>6. Len(CanonicalList(b)) = c + g /\ c \in Nat /\ g \in Nat
  <2>1. CanonicalList(b) = m \o FlattenSeq(b)
    BY DEF CanonicalList
  <2> DEFINE enc == CanonicalList(b)
  <2> HIDE DEF m, enc
  <2>2. enc = m \o FlattenSeq(b)
    BY <2>1 DEF enc
  <2>3. Len(enc) = Len(m) + Len(FlattenSeq(b)) /\ Len(m) \in Nat /\ Len(FlattenSeq(b)) \in Nat
    BY <1>k, <1>1, <2>2, ListFacts
  <2> QED
    BY <2>3 DEF enc
<1> DEFINE A == Len(serialize_array(a))
           B == Len(CanonicalList(b))
           AllSame == \A i \in 1 .. k : x[i] = y[i]
<1>s. k # Power[2] - 1 => s = c
  BY <1>1
<1>t. /\ k = Power[2] - 1 => s = c + 2
      /\ length_varint(k) = s
  BY <1>1
<1>i. A = s + f /\ B = c + g
  BY <1>5, <1>6
<1> HIDE DEF n, m, x, y, s, c, f, g, A, B
<1>7. Total(y) <= Total(x) /\ (Total(x) = Total(y) <=> AllSame)
  BY <1>k, <1>2, TotalsCompared
<1> HIDE DEF AllSame
<1>8. g <= f /\ (f = g <=> AllSame)
  BY <1>3, <1>7
<1>9. /\ A = length_varint(k) + Total(x) /\ A \in Nat /\ B \in Nat /\ B <= A
  BY <1>3, <1>5, <1>6, <1>8, <1>s, <1>t, <1>i
<1>10. B = A <=> k # Power[2] - 1 /\ f = g
  BY <1>5, <1>6, <1>8, <1>s, <1>t, <1>i
<1>11. B = A <=> k # Power[2] - 1 /\ AllSame
  BY <1>8, <1>10
<1> QED
  BY <1>4, <1>9, <1>11 DEF A, B, AllSame, x

CanonIn(i) ==
  i.prevout_hash \o LE(i.prevout_index, 4) \o CanonicalStr(i.sig_script) \o LE(i.sequence, 4)

CanonOut(o) == LE(o.value, 8) \o CanonicalStr(o.script)

LEMMA StringsWritten ==
  ASSUME NEW s \in Short(Byte)
  PROVE  /\ StringBytes(serialize_varstr(s), s) /\ StringBytes(CanonicalStr(s), s)
         /\ serialize_varstr(s) \in Seq(Byte) /\ CanonicalStr(s) \in Seq(Byte)
         /\ Len(serialize_varstr(s)) = length_varint(Len(s)) + Len(s)
         /\ Len(CanonicalStr(s)) \in Nat /\ Len(serialize_varstr(s)) \in Nat
         /\ Len(s) # Power[2] - 1 => serialize_varstr(s) = CanonicalStr(s)
         /\ Len(s) = Power[2] - 1 => Len(serialize_varstr(s)) = Len(CanonicalStr(s)) + 2
<1> DEFINE k == Len(s)
           n == serialize_varint(k)
           m == Canonical(k)
<1>1. s \in Seq(Byte) /\ k \in Nat /\ k \in 0 .. (Power[4] - 2) /\ k = Len(s)
  BY ShortFacts
<1>2. /\ Varint(n, k) /\ Varint(m, k) /\ length_varint(k) = Len(n)
      /\ k # Power[2] - 1 => n = m
      /\ k = Power[2] - 1 => Len(n) = Len(m) + 2
  BY <1>1, VarintsWritten
<1>3. serialize_varstr(s) = n \o s /\ CanonicalStr(s) = m \o s
  BY DEF serialize_varstr, CanonicalStr
<1> HIDE DEF k, n, m
<1>4. n \in Seq(Byte) /\ m \in Seq(Byte) /\ Len(n) \in Nat /\ Len(m) \in Nat
  BY <1>1, <1>2, VarintType
<1>5. n \o s \in Seq(Byte) /\ m \o s \in Seq(Byte) /\ Len(n \o s) = Len(n) + k /\ Len(m \o s) = Len(m) + k
  BY <1>1, <1>4, ConcatProperties
<1>6. StringBytes(n \o s, s) /\ StringBytes(m \o s, s)
  BY <1>1, <1>2 DEF StringBytes
<1>7. Len(n) + k \in Nat /\ Len(m) + k \in Nat /\ (Len(n) = Len(m) + 2 => Len(n) + k = Len(m) + k + 2)
  BY <1>1, <1>4
<1> QED
  BY <1>1, <1>2, <1>3, <1>5, <1>6, <1>7

LEMMA FourLong ==
  ASSUME NEW a \in Seq(Byte), NEW b \in Seq(Byte), NEW c \in Seq(Byte), NEW d \in Seq(Byte)
  PROVE  /\ a \o b \o c \o d \in Seq(Byte)
         /\ Len(a \o b \o c \o d) = Len(a) + Len(b) + Len(c) + Len(d)
<1>1. 0 \in Nat
  OBVIOUS
<1> QED
  BY <1>1, HasFour

LEMMA InWritten ==
  ASSUME NEW i \in TxIns
  PROVE  /\ InBytes(serialize_txin(i), i) /\ InBytes(CanonIn(i), i)
         /\ serialize_txin(i) \in Seq(Byte) /\ CanonIn(i) \in Seq(Byte)
         /\ Len(serialize_txin(i)) = 40 + length_varint(Len(i.sig_script)) + Len(i.sig_script)
         /\ Len(CanonIn(i)) <= Len(serialize_txin(i))
         /\ Len(i.sig_script) # Power[2] - 1 => serialize_txin(i) = CanonIn(i)
         /\ Len(serialize_txin(i)) = Len(CanonIn(i)) <=> Len(i.sig_script) # Power[2] - 1
<1> DEFINE h == i.prevout_hash
           x == LE(i.prevout_index, 4)
           q == LE(i.sequence, 4)
           s == i.sig_script
           e == serialize_varstr(s)
           c == CanonicalStr(s)
<1>1. h \in [1 .. 32 -> Byte] /\ i.prevout_index \in U32 /\ i.sequence \in U32 /\ s \in Short(Byte)
  BY DEF TxIns
<1>2. x \in Seq(Byte) /\ Len(x) = 4 /\ q \in Seq(Byte) /\ Len(q) = 4
  BY <1>1, Numbers
<1>3. h \in Seq(Byte) /\ Len(h) = 32
  BY <1>1, FixedWidth
<1>4. /\ StringBytes(e, s) /\ StringBytes(c, s) /\ e \in Seq(Byte) /\ c \in Seq(Byte)
      /\ Len(e) = length_varint(Len(s)) + Len(s) /\ Len(c) \in Nat /\ Len(e) \in Nat
      /\ Len(s) # Power[2] - 1 => e = c
      /\ Len(s) = Power[2] - 1 => Len(e) = Len(c) + 2
  BY <1>1, StringsWritten
<1>5. serialize_txin(i) = h \o x \o e \o q /\ CanonIn(i) = h \o x \o c \o q
  BY DEF serialize_txin, CanonIn
<1>6. InBytes(serialize_txin(i), i) /\ InBytes(CanonIn(i), i)
  BY <1>4, <1>5 DEF InBytes
<1>n. Len(s) \in Nat /\ length_varint(Len(s)) \in Nat
  <2>1. Len(s) \in Nat
    BY <1>1, ShortFacts
  <2> QED
    BY <2>1 DEF length_varint
<1> HIDE DEF h, x, q, s, e, c
<1>7. h \o x \o e \o q \in Seq(Byte) /\ Len(h \o x \o e \o q) = Len(h) + Len(x) + Len(e) + Len(q)
  <2>1. h \in Seq(Byte) /\ x \in Seq(Byte) /\ e \in Seq(Byte) /\ q \in Seq(Byte)
    BY <1>2, <1>3, <1>4
  <2> QED
    BY <2>1, FourLong
<1>8. h \o x \o c \o q \in Seq(Byte) /\ Len(h \o x \o c \o q) = Len(h) + Len(x) + Len(c) + Len(q)
  <2>1. h \in Seq(Byte) /\ x \in Seq(Byte) /\ c \in Seq(Byte) /\ q \in Seq(Byte)
    BY <1>2, <1>3, <1>4
  <2> QED
    BY <2>1, FourLong
<1> DEFINE A == Len(serialize_txin(i))
           C == Len(CanonIn(i))
           l == length_varint(Len(s))
           n == Len(s)
           le == Len(e)
           lc == Len(c)
<1>9. A = 32 + 4 + le + 4 /\ C = 32 + 4 + lc + 4
  BY <1>2, <1>3, <1>5, <1>7, <1>8
<1>10. /\ le = l + n /\ lc \in Nat /\ le \in Nat /\ n \in Nat /\ l \in Nat
       /\ n # Power[2] - 1 => le = lc
       /\ n = Power[2] - 1 => le = lc + 2
  BY <1>4, <1>n
<1> HIDE DEF A, C, l, n, le, lc
<1>11. A = 40 + l + n /\ C <= A /\ (A = C <=> n # Power[2] - 1)
  BY <1>9, <1>10
<1>12. n # Power[2] - 1 => serialize_txin(i) = CanonIn(i)
  BY <1>4, <1>5 DEF n
<1> QED
  BY <1>5, <1>6, <1>7, <1>8, <1>11, <1>12 DEF A, C, l, n, s

LEMMA OutWritten ==
  ASSUME NEW o \in TxOuts
  PROVE  /\ OutBytes(serialize_txout(o), o) /\ OutBytes(CanonOut(o), o)
         /\ serialize_txout(o) \in Seq(Byte) /\ CanonOut(o) \in Seq(Byte)
         /\ Len(serialize_txout(o)) = 8 + length_varint(Len(o.script)) + Len(o.script)
         /\ Len(CanonOut(o)) <= Len(serialize_txout(o))
         /\ Len(o.script) # Power[2] - 1 => serialize_txout(o) = CanonOut(o)
         /\ Len(serialize_txout(o)) = Len(CanonOut(o)) <=> Len(o.script) # Power[2] - 1
<1> DEFINE x == LE(o.value, 8)
           s == o.script
           e == serialize_varstr(s)
           c == CanonicalStr(s)
<1>1. o.value \in 0 .. (Power[8] - 1) /\ s \in Short(Byte)
  BY DEF TxOuts
<1>2. x \in Seq(Byte) /\ Len(x) = 8
  BY <1>1, Numbers
<1>4. /\ StringBytes(e, s) /\ StringBytes(c, s) /\ e \in Seq(Byte) /\ c \in Seq(Byte)
      /\ Len(e) = length_varint(Len(s)) + Len(s) /\ Len(c) \in Nat /\ Len(e) \in Nat
      /\ Len(s) # Power[2] - 1 => e = c
      /\ Len(s) = Power[2] - 1 => Len(e) = Len(c) + 2
  BY <1>1, StringsWritten
<1>5. serialize_txout(o) = x \o e /\ CanonOut(o) = x \o c
  BY DEF serialize_txout, CanonOut
<1>6. OutBytes(serialize_txout(o), o) /\ OutBytes(CanonOut(o), o)
  BY <1>4, <1>5 DEF OutBytes
<1>n. Len(s) \in Nat /\ length_varint(Len(s)) \in Nat
  <2>1. Len(s) \in Nat
    BY <1>1, ShortFacts
  <2> QED
    BY <2>1 DEF length_varint
<1> HIDE DEF x, s, e, c
<1>7. x \o e \in Seq(Byte) /\ Len(x \o e) = Len(x) + Len(e)
  BY <1>2, <1>4, ConcatProperties
<1>8. x \o c \in Seq(Byte) /\ Len(x \o c) = Len(x) + Len(c)
  BY <1>2, <1>4, ConcatProperties
<1> DEFINE A == Len(serialize_txout(o))
           C == Len(CanonOut(o))
           l == length_varint(Len(s))
           n == Len(s)
           le == Len(e)
           lc == Len(c)
<1>9. A = 8 + le /\ C = 8 + lc
  BY <1>2, <1>5, <1>7, <1>8
<1>10. /\ le = l + n /\ lc \in Nat /\ le \in Nat /\ n \in Nat /\ l \in Nat
       /\ n # Power[2] - 1 => le = lc
       /\ n = Power[2] - 1 => le = lc + 2
  BY <1>4, <1>n
<1> HIDE DEF A, C, l, n, le, lc
<1>11. A = 8 + l + n /\ C <= A /\ (A = C <=> n # Power[2] - 1)
  BY <1>9, <1>10
<1>12. n # Power[2] - 1 => serialize_txout(o) = CanonOut(o)
  BY <1>4, <1>5 DEF n
<1> QED
  BY <1>5, <1>6, <1>7, <1>8, <1>11, <1>12 DEF A, C, l, n, s

TwoIns(txs) == Len(txs) = Power[2] - 1 \/ \E i \in 1 .. Len(txs) : Len(txs[i].sig_script) = Power[2] - 1

LEMMA InsWritten ==
  ASSUME NEW txs \in Short(TxIns)
  PROVE  /\ InsEncoded(InsBytes(txs), txs) /\ InsEncoded(CanonicalIns(txs), txs)
         /\ Len(InsBytes(txs)) = length_varint(Len(txs))
              + Total([i \in DOMAIN txs |->
                         40 + length_varint(Len(txs[i].sig_script)) + Len(txs[i].sig_script)])
         /\ Len(InsBytes(txs)) \in Nat /\ Len(CanonicalIns(txs)) \in Nat
         /\ Len(CanonicalIns(txs)) <= Len(InsBytes(txs))
         /\ ~TwoIns(txs) => InsBytes(txs) = CanonicalIns(txs)
         /\ Len(CanonicalIns(txs)) = Len(InsBytes(txs)) <=> ~TwoIns(txs)
<1> DEFINE k == Len(txs)
           a == [i \in 1 .. k |-> serialize_txin(txs[i])]
           b == [i \in 1 .. k |-> CanonIn(txs[i])]
           l == [i \in 1 .. k |-> 40 + length_varint(Len(txs[i].sig_script)) + Len(txs[i].sig_script)]
<1>1. txs \in Seq(TxIns) /\ k \in Nat /\ k \in 0 .. (Power[4] - 2) /\ DOMAIN txs = 1 .. k
  <2>1. txs \in Seq(TxIns) /\ k \in Nat /\ k \in 0 .. (Power[4] - 2)
    BY ShortFacts
  <2> QED
    BY <2>1
<1>2. \A i \in 1 .. k : txs[i] \in TxIns
  BY <1>1
<1>3. ASSUME NEW i \in 1 .. k
      PROVE  /\ InBytes(serialize_txin(txs[i]), txs[i]) /\ InBytes(CanonIn(txs[i]), txs[i])
             /\ serialize_txin(txs[i]) \in Seq(Byte) /\ CanonIn(txs[i]) \in Seq(Byte)
             /\ Len(serialize_txin(txs[i])) = 40 + length_varint(Len(txs[i].sig_script)) + Len(txs[i].sig_script)
             /\ Len(CanonIn(txs[i])) <= Len(serialize_txin(txs[i]))
             /\ Len(txs[i].sig_script) # Power[2] - 1 => serialize_txin(txs[i]) = CanonIn(txs[i])
             /\ Len(serialize_txin(txs[i])) = Len(CanonIn(txs[i])) <=> Len(txs[i].sig_script) # Power[2] - 1
  BY <1>2, <1>3, InWritten
<1>4. /\ a \in Seq(Seq(Byte)) /\ Len(a) = k /\ b \in Seq(Seq(Byte)) /\ Len(b) = k
      /\ \A i \in 1 .. k : a[i] = serialize_txin(txs[i]) /\ b[i] = CanonIn(txs[i])
  BY <1>1, <1>3
<1>5. InsBytes(txs) = serialize_array(a)
  BY <1>1 DEF InsBytes
<1>6. CanonicalIns(txs) = CanonicalList(b)
  BY <1>1 DEF CanonicalIns, CanonIn
<1>7. [i \in DOMAIN txs |-> 40 + length_varint(Len(txs[i].sig_script)) + Len(txs[i].sig_script)] = l
  BY <1>1
<1>8. [i \in 1 .. k |-> Len(a[i])] = l
  BY <1>3, <1>4
<1>v. Varint(serialize_varint(k), k) /\ Varint(Canonical(k), k) /\ (k # Power[2] - 1 => serialize_varint(k) = Canonical(k))
  BY <1>1, VarintsWritten
<1>w. Len(txs) = k
  OBVIOUS
<1> HIDE DEF k, a, b, l
<1>9. \A i \in 1 .. k : InBytes(a[i], txs[i]) /\ InBytes(b[i], txs[i]) /\ Len(b[i]) <= Len(a[i])
  BY <1>3, <1>4
<1>10. InsEncoded(serialize_array(a), txs)
  <2>1. serialize_array(a) = serialize_varint(k) \o FlattenSeq(a)
    BY <1>4 DEF serialize_array
  <2> DEFINE n == serialize_varint(k)
  <2>2. /\ Varint(n, Len(txs)) /\ Len(a) = Len(txs) /\ a \in Seq(Seq(Byte))
        /\ \A i \in 1 .. Len(txs) : InBytes(a[i], txs[i])
        /\ serialize_array(a) = n \o FlattenSeq(a)
    BY <1>4, <1>9, <1>v, <1>w, <2>1
  <2> HIDE DEF n
  <2> QED
    BY <2>2, Zenon DEF InsEncoded
<1>11. InsEncoded(CanonicalList(b), txs)
  <2>1. CanonicalList(b) = Canonical(k) \o FlattenSeq(b)
    BY <1>4 DEF CanonicalList
  <2> DEFINE n == Canonical(k)
  <2>2. /\ Varint(n, Len(txs)) /\ Len(b) = Len(txs) /\ b \in Seq(Seq(Byte))
        /\ \A i \in 1 .. Len(txs) : InBytes(b[i], txs[i])
        /\ CanonicalList(b) = n \o FlattenSeq(b)
    BY <1>4, <1>9, <1>v, <1>w, <2>1
  <2> HIDE DEF n
  <2> QED
    BY <2>2, Zenon DEF InsEncoded
<1>12. /\ Len(serialize_array(a)) = length_varint(k) + Total(l)
       /\ Len(serialize_array(a)) \in Nat /\ Len(CanonicalList(b)) \in Nat
       /\ Len(CanonicalList(b)) <= Len(serialize_array(a))
       /\ Len(CanonicalList(b)) = Len(serialize_array(a))
            <=> k # Power[2] - 1 /\ \A i \in 1 .. k : Len(a[i]) = Len(b[i])
  BY <1>1, <1>4, <1>8, <1>9, ListsWritten
<1>13. (\A i \in 1 .. k : Len(a[i]) = Len(b[i])) <=> \A i \in 1 .. k : Len(txs[i].sig_script) # Power[2] - 1
  BY <1>3, <1>4
<1>14. ~TwoIns(txs) <=> k # Power[2] - 1 /\ \A i \in 1 .. k : Len(txs[i].sig_script) # Power[2] - 1
  BY <1>w DEF TwoIns
<1>15. Len(CanonicalList(b)) = Len(serialize_array(a)) <=> ~TwoIns(txs)
  BY <1>12, <1>13, <1>14, Zenon
<1>16. ASSUME ~TwoIns(txs)
       PROVE  serialize_array(a) = CanonicalList(b)
  <2>1. \A i \in 1 .. k : a[i] = b[i]
    BY <1>3, <1>4, <1>14, <1>16
  <2>2. a = b
    BY <1>4, <2>1, SeqEqual
  <2>3. serialize_varint(k) = Canonical(k)
    BY <1>14, <1>16, <1>v
  <2> QED
    BY <1>4, <2>2, <2>3 DEF serialize_array, CanonicalList
<1> QED
  BY <1>5, <1>6, <1>7, <1>10, <1>11, <1>12, <1>15, <1>16, <1>w

TwoOuts(txs) == Len(txs) = Power[2] - 1 \/ \E i \in 1 .. Len(txs) : Len(txs[i].script) = Power[2] - 1

LEMMA OutsWritten ==
  ASSUME NEW txs \in Short(TxOuts)
  PROVE  /\ OutsEncoded(OutsBytes(txs), txs) /\ OutsEncoded(CanonicalOuts(txs), txs)
         /\ Len(OutsBytes(txs)) = length_varint(Len(txs))
              + Total([i \in DOMAIN txs |->
                         8 + length_varint(Len(txs[i].script)) + Len(txs[i].script)])
         /\ Len(OutsBytes(txs)) \in Nat /\ Len(CanonicalOuts(txs)) \in Nat
         /\ Len(CanonicalOuts(txs)) <= Len(OutsBytes(txs))
         /\ ~TwoOuts(txs) => OutsBytes(txs) = CanonicalOuts(txs)
         /\ Len(CanonicalOuts(txs)) = Len(OutsBytes(txs)) <=> ~TwoOuts(txs)
<1> DEFINE k == Len(txs)
           a == [i \in 1 .. k |-> serialize_txout(txs[i])]
           b == [i \in 1 .. k |-> CanonOut(txs[i])]
           l == [i \in 1 .. k |-> 8 + length_varint(Len(txs[i].script)) + Len(txs[i].script)]
<1>1. txs \in Seq(TxOuts) /\ k \in Nat /\ k \in 0 .. (Power[4] - 2) /\ DOMAIN txs = 1 .. k
  <2>1. txs \in Seq(TxOuts) /\ k \in Nat /\ k \in 0 .. (Power[4] - 2)
    BY ShortFacts
  <2> QED
    BY <2>1
<1>2. \A i \in 1 .. k : txs[i] \in TxOuts
  BY <1>1
<1>3. ASSUME NEW i \in 1 .. k
      PROVE  /\ OutBytes(serialize_txout(txs[i]), txs[i]) /\ OutBytes(CanonOut(txs[i]), txs[i])
             /\ serialize_txout(txs[i]) \in Seq(Byte) /\ CanonOut(txs[i]) \in Seq(Byte)
             /\ Len(serialize_txout(txs[i])) = 8 + length_varint(Len(txs[i].script)) + Len(txs[i].script)
             /\ Len(CanonOut(txs[i])) <= Len(serialize_txout(txs[i]))
             /\ Len(txs[i].script) # Power[2] - 1 => serialize_txout(txs[i]) = CanonOut(txs[i])
             /\ Len(serialize_txout(txs[i])) = Len(CanonOut(txs[i])) <=> Len(txs[i].script) # Power[2] - 1
  BY <1>2, <1>3, OutWritten
<1>4. /\ a \in Seq(Seq(Byte)) /\ Len(a) = k /\ b \in Seq(Seq(Byte)) /\ Len(b) = k
      /\ \A i \in 1 .. k : a[i] = serialize_txout(txs[i]) /\ b[i] = CanonOut(txs[i])
  BY <1>1, <1>3
<1>5. OutsBytes(txs) = serialize_array(a)
  BY <1>1 DEF OutsBytes
<1>6. CanonicalOuts(txs) = CanonicalList(b)
  BY <1>1 DEF CanonicalOuts, CanonOut
<1>7. [i \in DOMAIN txs |-> 8 + length_varint(Len(txs[i].script)) + Len(txs[i].script)] = l
  BY <1>1
<1>8. [i \in 1 .. k |-> Len(a[i])] = l
  BY <1>3, <1>4
<1>v. Varint(serialize_varint(k), k) /\ Varint(Canonical(k), k) /\ (k # Power[2] - 1 => serialize_varint(k) = Canonical(k))
  BY <1>1, VarintsWritten
<1>w. Len(txs) = k
  OBVIOUS
<1> HIDE DEF k, a, b, l
<1>9. \A i \in 1 .. k : OutBytes(a[i], txs[i]) /\ OutBytes(b[i], txs[i]) /\ Len(b[i]) <= Len(a[i])
  BY <1>3, <1>4
<1>10. OutsEncoded(serialize_array(a), txs)
  <2>1. serialize_array(a) = serialize_varint(k) \o FlattenSeq(a)
    BY <1>4 DEF serialize_array
  <2> DEFINE n == serialize_varint(k)
  <2>2. /\ Varint(n, Len(txs)) /\ Len(a) = Len(txs) /\ a \in Seq(Seq(Byte))
        /\ \A i \in 1 .. Len(txs) : OutBytes(a[i], txs[i])
        /\ serialize_array(a) = n \o FlattenSeq(a)
    BY <1>4, <1>9, <1>v, <1>w, <2>1
  <2> HIDE DEF n
  <2> QED
    BY <2>2, Zenon DEF OutsEncoded
<1>11. OutsEncoded(CanonicalList(b), txs)
  <2>1. CanonicalList(b) = Canonical(k) \o FlattenSeq(b)
    BY <1>4 DEF CanonicalList
  <2> DEFINE n == Canonical(k)
  <2>2. /\ Varint(n, Len(txs)) /\ Len(b) = Len(txs) /\ b \in Seq(Seq(Byte))
        /\ \A i \in 1 .. Len(txs) : OutBytes(b[i], txs[i])
        /\ CanonicalList(b) = n \o FlattenSeq(b)
    BY <1>4, <1>9, <1>v, <1>w, <2>1
  <2> HIDE DEF n
  <2> QED
    BY <2>2, Zenon DEF OutsEncoded
<1>12. /\ Len(serialize_array(a)) = length_varint(k) + Total(l)
       /\ Len(serialize_array(a)) \in Nat /\ Len(CanonicalList(b)) \in Nat
       /\ Len(CanonicalList(b)) <= Len(serialize_array(a))
       /\ Len(CanonicalList(b)) = Len(serialize_array(a))
            <=> k # Power[2] - 1 /\ \A i \in 1 .. k : Len(a[i]) = Len(b[i])
  BY <1>1, <1>4, <1>8, <1>9, ListsWritten
<1>13. (\A i \in 1 .. k : Len(a[i]) = Len(b[i])) <=> \A i \in 1 .. k : Len(txs[i].script) # Power[2] - 1
  BY <1>3, <1>4
<1>14. ~TwoOuts(txs) <=> k # Power[2] - 1 /\ \A i \in 1 .. k : Len(txs[i].script) # Power[2] - 1
  BY <1>w DEF TwoOuts
<1>15. Len(CanonicalList(b)) = Len(serialize_array(a)) <=> ~TwoOuts(txs)
  BY <1>12, <1>13, <1>14, Zenon
<1>16. ASSUME ~TwoOuts(txs)
       PROVE  serialize_array(a) = CanonicalList(b)
  <2>1. \A i \in 1 .. k : a[i] = b[i]
    BY <1>3, <1>4, <1>14, <1>16
  <2>2. a = b
    BY <1>4, <2>1, SeqEqual
  <2>3. serialize_varint(k) = Canonical(k)
    BY <1>14, <1>16, <1>v
  <2> QED
    BY <1>4, <2>2, <2>3 DEF serialize_array, CanonicalList
<1> QED
  BY <1>5, <1>6, <1>7, <1>10, <1>11, <1>12, <1>15, <1>16, <1>w

---------------------------------------------------------------------------
(* Where the parts of a written transaction stand. *)

\* The parts of a concatenation stand one behind the other.
Five(buf, off, a, b, c, d, e) ==
  /\ Has(buf, off, a) /\ Has(buf, off + Len(a), b)
  /\ Has(buf, off + Len(a) + Len(b), c)
  /\ Has(buf, off + Len(a) + Len(b) + Len(c), d)
  /\ Has(buf, off + Len(a) + Len(b) + Len(c) + Len(d), e)

LEMMA FiveLong ==
  ASSUME NEW a \in Seq(Byte), NEW b \in Seq(Byte), NEW c \in Seq(Byte), NEW d \in Seq(Byte),
         NEW e \in Seq(Byte)
  PROVE  /\ a \o b \o c \o d \o e \in Seq(Byte)
         /\ Len(a \o b \o c \o d \o e) = Len(a) + Len(b) + Len(c) + Len(d) + Len(e)
<1> DEFINE abcd == a \o b \o c \o d
<1>1. abcd \in Seq(Byte) /\ Len(abcd) = Len(a) + Len(b) + Len(c) + Len(d)
  BY FourLong
<1> HIDE DEF abcd
<1>2. abcd \o e \in Seq(Byte) /\ Len(abcd \o e) = Len(abcd) + Len(e)
  BY <1>1, ConcatProperties
<1> QED
  BY <1>1, <1>2 DEF abcd

LEMMA SixLong ==
  ASSUME NEW a \in Seq(Byte), NEW b \in Seq(Byte), NEW c \in Seq(Byte), NEW d \in Seq(Byte),
         NEW e \in Seq(Byte), NEW f \in Seq(Byte)
  PROVE  /\ a \o b \o c \o d \o e \o f \in Seq(Byte)
         /\ Len(a \o b \o c \o d \o e \o f) = Len(a) + Len(b) + Len(c) + Len(d) + Len(e) + Len(f)
<1> DEFINE abcde == a \o b \o c \o d \o e
<1>1. abcde \in Seq(Byte) /\ Len(abcde) = Len(a) + Len(b) + Len(c) + Len(d) + Len(e)
  BY FiveLong
<1> HIDE DEF abcde
<1>2. abcde \o f \in Seq(Byte) /\ Len(abcde \o f) = Len(abcde) + Len(f)
  BY <1>1, ConcatProperties
<1> QED
  BY <1>1, <1>2 DEF abcde

LEMMA HasFive ==
  ASSUME NEW buf \in Seq(Byte), NEW off \in Nat, NEW a \in Seq(Byte), NEW b \in Seq(Byte),
         NEW c \in Seq(Byte), NEW d \in Seq(Byte), NEW e \in Seq(Byte),
         Has(buf, off, a \o b \o c \o d \o e)
  PROVE  Five(buf, off, a, b, c, d, e)
<1> DEFINE abcd == a \o b \o c \o d
<1>1. /\ abcd \in Seq(Byte) /\ Len(abcd) = Len(a) + Len(b) + Len(c) + Len(d)
      /\ Len(a) \in Nat /\ Len(b) \in Nat /\ Len(c) \in Nat /\ Len(d) \in Nat
      /\ Has(buf, off, abcd) => /\ Has(buf, off, a) /\ Has(buf, off + Len(a), b)
                                /\ Has(buf, off + Len(a) + Len(b), c)
                                /\ Has(buf, off + Len(a) + Len(b) + Len(c), d)
  BY HasFour
<1>2. Has(buf, off, abcd \o e)
  OBVIOUS
<1> HIDE DEF abcd
<1>3. Has(buf, off, abcd) /\ Has(buf, off + Len(abcd), e)
  BY <1>1, <1>2, HasParts
<1>5. off + Len(abcd) = off + Len(a) + Len(b) + Len(c) + Len(d)
  BY <1>1
<1> QED
  BY <1>1, <1>3, <1>5 DEF Five

LEMMA HasSix ==
  ASSUME NEW buf \in Seq(Byte), NEW off \in Nat, NEW a \in Seq(Byte), NEW b \in Seq(Byte),
         NEW c \in Seq(Byte), NEW d \in Seq(Byte), NEW e \in Seq(Byte), NEW f \in Seq(Byte),
         Has(buf, off, a \o b \o c \o d \o e \o f)
  PROVE  /\ Five(buf, off, a, b, c, d, e)
         /\ Has(buf, off + Len(a) + Len(b) + Len(c) + Len(d) + Len(e), f)
<1> DEFINE abcde == a \o b \o c \o d \o e
<1>0. Len(a) \in Nat /\ Len(b) \in Nat /\ Len(c) \in Nat /\ Len(d) \in Nat /\ Len(e) \in Nat
  OBVIOUS
<1>1. abcde \in Seq(Byte) /\ Len(abcde) = Len(a) + Len(b) + Len(c) + Len(d) + Len(e)
  BY FiveLong
<1>2. Has(buf, off, abcde \o f)
  OBVIOUS
<1> HIDE DEF abcde
<1>3. Has(buf, off, abcde) /\ Has(buf, off + Len(abcde), f)
  BY <1>1, <1>2, HasParts
<1>4. Five(buf, off, a, b, c, d, e)
  BY <1>3, HasFive DEF abcde
<1>5. off + Len(abcde) = off + Len(a) + Len(b) + Len(c) + Len(d) + Len(e)
  BY <1>0, <1>1
<1> QED
  BY <1>3, <1>4, <1>5

InsAt(t) == 4 + Len(Marker(t.witness))
OutsAt(t, ins) == InsAt(t) + Len(ins)
StacksAt(t, ins, outs) == OutsAt(t, ins) + Len(outs)
LocktimeAt(t, ins, outs) == StacksAt(t, ins, outs) + Len(Stacks(t.witness))

\* The parts of buf as the code writes them with the outputs, and without.
IsLaid(buf, t, ins, outs) ==
  Laid(buf, t, ins, outs, InsAt(t), OutsAt(t, ins), StacksAt(t, ins, outs), LocktimeAt(t, ins, outs))

Written(t, ins, outs) ==
  LE(t.version, 4) \o Marker(t.witness) \o ins \o outs \o Stacks(t.witness) \o LE(t.locktime, 4)

WrittenShort(t, ins) ==
  LE(t.version, 4) \o Marker(t.witness) \o ins \o Stacks(t.witness) \o LE(t.locktime, 4)

LEMMA PartsTyped ==
  ASSUME NEW t, Kept(t)
  PROVE  /\ LE(t.version, 4) \in Seq(Byte) /\ Len(LE(t.version, 4)) = 4
         /\ LE(t.locktime, 4) \in Seq(Byte) /\ Len(LE(t.locktime, 4)) = 4
         /\ Marker(t.witness) \in Seq(Byte) /\ Len(Marker(t.witness)) \in Nat
         /\ Stacks(t.witness) \in Seq(Byte) /\ Len(Stacks(t.witness)) \in Nat
<1>1. t.version \in U32 /\ t.locktime \in U32 /\ t.witness \in Seq(Seq(Byte))
  BY KeptFacts
<1>2. Marker(t.witness) \in Seq(Byte) /\ Stacks(t.witness) \in Seq(Byte)
  BY <1>1, WitnessFacts
<1>3. Len(Marker(t.witness)) \in Nat /\ Len(Stacks(t.witness)) \in Nat
  BY <1>2
<1> QED
  BY <1>1, <1>2, <1>3, Numbers

LEMMA WrittenLaid ==
  ASSUME NEW t, Kept(t), NEW ins \in Seq(Byte), NEW outs \in Seq(Byte), NEW buf \in Seq(Byte)
  PROVE  /\ Written(t, ins, outs) \in Seq(Byte)
         /\ Len(Written(t, ins, outs)) = LocktimeAt(t, ins, outs) + 4
         /\ Has(buf, 0, Written(t, ins, outs)) => IsLaid(buf, t, ins, outs)
<1> DEFINE a == LE(t.version, 4)
           b == Marker(t.witness)
           e == Stacks(t.witness)
           f == LE(t.locktime, 4)
<1>1. /\ a \in Seq(Byte) /\ b \in Seq(Byte) /\ e \in Seq(Byte) /\ f \in Seq(Byte)
      /\ Len(a) = 4 /\ Len(f) = 4 /\ Len(b) \in Nat /\ Len(e) \in Nat
  BY PartsTyped
<1>2. /\ Written(t, ins, outs) = a \o b \o ins \o outs \o e \o f
      /\ InsAt(t) = 4 + Len(b) /\ LocktimeAt(t, ins, outs) = StacksAt(t, ins, outs) + Len(e)
  BY DEF Written, InsAt, LocktimeAt
<1>d. Laid(buf, t, ins, outs, InsAt(t), OutsAt(t, ins), StacksAt(t, ins, outs), LocktimeAt(t, ins, outs))
        <=> /\ Has(buf, 0, a) /\ Has(buf, 4, b) /\ Has(buf, InsAt(t), ins)
            /\ Has(buf, OutsAt(t, ins), outs) /\ Has(buf, StacksAt(t, ins, outs), e)
            /\ Has(buf, LocktimeAt(t, ins, outs), f)
  BY DEF Laid, InsAt, OutsAt, StacksAt, LocktimeAt
<1> HIDE DEF a, b, e, f
<1>3. /\ OutsAt(t, ins) = InsAt(t) + Len(ins)
      /\ StacksAt(t, ins, outs) = OutsAt(t, ins) + Len(outs)
      /\ Len(ins) \in Nat /\ Len(outs) \in Nat /\ 0 \in Nat
  BY DEF OutsAt, StacksAt
<1>z. a \in Seq(Byte) /\ b \in Seq(Byte) /\ e \in Seq(Byte) /\ f \in Seq(Byte) /\ 0 \in Nat
  BY <1>1
<1>4. a \o b \o ins \o outs \o e \o f \in Seq(Byte)
  BY <1>z, SixLong
<1>5. Len(a \o b \o ins \o outs \o e \o f) = Len(a) + Len(b) + Len(ins) + Len(outs) + Len(e) + Len(f)
  BY <1>z, SixLong
<1>6. ASSUME Has(buf, 0, a \o b \o ins \o outs \o e \o f)
      PROVE  IsLaid(buf, t, ins, outs)
  <2>1. /\ Has(buf, 0, a) /\ Has(buf, 0 + Len(a), b)
        /\ Has(buf, 0 + Len(a) + Len(b), ins)
        /\ Has(buf, 0 + Len(a) + Len(b) + Len(ins), outs)
        /\ Has(buf, 0 + Len(a) + Len(b) + Len(ins) + Len(outs), e)
        /\ Has(buf, 0 + Len(a) + Len(b) + Len(ins) + Len(outs) + Len(e), f)
    <3>1. /\ Five(buf, 0, a, b, ins, outs, e)
          /\ Has(buf, 0 + Len(a) + Len(b) + Len(ins) + Len(outs) + Len(e), f)
      BY <1>z, <1>6, HasSix, Zenon
    <3> QED
      BY <3>1 DEF Five
  <2>2. /\ 0 + Len(a) = 4 /\ 0 + Len(a) + Len(b) = InsAt(t)
        /\ 0 + Len(a) + Len(b) + Len(ins) = OutsAt(t, ins)
        /\ 0 + Len(a) + Len(b) + Len(ins) + Len(outs) = StacksAt(t, ins, outs)
        /\ 0 + Len(a) + Len(b) + Len(ins) + Len(outs) + Len(e) = LocktimeAt(t, ins, outs)
    BY <1>1, <1>2, <1>3
  <2>3. /\ Has(buf, 0, a) /\ Has(buf, 4, b) /\ Has(buf, InsAt(t), ins)
        /\ Has(buf, OutsAt(t, ins), outs) /\ Has(buf, StacksAt(t, ins, outs), e)
        /\ Has(buf, LocktimeAt(t, ins, outs), f)
    BY <2>1, <2>2
  <2> QED
    BY <1>d, <2>3 DEF IsLaid
<1>7. Len(Written(t, ins, outs)) = LocktimeAt(t, ins, outs) + 4
  BY <1>1, <1>2, <1>3, <1>5
<1> QED
  BY <1>2, <1>4, <1>6, <1>7

LEMMA WrittenShortLaid ==
  ASSUME NEW t, Kept(t), NEW ins \in Seq(Byte), NEW buf \in Seq(Byte)
  PROVE  /\ WrittenShort(t, ins) \in Seq(Byte)
         /\ Len(WrittenShort(t, ins)) = LocktimeAt(t, ins, <<>>) + 4
         /\ Has(buf, 0, WrittenShort(t, ins)) => IsLaid(buf, t, ins, <<>>)
<1> DEFINE a == LE(t.version, 4)
           b == Marker(t.witness)
           e == Stacks(t.witness)
           f == LE(t.locktime, 4)
           o == <<>>
<1>1. /\ a \in Seq(Byte) /\ b \in Seq(Byte) /\ e \in Seq(Byte) /\ f \in Seq(Byte)
      /\ Len(a) = 4 /\ Len(f) = 4 /\ Len(b) \in Nat /\ Len(e) \in Nat
  BY PartsTyped
<1>2. /\ WrittenShort(t, ins) = a \o b \o ins \o e \o f
      /\ InsAt(t) = 4 + Len(b) /\ LocktimeAt(t, ins, o) = StacksAt(t, ins, o) + Len(e)
  BY DEF WrittenShort, InsAt, LocktimeAt
<1>d. Laid(buf, t, ins, o, InsAt(t), OutsAt(t, ins), StacksAt(t, ins, o), LocktimeAt(t, ins, o))
        <=> /\ Has(buf, 0, a) /\ Has(buf, 4, b) /\ Has(buf, InsAt(t), ins)
            /\ Has(buf, OutsAt(t, ins), o) /\ Has(buf, StacksAt(t, ins, o), e)
            /\ Has(buf, LocktimeAt(t, ins, o), f)
  BY DEF Laid, InsAt, OutsAt, StacksAt, LocktimeAt
<1>e. o \in Seq(Byte) /\ Len(o) = 0
  BY EmptySeq
<1> HIDE DEF a, b, e, f, o
<1>3. /\ OutsAt(t, ins) = InsAt(t) + Len(ins)
      /\ StacksAt(t, ins, o) = OutsAt(t, ins) + Len(o)
      /\ Len(ins) \in Nat /\ 0 \in Nat
  BY DEF OutsAt, StacksAt
<1>z. a \in Seq(Byte) /\ b \in Seq(Byte) /\ e \in Seq(Byte) /\ f \in Seq(Byte) /\ 0 \in Nat
  BY <1>1
<1>4. a \o b \o ins \o e \o f \in Seq(Byte)
  BY <1>z, FiveLong
<1>5. Len(a \o b \o ins \o e \o f) = Len(a) + Len(b) + Len(ins) + Len(e) + Len(f)
  BY <1>z, FiveLong
<1>s. StacksAt(t, ins, o) = OutsAt(t, ins)
  BY <1>1, <1>2, <1>3, <1>e
<1>6. ASSUME Has(buf, 0, a \o b \o ins \o e \o f)
      PROVE  IsLaid(buf, t, ins, o)
  <2>1. /\ Has(buf, 0, a) /\ Has(buf, 0 + Len(a), b)
        /\ Has(buf, 0 + Len(a) + Len(b), ins)
        /\ Has(buf, 0 + Len(a) + Len(b) + Len(ins), e)
        /\ Has(buf, 0 + Len(a) + Len(b) + Len(ins) + Len(e), f)
    BY <1>z, <1>6, HasFive DEF Five
  <2>2. /\ 0 + Len(a) = 4 /\ 0 + Len(a) + Len(b) = InsAt(t)
        /\ 0 + Len(a) + Len(b) + Len(ins) = OutsAt(t, ins)
        /\ 0 + Len(a) + Len(b) + Len(ins) + Len(e) = LocktimeAt(t, ins, o)
    <3> DEFINE A == Len(a)
               B == Len(b)
               I == Len(ins)
               E == Len(e)
    <3>1. /\ A = 4 /\ B \in Nat /\ I \in Nat /\ E \in Nat /\ InsAt(t) = 4 + B
          /\ OutsAt(t, ins) = InsAt(t) + I /\ LocktimeAt(t, ins, o) = OutsAt(t, ins) + E
      BY <1>1, <1>2, <1>3, <1>s
    <3> HIDE DEF A, B, I, E
    <3>2. /\ 0 + A = 4 /\ 0 + A + B = InsAt(t) /\ 0 + A + B + I = OutsAt(t, ins)
          /\ 0 + A + B + I + E = LocktimeAt(t, ins, o)
      BY <3>1
    <3> QED
      BY <3>2 DEF A, B, I, E
  <2>3. /\ Has(buf, 0, a) /\ Has(buf, 4, b) /\ Has(buf, InsAt(t), ins)
        /\ Has(buf, OutsAt(t, ins), e)
        /\ Has(buf, LocktimeAt(t, ins, o), f)
    BY <2>1, <2>2
  <2>4. OutsAt(t, ins) \in Nat /\ Len(buf) \in Nat
    BY <1>1, <1>2, <1>3
  <2>5. OutsAt(t, ins) + Len(e) <= Len(buf)
    BY <2>3 DEF Has
  <2>6. OutsAt(t, ins) + Len(o) <= Len(buf)
    BY <1>1, <1>e, <2>4, <2>5
  <2>7. Has(buf, OutsAt(t, ins), o)
    BY <1>e, <2>6 DEF Has
  <2> QED
    BY <1>d, <1>s, <2>3, <2>7 DEF IsLaid
<1>7. Len(WrittenShort(t, ins)) = LocktimeAt(t, ins, o) + 4
  BY <1>1, <1>2, <1>3, <1>5, <1>s
<1> QED
  BY <1>2, <1>4, <1>6, <1>7 DEF o

---------------------------------------------------------------------------
(* Parsing a written transaction. *)

WrittenStripped(t, ins, outs) == LE(t.version, 4) \o ins \o outs \o LE(t.locktime, 4)

LEMMA WrittenTyped ==
  ASSUME NEW t, Kept(t), NEW ins, InsEncoded(ins, t.txins), NEW outs, OutsEncoded(outs, t.txouts)
  PROVE  ins \in Seq(Byte) /\ Len(ins) \in Nat /\ outs \in Seq(Byte) /\ Len(outs) \in Nat
<1>1. t.txins \in Seq(TxIns) /\ t.txouts \in Seq(TxOuts)
  BY KeptFacts
<1>2. 0 \in Nat /\ <<>> \in Seq(Byte)
  BY EmptySeq
<1> QED
  BY <1>1, <1>2, InsRead, OutsRead

LEMMA WrittenRead ==
  ASSUME NEW t, Kept(t), NEW ins, InsEncoded(ins, t.txins), NEW outs, OutsEncoded(outs, t.txouts)
  PROVE  /\ Written(t, ins, outs) \in Seq(Byte)
         /\ Transaction(Written(t, ins, outs), TRUE)
              = Found(t, Len(Written(t, ins, outs)), InsAt(t), StacksAt(t, ins, outs))
<1> DEFINE buf == Written(t, ins, outs)
           z == LocktimeAt(t, ins, outs)
<1>1. ins \in Seq(Byte) /\ outs \in Seq(Byte)
  BY WrittenTyped
<1>2. buf \in Seq(Byte) /\ Len(buf) = z + 4
  BY <1>1, WrittenLaid
<1>3. IsLaid(buf, t, ins, outs)
  <2> HIDE DEF buf
  <2>1. Has(buf, 0, buf)
    BY <1>2, HasItself
  <2> QED
    BY <1>1, <1>2, <2>1, WrittenLaid DEF buf
<1> HIDE DEF buf, z
<1>4. Transaction(buf, TRUE) = Found(t, z + 4, InsAt(t), StacksAt(t, ins, outs))
  <2>1. Laid(buf, t, ins, outs, InsAt(t), OutsAt(t, ins), StacksAt(t, ins, outs), z)
    BY <1>3 DEF IsLaid, z
  <2>3. buf \in Seq(Byte) /\ outs \in Seq(Byte)
    BY <1>1, <1>2
  <2>4. ASSUME NEW with \in BOOLEAN, with = TRUE
        PROVE  Transaction(buf, with) = Found(t, z + 4, InsAt(t), StacksAt(t, ins, outs))
    <3>1. OutsGiven(with, outs, t.txouts)
      BY <2>4 DEF OutsGiven
    <3> QED
      BY <2>1, <2>3, <3>1, TransactionReads
  <2> QED
    BY <2>4
<1> QED
  BY <1>2, <1>4 DEF buf

LEMMA Hashes ==
  ASSUME NEW t, Kept(t), NEW ins, InsEncoded(ins, t.txins), NEW outs, OutsEncoded(outs, t.txouts)
  PROVE  LET r == deserialize_borrowed(Written(t, ins, outs))
         IN  /\ r.val = t /\ r.at = Len(Written(t, ins, outs)) /\ ~Failed(r)
             /\ r.hash = WrittenStripped(t, ins, outs)
             /\ r.witness_hash = IF AllEmpty(t.witness) THEN r.hash ELSE Written(t, ins, outs)
<1> DEFINE buf == Written(t, ins, outs)
           p == InsAt(t)
           r == StacksAt(t, ins, outs)
           n == Len(buf)
           a == LE(t.version, 4)
           f == LE(t.locktime, 4)
<1>1. ins \in Seq(Byte) /\ outs \in Seq(Byte) /\ Len(ins) \in Nat /\ Len(outs) \in Nat
  BY WrittenTyped
<1>2. buf \in Seq(Byte) /\ Transaction(buf, TRUE) = Found(t, n, p, r) /\ n \in Nat
  <2>1. buf \in Seq(Byte) /\ Transaction(buf, TRUE) = Found(t, n, p, r)
    BY WrittenRead
  <2> HIDE DEF buf
  <2>2. n \in Nat
    BY <2>1
  <2> QED
    BY <2>1, <2>2
<1>3. a \in Seq(Byte) /\ Len(a) = 4 /\ f \in Seq(Byte) /\ Len(f) = 4
      /\ Len(Marker(t.witness)) \in Nat /\ Len(Stacks(t.witness)) \in Nat
  BY PartsTyped
<1>4. n = LocktimeAt(t, ins, outs) + 4
  BY <1>1, <1>2, WrittenLaid
<1>5. IsLaid(buf, t, ins, outs)
  <2> HIDE DEF buf
  <2>1. Has(buf, 0, buf)
    BY <1>2, HasItself
  <2> QED
    BY <1>1, <1>2, <2>1, WrittenLaid DEF buf
<1>6. /\ Has(buf, 0, a) /\ Has(buf, p, ins) /\ Has(buf, OutsAt(t, ins), outs)
      /\ Has(buf, LocktimeAt(t, ins, outs), f)
  BY <1>5 DEF IsLaid, Laid
<1>7. /\ p \in Nat /\ OutsAt(t, ins) = p + Len(ins) /\ r = p + Len(ins) + Len(outs) /\ r \in Nat
      /\ LocktimeAt(t, ins, outs) \in Nat
  BY <1>1, <1>3 DEF InsAt, OutsAt, StacksAt, LocktimeAt
<1> HIDE DEF buf, p, r, n, a, f
<1>8. SubSeq(buf, 1, 4) = a
  <2>1. SubSeq(buf, 0 + 1, 0 + Len(a)) = a
    BY <1>2, <1>3, <1>6, HasTaken
  <2> QED
    BY <1>3, <2>1
<1>9. SubSeq(buf, p + 1, r) = ins \o outs
  <2>1. Has(buf, p, ins) /\ Has(buf, p + Len(ins), outs)
    BY <1>6, <1>7
  <2>2. Has(buf, p, ins \o outs) /\ ins \o outs \in Seq(Byte) /\ Len(ins \o outs) = Len(ins) + Len(outs)
    BY <1>1, <1>2, <1>7, <2>1, HasParts, ConcatProperties
  <2> DEFINE io == ins \o outs
  <2> HIDE DEF io
  <2>3. Has(buf, p, io) /\ io \in Seq(Byte) /\ Len(io) = Len(ins) + Len(outs)
    BY <2>2 DEF io
  <2>4. SubSeq(buf, p + 1, p + Len(io)) = io
    BY <1>2, <1>7, <2>3, HasTaken
  <2>5. p + Len(io) = r
    BY <1>1, <1>7, <2>3
  <2> QED
    BY <2>4, <2>5 DEF io
<1>10. SubSeq(buf, n - 3, n) = f
  <2> DEFINE z == LocktimeAt(t, ins, outs)
  <2>1. z \in Nat /\ n = z + 4 /\ Has(buf, z, f)
    BY <1>4, <1>6, <1>7
  <2> HIDE DEF z
  <2>2. SubSeq(buf, z + 1, z + Len(f)) = f
    BY <1>2, <1>3, <2>1, HasTaken
  <2>3. z + 1 = n - 3 /\ z + Len(f) = n
    BY <1>3, <2>1
  <2> QED
    BY <2>2, <2>3
<1>11. SubSeq(buf, 1, n) = buf
  BY <1>2, SubSeqFull DEF n
<1>12. a \o (ins \o outs) \o f = WrittenStripped(t, ins, outs)
  <2>1. (a \o ins) \o outs = a \o (ins \o outs)
    <3>1. a \in Seq(Byte) /\ ins \in Seq(Byte) /\ outs \in Seq(Byte)
      BY <1>1, <1>3
    <3> QED
      BY <3>1, ConcatAssociative
  <2> QED
    BY <2>1 DEF WrittenStripped, a, f
<1> DEFINE h == WrittenStripped(t, ins, outs)
           found == Found(t, n, p, r)
<1>13. found.val = t /\ found.at = n /\ found.inputs = p /\ found.stacks = r
  BY DEF Found
<1>14. ~Failed(found)
  BY <1>2, <1>13 DEF Failed
<1> HIDE DEF found, h
<1>15. SubSeq(buf, 1, 4) \o SubSeq(buf, found.inputs + 1, found.stacks) \o SubSeq(buf, found.at - 3, found.at) = h
  BY <1>8, <1>9, <1>10, <1>12, <1>13 DEF h
<1>16. deserialize_borrowed(buf) = Hashed(buf, found)
  BY <1>2 DEF deserialize_borrowed, found
<1>17. Hashed(buf, found)
         = [val |-> found.val, at |-> found.at, hash |-> h,
            witness_hash |-> IF AllEmpty(found.val.witness) THEN h ELSE SubSeq(buf, 1, found.at)]
  BY <1>14, <1>15 DEF Hashed
<1>18. deserialize_borrowed(buf)
         = [val |-> t, at |-> n, hash |-> h,
            witness_hash |-> IF AllEmpty(t.witness) THEN h ELSE buf]
  BY <1>11, <1>13, <1>16, <1>17
<1> DEFINE out == deserialize_borrowed(buf)
<1>19. /\ out.val = t /\ out.at = n /\ out.hash = h
       /\ out.witness_hash = IF AllEmpty(t.witness) THEN h ELSE buf
  BY <1>18
<1>20. ~Failed(out)
  BY <1>2, <1>19 DEF Failed
<1> QED
  BY <1>19, <1>20 DEF buf, n, h

LEMMA CutRefused ==
  ASSUME NEW t, Kept(t), NEW ins, InsEncoded(ins, t.txins), NEW outs, OutsEncoded(outs, t.txouts),
         NEW cut \in Nat, cut > 0
  PROVE  Failed(deserialize_borrowed(SubSeq(Written(t, ins, outs), 1, Len(Written(t, ins, outs)) - cut)))
<1> DEFINE buf == Written(t, ins, outs)
           n == Len(buf)
           p == SubSeq(buf, 1, n - cut)
<1>1. ins \in Seq(Byte) /\ outs \in Seq(Byte)
  BY WrittenTyped
<1>2. buf \in Seq(Byte) /\ n = LocktimeAt(t, ins, outs) + 4
  BY <1>1, WrittenLaid
<1>3. IsLaid(buf, t, ins, outs)
  <2> HIDE DEF buf
  <2>1. Has(buf, 0, buf)
    BY <1>2, HasItself
  <2> QED
    BY <1>1, <1>2, <2>1, WrittenLaid DEF buf
<1>n. n \in Nat /\ n = Len(buf)
  BY <1>2
<1> HIDE DEF buf, n
<1>4. p \in Seq(Byte) /\ Begins(p, buf) /\ Len(p) < n
  <2>1. CASE n - cut >= 1
    <3>1. \A i \in 1 .. (n - cut) : buf[i] \in Byte
      BY <1>2, <1>n
    <3>2. 1 \in Int /\ n - cut \in Int /\ (n - cut) - 1 + 1 = n - cut
      BY <1>n
    <3>3. /\ p \in Seq(Byte) /\ Len(p) = (IF 1 <= n - cut THEN (n - cut) - 1 + 1 ELSE 0)
          /\ \A i \in 1 .. ((n - cut) - 1 + 1) : p[i] = buf[1 + i - 1]
      BY <3>1, <3>2, SubSeqProperties
    <3> HIDE DEF p
    <3>4. Len(p) = n - cut /\ Len(p) \in Nat /\ Len(p) < n /\ Len(p) <= Len(buf)
      BY <1>n, <2>1, <3>3
    <3>5. \A i \in 1 .. Len(p) : 1 + i - 1 = i /\ i \in 1 .. ((n - cut) - 1 + 1)
      BY <1>n, <3>4
    <3>6. \A i \in 1 .. Len(p) : p[i] = buf[i]
      BY <3>3, <3>5
    <3> QED
      BY <3>3, <3>4, <3>6 DEF Begins
  <2>2. CASE n - cut < 1
    <3>1. p = <<>>
      BY <1>n, <2>2, SubSeqEmpty
    <3>2. <<>> \in Seq(Byte) /\ Len(<<>>) = 0
      BY EmptySeq
    <3> HIDE DEF p
    <3>3. n >= 4
      BY <1>1, <1>2, PartsTyped DEF LocktimeAt, StacksAt, OutsAt, InsAt
    <3>4. Len(p) = 0 /\ p \in Seq(Byte) /\ 1 .. 0 = {}
      BY <3>1, <3>2
    <3> QED
      BY <1>n, <3>3, <3>4 DEF Begins
  <2> QED
    BY <1>n, <2>1, <2>2
<1> HIDE DEF p
<1>5. Failed(Transaction(p, TRUE))
  <2> DEFINE z == LocktimeAt(t, ins, outs)
  <2>1. Laid(buf, t, ins, outs, InsAt(t), OutsAt(t, ins), StacksAt(t, ins, outs), z)
    BY <1>3 DEF IsLaid
  <2>2. Len(p) < z + 4
    BY <1>2, <1>4
  <2> HIDE DEF z
  <2> QED
    BY <1>2, <1>4, <2>1, <2>2, CutFails
<1>6. deserialize_borrowed(p) = Fail
  BY <1>5 DEF deserialize_borrowed, Hashed
<1> QED
  BY <1>6, FailStays DEF p, n, buf

\* AllEmpty, in terms of what the stacks are.
LEMMA EmptyStacks ==
  ASSUME NEW t, Kept(t)
  PROVE  AllEmpty(t.witness) <=> ~\E i \in DOMAIN t.witness : t.witness[i] # <<0>>
<1> DEFINE w == t.witness
<1>1. w \in Seq(Seq(Byte)) /\ \A i \in 1 .. Len(w) : IsStack(w[i])
  BY KeptFacts
<1>2. DOMAIN w = 1 .. Len(w)
  BY <1>1
<1> HIDE DEF w
<1>3. \A i \in DOMAIN w : Len(w[i]) = 1 <=> w[i] = <<0>>
  <2>1. 0 \in Nat /\ <<>> \in Seq(Byte)
    BY EmptySeq
  <2>2. ASSUME NEW s, IsStack(s)
        PROVE  Len(s) = 1 <=> s = <<0>>
    <3> DEFINE nothing == <<>>
    <3>1. nothing \in Seq(Byte) /\ 0 \in Nat
      BY <2>1
    <3> HIDE DEF nothing
    <3> QED
      BY <2>2, <3>1, StackReads
  <2> QED
    BY <1>1, <1>2, <2>2, Zenon
<1>4. w = NoWitness => \A i \in DOMAIN w : Len(w[i]) = 1
  BY DEF NoWitness
<1>5. AllEmpty(w) <=> \A i \in DOMAIN w : Len(w[i]) = 1
  BY <1>4 DEF AllEmpty
<1> QED
  BY <1>3, <1>5 DEF w

---------------------------------------------------------------------------
(* Sizes. *)

LEMMA KeptShort ==
  ASSUME NEW t, Kept(t)
  PROVE  t.txins \in Short(TxIns) /\ t.txouts \in Short(TxOuts)
<1>1. t \in Keeps
  BY DEF Kept
<1> QED
  BY <1>1 DEF Keeps

LEMMA AllWritten ==
  ASSUME NEW t, Kept(t)
  PROVE  /\ InsEncoded(InsBytes(t.txins), t.txins) /\ OutsEncoded(OutsBytes(t.txouts), t.txouts)
         /\ InsEncoded(CanonicalIns(t.txins), t.txins) /\ OutsEncoded(CanonicalOuts(t.txouts), t.txouts)
BY KeptShort, InsWritten, OutsWritten

LEMMA Forms ==
  ASSUME NEW t
  PROVE  /\ Wire(t) = Written(t, CanonicalIns(t.txins), CanonicalOuts(t.txouts))
         /\ Stripped(t) = WrittenStripped(t, CanonicalIns(t.txins), CanonicalOuts(t.txouts))
         /\ serialize_tx(t) = Written(t, InsBytes(t.txins), OutsBytes(t.txouts))
         /\ serialize_without_txouts(t) = WrittenShort(t, InsBytes(t.txins))
BY DEF Wire, Written, Stripped, WrittenStripped, serialize_tx, serialize_without_txouts, WrittenShort

LEMMA Sizes ==
  ASSUME NEW t, Kept(t)
  PROVE  /\ InsSize(t) = Len(InsBytes(t.txins)) /\ OutsSize(t) = Len(OutsBytes(t.txouts))
         /\ InsSize(t) \in Nat /\ OutsSize(t) \in Nat
         /\ serialized_without_txouts_size(t) = Len(serialize_without_txouts(t))
         /\ serialized_without_txouts_size(t) \in Nat
         /\ serialized_without_txouts_size(t) = LocktimeAt(t, InsBytes(t.txins), <<>>) + 4
<1> DEFINE I == InsSize(t)
           M == Len(Marker(t.witness))
           S == Len(Stacks(t.witness))
           ins == InsBytes(t.txins)
<1>1. t.txins \in Short(TxIns) /\ t.txouts \in Short(TxOuts)
  BY KeptShort
<1>2. I = Len(ins) /\ I \in Nat
  BY <1>1, InsWritten DEF InsSize
<1>3. OutsSize(t) = Len(OutsBytes(t.txouts)) /\ OutsSize(t) \in Nat
  BY <1>1, OutsWritten DEF OutsSize
<1>4. M \in Nat /\ S \in Nat
  BY PartsTyped
<1>5. serialized_without_txouts_size(t) = 4 + (M + S) + I + 4
  BY DEF serialized_without_txouts_size, WitnessSize
<1>6. ins \in Seq(Byte)
  BY AllWritten, WrittenTyped
<1>7. Len(WrittenShort(t, ins)) = LocktimeAt(t, ins, <<>>) + 4
  BY <1>6, WrittenShortLaid, EmptySeq
<1>8. LocktimeAt(t, ins, <<>>) = 4 + M + Len(ins) + Len(<<>>) + S /\ Len(<<>>) = 0
  BY EmptySeq DEF LocktimeAt, StacksAt, OutsAt, InsAt
<1> HIDE DEF I, M, S, ins
<1>9. LocktimeAt(t, ins, <<>>) = 4 + M + I + S
  BY <1>2, <1>4, <1>8
<1>10. serialized_without_txouts_size(t) = LocktimeAt(t, ins, <<>>) + 4 /\ serialized_without_txouts_size(t) \in Nat
  BY <1>2, <1>4, <1>5, <1>9
<1>11. Len(serialize_without_txouts(t)) = LocktimeAt(t, ins, <<>>) + 4
  BY <1>7, Forms DEF ins
<1> QED
  BY <1>2, <1>3, <1>10, <1>11 DEF I, ins

LEMMA Boundary ==
  ASSUME NEW t, Kept(t)
  PROVE  AtBoundary(t) <=> TwoIns(t.txins) \/ TwoOuts(t.txouts)
<1>1. t.txins \in Seq(TxIns) /\ t.txouts \in Seq(TxOuts)
  BY KeptFacts
<1>2. DOMAIN t.txins = 1 .. Len(t.txins) /\ DOMAIN t.txouts = 1 .. Len(t.txouts)
  BY <1>1
<1> QED
  BY <1>2 DEF AtBoundary, TwoIns, TwoOuts

\* The weight is three times the size without witness and once the size with
\* it, if the lengths are written in as many bytes as the peers use.
LEMMA Weight ==
  ASSUME NEW t, Kept(t)
  PROVE  /\ (calculate_tx_size_wus(t) = 3 * Len(Stripped(t)) + Len(Wire(t))) <=> ~AtBoundary(t)
         /\ calculate_tx_size_wus(t) \in Nat
         /\ ~AtBoundary(t) => serialize_tx(t) = Wire(t)
<1> DEFINE I == InsSize(t)
           O == OutsSize(t)
           M == Len(Marker(t.witness))
           S == Len(Stacks(t.witness))
           ci == CanonicalIns(t.txins)
           co == CanonicalOuts(t.txouts)
           A == Len(ci)
           B == Len(co)
<1>1. t.txins \in Short(TxIns) /\ t.txouts \in Short(TxOuts)
  BY KeptShort
<1>2. I = Len(InsBytes(t.txins)) /\ O = Len(OutsBytes(t.txouts)) /\ I \in Nat /\ O \in Nat
  BY Sizes
<1>3. /\ A \in Nat /\ A <= I /\ (A = I <=> ~TwoIns(t.txins))
      /\ ~TwoIns(t.txins) => InsBytes(t.txins) = ci
  BY <1>1, <1>2, InsWritten
<1>4. /\ B \in Nat /\ B <= O /\ (B = O <=> ~TwoOuts(t.txouts))
      /\ ~TwoOuts(t.txouts) => OutsBytes(t.txouts) = co
  BY <1>1, <1>2, OutsWritten
<1>5. M \in Nat /\ S \in Nat
  BY PartsTyped
<1>6. ci \in Seq(Byte) /\ co \in Seq(Byte)
  BY AllWritten, WrittenTyped
<1>7. Len(Wire(t)) = 4 + M + A + B + S + 4
  <2>1. Len(Written(t, ci, co)) = LocktimeAt(t, ci, co) + 4
    BY <1>6, WrittenLaid, EmptySeq
  <2> QED
    BY <2>1, Forms DEF LocktimeAt, StacksAt, OutsAt, InsAt
<1>8. Len(Stripped(t)) = 4 + A + B + 4
  <2> DEFINE v == LE(t.version, 4)
             k == LE(t.locktime, 4)
  <2>1. v \in Seq(Byte) /\ Len(v) = 4 /\ k \in Seq(Byte) /\ Len(k) = 4
    BY PartsTyped
  <2>2. WrittenStripped(t, ci, co) = v \o ci \o co \o k
    BY DEF WrittenStripped
  <2> HIDE DEF v, k, ci, co
  <2>3. v \in Seq(Byte) /\ k \in Seq(Byte)
    BY <2>1
  <2>4. Len(v \o ci \o co \o k) = Len(v) + Len(ci) + Len(co) + Len(k)
    BY <1>6, <2>3, FourLong
  <2>5. Stripped(t) = WrittenStripped(t, ci, co)
    BY Forms DEF ci, co
  <2> QED
    BY <2>1, <2>2, <2>4, <2>5
<1>9. calculate_tx_size_wus(t) = 16 + 16 + 4 * I + 4 * O + (M + S)
  BY DEF calculate_tx_size_wus, WitnessSize
<1>f. serialize_tx(t) = Written(t, InsBytes(t.txins), OutsBytes(t.txouts)) /\ Wire(t) = Written(t, ci, co)
  BY Forms
<1> DEFINE a == Len(Wire(t))
           b == Len(Stripped(t))
           w == calculate_tx_size_wus(t)
<1> HIDE DEF I, O, M, S, A, B, a, b, w, ci, co
<1>10. w = 3 * b + a <=> 4 * I + 4 * O = 4 * A + 4 * B
  BY <1>2, <1>3, <1>4, <1>5, <1>7, <1>8, <1>9 DEF a, b, w
<1>11. 4 * I + 4 * O = 4 * A + 4 * B <=> A = I /\ B = O
  BY <1>2, <1>3, <1>4
<1>12. w \in Nat
  BY <1>2, <1>5, <1>9 DEF w
<1>13. w = 3 * b + a <=> ~AtBoundary(t)
  BY <1>3, <1>4, <1>10, <1>11, Boundary
<1>14. ~AtBoundary(t) => serialize_tx(t) = Wire(t)
  BY <1>3, <1>4, <1>f, Boundary
<1> QED
  BY <1>12, <1>13, <1>14 DEF w, a, b

---------------------------------------------------------------------------
(* The value in the store. *)

LEMMA PutFacts ==
  ASSUME NEW buf \in Seq(Byte), NEW at \in Nat, NEW bytes \in Seq(Byte), at + Len(bytes) <= Len(buf)
  PROVE  /\ Put(buf, at, bytes) \in Seq(Byte) /\ Len(Put(buf, at, bytes)) = Len(buf)
         /\ Has(Put(buf, at, bytes), at, bytes)
<1> DEFINE new == Put(buf, at, bytes)
           n == Len(buf)
           m == Len(bytes)
<1>1. /\ n \in Nat /\ m \in Nat /\ at + m <= n /\ DOMAIN buf = 1 .. n /\ DOMAIN bytes = 1 .. m
      /\ \A i \in 1 .. n : buf[i] \in Byte
      /\ \A i \in 1 .. m : bytes[i] \in Byte
  OBVIOUS
<1>2. new = [i \in 1 .. n |-> IF i - at \in 1 .. m THEN bytes[i - at] ELSE buf[i]]
  BY <1>1 DEF Put
<1>w. Len(buf) = n /\ Len(bytes) = m
  OBVIOUS
<1> HIDE DEF new, n, m
<1>3. new \in [1 .. n -> Byte]
  BY <1>1, <1>2
<1>4. new \in Seq(Byte) /\ Len(new) = n
  BY <1>1, <1>3, FixedWidth
<1>5. ASSUME NEW i \in 1 .. m
      PROVE  new[at + i] = bytes[i]
  <2>1. at + i \in 1 .. n /\ (at + i) - at = i
    BY <1>1
  <2> QED
    BY <1>2, <2>1
<1>6. Has(new, at, bytes)
  BY <1>1, <1>4, <1>5, <1>w DEF Has
<1> QED
  BY <1>4, <1>6, <1>w DEF new

LEMMA PutKeeps ==
  ASSUME NEW buf \in Seq(Byte), NEW at \in Nat, NEW bytes \in Seq(Byte), at + Len(bytes) <= Len(buf),
         NEW off \in Nat, NEW enc \in Seq(Byte), Has(buf, off, enc), off + Len(enc) <= at
  PROVE  Has(Put(buf, at, bytes), off, enc)
<1> DEFINE new == Put(buf, at, bytes)
           n == Len(buf)
           m == Len(bytes)
           k == Len(enc)
<1>1. /\ n \in Nat /\ m \in Nat /\ k \in Nat /\ DOMAIN buf = 1 .. n /\ DOMAIN bytes = 1 .. m
      /\ off + k <= at /\ at + m <= n
  OBVIOUS
<1>2. new = [i \in 1 .. n |-> IF i - at \in 1 .. m THEN bytes[i - at] ELSE buf[i]]
  BY <1>1 DEF Put
<1>3. off + k <= n /\ \A i \in 1 .. k : buf[off + i] = enc[i]
  BY DEF Has
<1>4. Len(new) = n
  BY PutFacts
<1>w. Len(enc) = k
  OBVIOUS
<1> HIDE DEF new, n, m, k
<1>5. ASSUME NEW i \in 1 .. k
      PROVE  new[off + i] = enc[i]
  <2>1. off + i \in 1 .. n /\ ~((off + i) - at \in 1 .. m)
    BY <1>1, <1>3
  <2> QED
    BY <1>2, <1>3, <2>1
<1> QED
  BY <1>3, <1>4, <1>5, <1>w DEF Has, new

LEMMA ZerosFacts ==
  ASSUME NEW n \in Nat
  PROVE  Zeros(n) \in Seq(Byte) /\ Len(Zeros(n)) = n
<1>1. Zeros(n) \in [1 .. n -> Byte]
  BY ByteFacts DEF Zeros
<1> QED
  BY <1>1, FixedWidth

\* What stands behind an offset stands in the slice that begins there.
LEMMA HasBehind ==
  ASSUME NEW buf \in Seq(Byte), NEW at \in Nat, at <= Len(buf), NEW off \in Nat, NEW enc \in Seq(Byte),
         Has(buf, at + off, enc)
  PROVE  /\ SubSeq(buf, at + 1, Len(buf)) \in Seq(Byte)
         /\ Has(SubSeq(buf, at + 1, Len(buf)), off, enc)
<1> DEFINE rest == SubSeq(buf, at + 1, Len(buf))
           n == Len(buf)
           k == Len(enc)
<1>1. n \in Nat /\ k \in Nat /\ at <= n /\ \A i \in (at + 1) .. n : buf[i] \in Byte
  OBVIOUS
<1>2. at + off + k <= n /\ \A i \in 1 .. k : buf[at + off + i] = enc[i]
  BY DEF Has
<1>w. Len(enc) = k
  OBVIOUS
<1> HIDE DEF n, k
<1>3. at + 1 \in Int /\ n \in Int /\ n - (at + 1) + 1 = n - at
  BY <1>1
<1>4. /\ rest \in Seq(Byte) /\ Len(rest) = (IF at + 1 <= n THEN n - (at + 1) + 1 ELSE 0)
      /\ \A i \in 1 .. (n - (at + 1) + 1) : rest[i] = buf[(at + 1) + i - 1]
  BY <1>1, <1>3, SubSeqProperties DEF n
<1> HIDE DEF rest
<1>5. Len(rest) = n - at
  BY <1>1, <1>4
<1>6. ASSUME NEW i \in 1 .. k
      PROVE  rest[off + i] = enc[i]
  <2>1. off + i \in 1 .. (n - (at + 1) + 1) /\ (at + 1) + (off + i) - 1 = at + off + i
    BY <1>1, <1>2
  <2>2. rest[off + i] = buf[(at + 1) + (off + i) - 1]
    BY <1>4, <2>1
  <2> QED
    BY <1>2, <2>1, <2>2
<1>7. off + k <= Len(rest)
  BY <1>1, <1>2, <1>5
<1> QED
  BY <1>4, <1>6, <1>7, <1>w DEF Has, rest, n

\* The values of the outputs spent.
LEMMA ValuesRead ==
  ASSUME NEW buf \in Seq(Byte), NEW off \in Nat, NEW values \in Seq(0 .. Power[8] - 1),
         Len(values) \in 0 .. (Power[4] - 2)
  PROVE  LET enc == serialize_array([i \in DOMAIN values |-> LE(values[i], 8)])
         IN  /\ enc \in Seq(Byte) /\ Len(enc) = length_varint(Len(values)) + 8 * Len(values)
             /\ Has(buf, off, enc) =>
                  deserialize_array(buf, off, [o \in Offsets(buf) |-> get_le(buf, o, 8)])
                    = Result(values, off + Len(enc))
<1> DEFINE k == Len(values)
           parts == [i \in 1 .. k |-> LE(values[i], 8)]
           n == serialize_varint(k)
           item == [o \in Offsets(buf) |-> get_le(buf, o, 8)]
           enc == serialize_array(parts)
<1>1. k \in Nat /\ DOMAIN values = 1 .. k /\ \A i \in 1 .. k : values[i] \in 0 .. (Power[8] - 1)
  <2> DEFINE V == 0 .. Power[8] - 1
  <2>1. values \in Seq(V)
    OBVIOUS
  <2> HIDE DEF V
  <2>2. Len(values) \in Nat /\ DOMAIN values = 1 .. Len(values) /\ \A i \in 1 .. Len(values) : values[i] \in V
    BY <2>1
  <2> QED
    BY <2>2 DEF V
<1>2. \A i \in 1 .. k : LE(values[i], 8) \in Seq(Byte) /\ Len(LE(values[i], 8)) = 8
  BY <1>1, Numbers
<1>3. [i \in DOMAIN values |-> LE(values[i], 8)] = parts
  BY <1>1
<1>4. parts \in Seq(Seq(Byte)) /\ Len(parts) = k /\ \A i \in 1 .. k : parts[i] = LE(values[i], 8)
  BY <1>1, <1>2
<1>5. Varint(n, k)
  BY VarintsWritten
<1>6. [i \in 1 .. k |-> Len(parts[i])] = [i \in 1 .. k |-> 8]
  BY <1>2, <1>4
<1>7. Total([i \in 1 .. k |-> 8]) = 8 * k
  BY <1>1, TotalConstant
<1>8. enc = n \o FlattenSeq(parts)
  BY <1>4 DEF serialize_array
<1>c. k \in 0 .. (Power[4] - 2)
  OBVIOUS
<1>w. Len(values) = k
  OBVIOUS
<1> HIDE DEF k, parts, n, enc
<1>p. \A i \in 1 .. k : Len(parts[i]) <= Len(parts[i])
  BY <1>2, <1>4
<1>9. Len(enc) = length_varint(k) + Total([i \in 1 .. k |-> Len(parts[i])])
  BY <1>4, <1>c, <1>p, ListsWritten DEF enc
<1>10. Len(enc) = length_varint(k) + 8 * k
  BY <1>6, <1>7, <1>9
<1>11. enc \in Seq(Byte)
  BY <1>1, <1>4, <1>5, <1>8, ListFacts
<1>12. ASSUME NEW i \in 1 .. k, NEW o \in Nat, Has(buf, o, parts[i])
       PROVE  item[o] = Result(values[i], o + Len(parts[i]))
  <2>1. o \in Offsets(buf)
    BY <1>2, <1>4, <1>12, HasOffset
  <2>2. Has(buf, o, LE(values[i], 8)) /\ Len(parts[i]) = 8 /\ 8 \in 0 .. 8
    BY <1>2, <1>4, <1>12
  <2>3. get_le(buf, o, 8) = Result(values[i], o + 8)
    BY <1>1, <2>2, NumberReads
  <2> QED
    BY <2>1, <2>2, <2>3
<1> HIDE DEF item
<1>13. ItemsRead(buf, item, values, parts)
  BY <1>12, <1>w DEF ItemsRead
<1>14. ASSUME Has(buf, off, enc)
       PROVE  deserialize_array(buf, off, item) = Result(values, off + Len(enc))
  <2>1. Has(buf, off, n \o FlattenSeq(parts)) /\ Varint(n, Len(values)) /\ Len(parts) = Len(values)
    BY <1>4, <1>5, <1>8, <1>14, <1>w
  <2>2. deserialize_array(buf, off, item) = Result(values, off + Len(n \o FlattenSeq(parts)))
    BY <1>4, <1>13, <2>1, ArrayReads
  <2> QED
    BY <1>8, <2>2
<1> QED
  BY <1>3, <1>10, <1>11, <1>14, <1>w DEF enc, item

\* What analyze_tx writes is what get_analyzed_tx reads.
LEMMA StoredRead ==
  ASSUME NEW t, Kept(t), NEW values \in Seq(0 .. Power[8] - 1), Len(values) \in 0 .. (Power[4] - 2),
         NEW sigops \in U32, calculate_fee(t, values) \in 0 .. (Power[8] - 1),
         txouts_sum(t) \in 0 .. (Power[8] - 1), calculate_tx_size_wus(t) \in U32
  PROVE  deserialize_analyzed_tx(Analyzed(t, values, sigops))
           = [fee |-> calculate_fee(t, values), txouts_sum |-> txouts_sum(t),
              size_wus |-> calculate_tx_size_wus(t), sigops |-> sigops,
              block_hash |-> InBlock, tx |-> [t EXCEPT !.txouts = <<>>], txin_values |-> values]
<1> DEFINE size == serialized_without_txouts_size(t)
           k == Len(values)
           counted == serialize_array([i \in DOMAIN values |-> LE(values[i], 8)])
           fee == calculate_fee(t, values)
           sum == txouts_sum(t)
           wus == calculate_tx_size_wus(t)
           a == LE(fee, 8)
           b == LE(sum, 8)
           c == LE(wus, 4)
           d == LE(sigops, 4)
           head == a \o b \o c \o d \o InBlock
           enc == serialize_without_txouts(t)
           room == Zeros(size + 8 + 8 + 4 + 4 + 8 + 32 + length_varint(k) + k * 8)
           first == Put(room, 0, head)
           body == Put(first, 56, enc)
           data == Put(body, 56 + size, counted)
           rest == SubSeq(data, 57, Len(data))
<1>1. Analyzed(t, values, sigops) = data
  BY DEF Analyzed
<1>2. size \in Nat /\ size = Len(enc) /\ size = LocktimeAt(t, InsBytes(t.txins), <<>>) + 4
  BY Sizes
<1>3. counted \in Seq(Byte) /\ Len(counted) = length_varint(k) + 8 * k
  <2> DEFINE none == <<>>
  <2>1. none \in Seq(Byte) /\ 0 \in Nat
    BY EmptySeq
  <2> HIDE DEF none
  <2> QED
    BY <2>1, ValuesRead
<1>4. k \in Nat /\ length_varint(k) \in Nat
  <2>1. k \in Nat
    BY PowerFacts
  <2> QED
    BY <2>1 DEF length_varint
<1>5. /\ a \in Seq(Byte) /\ Len(a) = 8 /\ b \in Seq(Byte) /\ Len(b) = 8
      /\ c \in Seq(Byte) /\ Len(c) = 4 /\ d \in Seq(Byte) /\ Len(d) = 4
  BY Numbers
<1>6. InBlock \in Seq(Byte) /\ Len(InBlock) = 32
  BY CodecAssumption, FixedWidth
<1>7. enc \in Seq(Byte)
  BY AllWritten, WrittenTyped, WrittenShortLaid, Forms, EmptySeq
<1>s. size \in Nat
  BY <1>2
<1> HIDE DEF size, k, counted, a, b, c, d, enc
<1>8. head \in Seq(Byte) /\ Len(head) = 56
  <2>1. head \in Seq(Byte) /\ Len(head) = Len(a) + Len(b) + Len(c) + Len(d) + Len(InBlock)
    <3>1. /\ a \in Seq(Byte) /\ b \in Seq(Byte) /\ c \in Seq(Byte) /\ d \in Seq(Byte)
          /\ InBlock \in Seq(Byte)
      BY <1>5, <1>6
    <3> QED
      BY <3>1, FiveLong
  <2> HIDE DEF head
  <2> QED
    BY <1>5, <1>6, <2>1
<1> DEFINE total == size + 8 + 8 + 4 + 4 + 8 + 32 + length_varint(k) + k * 8
<1>9. /\ total \in Nat /\ total >= 56 + size + Len(counted) /\ 56 + size \in Nat /\ Len(counted) \in Nat
      /\ total >= 56
  <2> DEFINE l == length_varint(k)
             m == 8 * k
             n == Len(counted)
  <2>1. k * 8 = m /\ m \in Nat
    BY <1>4
  <2>2. n = l + m /\ l \in Nat
    BY <1>3, <1>4
  <2>3. total = size + 8 + 8 + 4 + 4 + 8 + 32 + l + m
    BY <2>1
  <2> HIDE DEF l, m, n, total
  <2>4. total \in Nat /\ total >= 56 + size + n /\ 56 + size \in Nat /\ n \in Nat /\ total >= 56
    BY <1>s, <2>1, <2>2, <2>3
  <2> QED
    BY <2>4 DEF n
<1>10. room \in Seq(Byte) /\ Len(room) = total
  BY <1>9, ZerosFacts
<1> HIDE DEF room, total, head
<1>11. first \in Seq(Byte) /\ Len(first) = total /\ Has(first, 0, head)
  <2>1. 0 \in Nat /\ 0 + Len(head) <= Len(room)
    BY <1>8, <1>9, <1>10
  <2> QED
    BY <1>8, <1>10, <2>1, PutFacts
<1> HIDE DEF first
<1>12. body \in Seq(Byte) /\ Len(body) = total /\ Has(body, 56, enc) /\ Has(body, 0, head)
  <2>1. 56 \in Nat /\ 56 + Len(enc) <= Len(first) /\ 0 \in Nat /\ 0 + Len(head) <= 56
    BY <1>2, <1>8, <1>9, <1>11
  <2>2. body \in Seq(Byte) /\ Len(body) = total /\ Has(body, 56, enc)
    BY <1>7, <1>11, <2>1, PutFacts
  <2>3. Has(body, 0, head)
    BY <1>7, <1>8, <1>11, <2>1, PutKeeps
  <2> QED
    BY <2>2, <2>3
<1> HIDE DEF body
<1>13. /\ data \in Seq(Byte) /\ Len(data) = total /\ Has(data, 56 + size, counted)
       /\ Has(data, 56, enc) /\ Has(data, 0, head)
  <2>1. 56 + size \in Nat /\ 56 + size + Len(counted) <= Len(body)
    BY <1>9, <1>12
  <2>2. data \in Seq(Byte) /\ Len(data) = total /\ Has(data, 56 + size, counted)
    BY <1>3, <1>12, <2>1, PutFacts
  <2>3. 0 \in Nat /\ 56 \in Nat /\ 0 + Len(head) <= 56 + size /\ 56 + Len(enc) <= 56 + size
    BY <1>2, <1>8
  <2>4. Has(data, 56, enc)
    BY <1>3, <1>7, <1>12, <2>1, <2>3, PutKeeps
  <2>5. Has(data, 0, head)
    BY <1>3, <1>8, <1>12, <2>1, <2>3, PutKeeps
  <2> QED
    BY <2>2, <2>4, <2>5
<1> HIDE DEF data
<1>14. rest \in Seq(Byte) /\ Has(rest, 0, enc) /\ Has(rest, size, counted)
  <2>1. 56 \in Nat /\ 56 <= Len(data) /\ 0 \in Nat /\ 56 + 1 = 57 /\ 56 + 0 = 56
    BY <1>9, <1>13
  <2>2. Has(data, 56 + 0, enc)
    BY <1>13, <2>1
  <2>3. SubSeq(data, 56 + 1, Len(data)) \in Seq(Byte) /\ Has(SubSeq(data, 56 + 1, Len(data)), 0, enc)
    BY <1>7, <1>13, <2>1, <2>2, HasBehind
  <2>4. Has(SubSeq(data, 56 + 1, Len(data)), size, counted)
    BY <1>2, <1>3, <1>13, <2>1, HasBehind
  <2> QED
    BY <2>1, <2>3, <2>4
<1> HIDE DEF rest
<1>15. /\ Has(data, 0, a) /\ Has(data, 8, b) /\ Has(data, 16, c) /\ Has(data, 20, d)
       /\ Has(data, 24, InBlock)
  <2>1. 0 \in Nat /\ Has(data, 0, a \o b \o c \o d \o InBlock)
    BY <1>13 DEF head
  <2>2. Five(data, 0, a, b, c, d, InBlock)
    BY <1>5, <1>6, <1>13, <2>1, HasFive
  <2>3. /\ Has(data, 0, a) /\ Has(data, 0 + Len(a), b) /\ Has(data, 0 + Len(a) + Len(b), c)
        /\ Has(data, 0 + Len(a) + Len(b) + Len(c), d)
        /\ Has(data, 0 + Len(a) + Len(b) + Len(c) + Len(d), InBlock)
    BY <2>2 DEF Five
  <2>4. /\ 0 + Len(a) = 8 /\ 0 + Len(a) + Len(b) = 16 /\ 0 + Len(a) + Len(b) + Len(c) = 20
        /\ 0 + Len(a) + Len(b) + Len(c) + Len(d) = 24
    BY <1>5
  <2> QED
    BY <2>3, <2>4
<1>16. get_le(data, 0, 8).val = fee /\ get_le(data, 8, 8).val = sum
  <2>1. /\ 0 \in Nat /\ 8 \in Nat /\ 8 \in 0 .. 8 /\ Has(data, 0, LE(fee, 8)) /\ Has(data, 8, LE(sum, 8))
        /\ fee \in 0 .. (Power[8] - 1) /\ sum \in 0 .. (Power[8] - 1)
    BY <1>15 DEF a, b
  <2> HIDE DEF fee, sum
  <2>2. get_le(data, 0, 8) = Result(fee, 0 + 8) /\ 0 + 8 \in Nat
    BY <1>13, <2>1, NumberReads
  <2>3. get_le(data, 8, 8) = Result(sum, 8 + 8) /\ 8 + 8 \in Nat
    BY <1>13, <2>1, NumberReads
  <2> QED
    BY <2>2, <2>3, ResultFacts
<1>17. get_le(data, 16, 4).val = wus /\ get_le(data, 20, 4).val = sigops
  <2>1. /\ 16 \in Nat /\ 20 \in Nat /\ 4 \in 0 .. 8 /\ Has(data, 16, LE(wus, 4)) /\ Has(data, 20, LE(sigops, 4))
        /\ wus \in 0 .. (Power[4] - 1) /\ sigops \in 0 .. (Power[4] - 1)
    BY <1>15 DEF c, d, U32
  <2> HIDE DEF wus
  <2>2. get_le(data, 16, 4) = Result(wus, 16 + 4) /\ 16 + 4 \in Nat
    BY <1>13, <2>1, NumberReads
  <2>3. get_le(data, 20, 4) = Result(sigops, 20 + 4) /\ 20 + 4 \in Nat
    BY <1>13, <2>1, NumberReads
  <2> QED
    BY <2>2, <2>3, ResultFacts
<1>18. Take(data, 24, 32).val = InBlock
  <2>1. Take(data, 24, Len(InBlock)) = Result(InBlock, 24 + Len(InBlock)) /\ 24 + Len(InBlock) \in Nat
    <3>1. Has(data, 24, InBlock) /\ InBlock \in Seq(Byte) /\ data \in Seq(Byte) /\ 24 \in Nat
      BY <1>6, <1>13, <1>15
    <3> QED
      BY <3>1, HasTaken
  <2> QED
    BY <1>6, <2>1, ResultFacts
<1> DEFINE u == [t EXCEPT !.txouts = <<>>]
<1>19. Kept(u) /\ u.txins = t.txins /\ u.txouts = <<>> /\ u.witness = t.witness /\ u.version = t.version
       /\ u.locktime = t.locktime
  <2>1. <<>> \in Short(TxOuts)
    <3>1. <<>> \in Seq(TxOuts) /\ Len(<<>>) = 0
      BY EmptySeq
    <3>2. 0 < Power[4] - 1
      BY PowerFacts, BaseFacts
    <3> QED
      BY <3>1, <3>2 DEF Short
  <2>2. t \in Keeps
    BY DEF Kept
  <2>3. u \in Keeps /\ u.txins = t.txins /\ u.txouts = <<>> /\ u.witness = t.witness
        /\ u.version = t.version /\ u.locktime = t.locktime
    BY <2>1, <2>2 DEF Keeps
  <2> HIDE DEF u
  <2> QED
    BY <2>3 DEF Kept
<1> HIDE DEF u
<1>20. Transaction(rest, FALSE) = Found(u, size, InsAt(u), OutsAt(u, InsBytes(t.txins)))
  <2> DEFINE ins == InsBytes(t.txins)
             none == <<>>
  <2>1. InsEncoded(ins, u.txins) /\ ins \in Seq(Byte)
    BY <1>19, AllWritten, WrittenTyped
  <2>2. enc = WrittenShort(u, ins)
    BY <1>19, Forms DEF WrittenShort, enc
  <2>3. IsLaid(rest, u, ins, <<>>)
    BY <1>14, <1>19, <2>1, <2>2, WrittenShortLaid
  <2>4. /\ LocktimeAt(u, ins, none) = LocktimeAt(t, ins, none)
        /\ Laid(rest, u, ins, none, InsAt(u), OutsAt(u, ins), StacksAt(u, ins, none), LocktimeAt(u, ins, none))
    BY <1>19, <2>3 DEF IsLaid, LocktimeAt, StacksAt, OutsAt, InsAt
  <2>5. none \in Seq(Byte) /\ Len(none) = 0 /\ u.txouts = none
    BY <1>19, EmptySeq
  <2>s. StacksAt(u, ins, none) = OutsAt(u, ins)
    <3>1. Len(ins) \in Nat /\ Len(Marker(u.witness)) \in Nat
      BY <1>19, <2>1, PartsTyped
    <3> QED
      BY <2>5, <3>1 DEF StacksAt, OutsAt, InsAt
  <2>z. LocktimeAt(u, ins, none) + 4 = size
    BY <1>2, <2>4
  <2>e. ins = InsBytes(t.txins)
    OBVIOUS
  <2> HIDE DEF ins, none
  <2>6. ASSUME NEW with \in BOOLEAN, with = FALSE
        PROVE  Transaction(rest, with) = Found(u, LocktimeAt(u, ins, none) + 4, InsAt(u), StacksAt(u, ins, none))
    <3>1. OutsGiven(with, none, u.txouts)
      BY <2>5, <2>6 DEF OutsGiven, none
    <3> QED
      <4>1. /\ rest \in Seq(Byte) /\ none \in Seq(Byte) /\ Kept(u) /\ InsEncoded(ins, u.txins)
            /\ Laid(rest, u, ins, none, InsAt(u), OutsAt(u, ins), StacksAt(u, ins, none), LocktimeAt(u, ins, none))
        BY <1>14, <1>19, <2>1, <2>4, <2>5
      <4> QED
        BY <3>1, <4>1, TransactionReads
  <2>7. Transaction(rest, FALSE) = Found(u, LocktimeAt(u, ins, none) + 4, InsAt(u), StacksAt(u, ins, none))
    BY <2>6
  <2> QED
    <3>1. Transaction(rest, FALSE) = Found(u, size, InsAt(u), OutsAt(u, ins))
      BY <2>7, <2>s, <2>z
    <3> QED
      BY <3>1, <2>e
<1>21. Transaction(rest, FALSE).val = u /\ Transaction(rest, FALSE).at = size
  <2> DEFINE found == Transaction(rest, FALSE)
             o == OutsAt(u, InsBytes(t.txins))
             p == InsAt(u)
  <2>1. found = Found(u, size, p, o)
    BY <1>20
  <2> HIDE DEF found, o, p
  <2>2. found.val = u /\ found.at = size
    BY <2>1 DEF Found
  <2> QED
    BY <2>2 DEF found
<1>22. deserialize_array(rest, size, [o \in Offsets(rest) |-> get_le(rest, o, 8)]).val = values
  <2>1. deserialize_array(rest, size, [o \in Offsets(rest) |-> get_le(rest, o, 8)])
          = Result(values, size + Len(counted))
    BY <1>2, <1>14, ValuesRead DEF counted
  <2> DEFINE x == deserialize_array(rest, size, [o \in Offsets(rest) |-> get_le(rest, o, 8)])
  <2>2. x = Result(values, size + Len(counted)) /\ size + Len(counted) \in Nat
    BY <1>2, <1>9, <2>1
  <2> HIDE DEF x
  <2>3. x.val = values
    BY <2>2, Opened
  <2> QED
    BY <2>3 DEF x
<1>23. deserialize_analyzed_tx(data)
         = [fee |-> get_le(data, 0, 8).val, txouts_sum |-> get_le(data, 8, 8).val,
            size_wus |-> get_le(data, 16, 4).val, sigops |-> get_le(data, 20, 4).val,
            block_hash |-> Take(data, 24, 32).val, tx |-> Transaction(rest, FALSE).val,
            txin_values |-> deserialize_array(rest, Transaction(rest, FALSE).at,
                              [o \in Offsets(rest) |-> get_le(rest, o, 8)]).val]
  BY DEF deserialize_analyzed_tx, rest
<1>24. deserialize_analyzed_tx(data)
         = [fee |-> fee, txouts_sum |-> sum, size_wus |-> wus, sigops |-> sigops,
            block_hash |-> InBlock, tx |-> u, txin_values |-> values]
  BY <1>16, <1>17, <1>18, <1>21, <1>22, <1>23
<1> QED
  BY <1>1, <1>24 DEF u

---------------------------------------------------------------------------
(* What peers send and what they are served. *)

LEMMA ReceivedKept ==
  ASSUME NEW t \in Received
  PROVE  /\ Kept(AsKept(t))
         /\ txouts_sum(AsKept(t)) <= SpentValue * Len(AsKept(t).txins)
         /\ SpentValue * Len(AsKept(t).txins) < Power[8]
         /\ calculate_tx_size_wus(AsKept(t)) < Power[4]
<1> DEFINE k == AsKept(t)
           w == [i \in DOMAIN t.witness |-> Stack(t.witness[i])]
<1>1. /\ t \in Txs /\ (t.witness # NoWitness => Len(t.witness) = Len(t.txins))
      /\ txouts_sum(t) <= SpentValue * Len(t.txins)
      /\ SpentValue * Len(t.txins) < Power[8]
      /\ calculate_tx_size_wus(k) < Power[4]
  BY CodecAssumption
<1>2. /\ t.version \in U32 /\ t.txins \in Short(TxIns) /\ t.txins # <<>> /\ t.txouts \in Short(TxOuts)
      /\ t.witness \in Seq(Short(Short(Byte))) /\ t.locktime \in U32
      /\ t = [version |-> t.version, txins |-> t.txins, txouts |-> t.txouts,
              witness |-> t.witness, locktime |-> t.locktime]
  BY <1>1 DEF Txs
<1>3. k = [version |-> t.version, txins |-> t.txins, txouts |-> t.txouts,
           witness |-> w, locktime |-> t.locktime]
  BY <1>2 DEF AsKept
<1>4. /\ Len(t.witness) \in Nat /\ DOMAIN t.witness = 1 .. Len(t.witness)
      /\ \A i \in 1 .. Len(t.witness) : t.witness[i] \in Short(Short(Byte))
  BY <1>2
<1>5. ASSUME NEW i \in 1 .. Len(t.witness)
      PROVE  IsStack(Stack(t.witness[i])) /\ Stack(t.witness[i]) \in Seq(Byte)
  <2>1. IsStack(Stack(t.witness[i]))
    BY <1>4 DEF IsStack
  <2> DEFINE s == Stack(t.witness[i])
             none == <<>>
  <2>2. none \in Seq(Byte) /\ 0 \in Nat /\ IsStack(s)
    BY <2>1, EmptySeq
  <2> HIDE DEF s, none
  <2>3. s \in Seq(Byte)
    BY <2>2, StackReads
  <2> QED
    BY <2>1, <2>3 DEF s
<1>6. /\ w \in Seq(Seq(Byte)) /\ Len(w) = Len(t.witness)
      /\ \A i \in 1 .. Len(w) : IsStack(w[i])
  BY <1>4, <1>5
<1>7. t.witness = NoWitness => w = NoWitness
  <2>1. \A i : i \notin DOMAIN <<>>
    OBVIOUS
  <2>2. ASSUME t.witness = NoWitness
        PROVE  Len(w) = 0 /\ w \in Seq(Seq(Byte))
    BY <1>6, <2>2, EmptySeq DEF NoWitness
  <2> HIDE DEF w
  <2> QED
    BY <2>2, EmptySeq DEF NoWitness
<1> HIDE DEF w, k
<1>8. /\ k.version = t.version /\ k.txins = t.txins /\ k.txouts = t.txouts /\ k.witness = w
      /\ k.locktime = t.locktime
  BY <1>3
<1>9. Kept(k)
  <2>1. k \in Keeps
    BY <1>2, <1>3, <1>6 DEF Keeps
  <2> QED
    BY <1>1, <1>2, <1>6, <1>7, <1>8, <2>1 DEF Kept
<1>10. txouts_sum(k) = txouts_sum(t)
  BY <1>8 DEF txouts_sum
<1> QED
  BY <1>1, <1>8, <1>9, <1>10 DEF k

\* The transaction without its outputs, and without its witness.
LEMMA KeptWithout ==
  ASSUME NEW t, Kept(t), NEW with \in BOOLEAN
  PROVE  LET u == [t EXCEPT !.txouts = <<>>]
             sent == IF with THEN u ELSE [u EXCEPT !.witness = NoWitness]
         IN  /\ Kept(sent)
             /\ sent = [t EXCEPT !.txouts = <<>>, !.witness = IF with THEN @ ELSE NoWitness]
<1> DEFINE w == IF with THEN t.witness ELSE NoWitness
           s == [version |-> t.version, txins |-> t.txins, txouts |-> <<>>,
                 witness |-> w, locktime |-> t.locktime]
           u == [t EXCEPT !.txouts = <<>>]
           sent == IF with THEN u ELSE [u EXCEPT !.witness = NoWitness]
<1>1. /\ t.version \in U32 /\ t.locktime \in U32
      /\ t.txins \in Seq(TxIns) /\ t.txouts \in Seq(TxOuts) /\ t.witness \in Seq(Seq(Byte))
      /\ t.txins # <<>>
      /\ t.witness # NoWitness => Len(t.witness) = Len(t.txins)
      /\ \A i \in 1 .. Len(t.witness) : IsStack(t.witness[i])
  BY KeptFacts
<1>t. t = [version |-> t.version, txins |-> t.txins, txouts |-> t.txouts,
           witness |-> t.witness, locktime |-> t.locktime]
  BY KeptFacts
<1>u. u = [version |-> t.version, txins |-> t.txins, txouts |-> <<>>,
           witness |-> t.witness, locktime |-> t.locktime]
  BY <1>t
<1>2. sent = s
  <2>1. CASE with
    BY <1>u, <2>1
  <2>2. CASE ~with
    <3> HIDE DEF u
    <3>1. [u EXCEPT !.witness = NoWitness]
            = [version |-> t.version, txins |-> t.txins, txouts |-> <<>>,
               witness |-> NoWitness, locktime |-> t.locktime]
      BY <1>u
    <3> QED
      BY <2>2, <3>1
  <2> QED
    BY <2>1, <2>2
<1>3. [t EXCEPT !.txouts = <<>>, !.witness = IF with THEN @ ELSE NoWitness] = s
  <2> DEFINE x == IF with THEN t.witness ELSE NoWitness
             all == [version |-> t.version, txins |-> t.txins, txouts |-> t.txouts,
                     witness |-> t.witness, locktime |-> t.locktime]
  <2>1. [all EXCEPT !.txouts = <<>>, !.witness = IF with THEN @ ELSE NoWitness]
          = [all EXCEPT !.txouts = <<>>, !.witness = x]
    <3>1. all.witness = t.witness
      OBVIOUS
    <3> HIDE DEF all
    <3>2. CASE with
      BY <3>1, <3>2
    <3>3. CASE ~with
      BY <3>3
    <3> QED
      BY <3>2, <3>3
  <2> HIDE DEF x
  <2>2. [all EXCEPT !.txouts = <<>>, !.witness = x]
          = [version |-> t.version, txins |-> t.txins, txouts |-> <<>>,
             witness |-> x, locktime |-> t.locktime]
    <3> DEFINE none == <<>>
               v == [all EXCEPT !.txouts = none]
    <3>1. v = [version |-> t.version, txins |-> t.txins, txouts |-> <<>>,
               witness |-> t.witness, locktime |-> t.locktime]
      OBVIOUS
    <3>2. [all EXCEPT !.txouts = none, !.witness = x] = [[all EXCEPT !.txouts = none] EXCEPT !.witness = x]
      <4> HIDE DEF all, none
      <4> QED
        OBVIOUS
    <3>3. [v EXCEPT !.witness = x]
            = [version |-> t.version, txins |-> t.txins, txouts |-> <<>>,
               witness |-> x, locktime |-> t.locktime]
      <4> HIDE DEF v
      <4> QED
        BY <3>1
    <3> HIDE DEF all
    <3> QED
      BY <3>2, <3>3
  <2>3. t = all
    BY <1>t
  <2> HIDE DEF all
  <2> QED
    BY <2>1, <2>2, <2>3 DEF x
<1>4. <<>> \in Short(TxOuts)
  <2>1. <<>> \in Seq(TxOuts) /\ Len(<<>>) = 0
    BY EmptySeq
  <2>2. 0 < Power[4] - 1
    BY PowerFacts, BaseFacts
  <2> QED
    BY <2>1, <2>2 DEF Short
<1>5. /\ w \in Seq(Seq(Byte)) /\ (w # NoWitness => Len(w) = Len(t.txins))
      /\ \A i \in 1 .. Len(w) : IsStack(w[i])
  <2>1. CASE with
    BY <1>1, <2>1
  <2>2. CASE ~with
    <3>1. w = <<>> /\ <<>> \in Seq(Seq(Byte)) /\ Len(<<>>) = 0
      BY <2>2, EmptySeq DEF NoWitness
    <3> HIDE DEF w
    <3>2. Len(w) = 0 /\ w \in Seq(Seq(Byte)) /\ w = NoWitness /\ 1 .. 0 = {}
      BY <3>1 DEF NoWitness
    <3> QED
      BY <3>2
  <2> QED
    BY <2>1, <2>2
<1> HIDE DEF w
<1>6. s \in Keeps
  BY <1>1, <1>4, <1>5, KeptShort DEF Keeps
<1>7. s.txins = t.txins /\ s.witness = w
  OBVIOUS
<1> HIDE DEF s, sent
<1>8. Kept(s)
  BY <1>1, <1>5, <1>6, <1>7 DEF Kept
<1> QED
  BY <1>2, <1>3, <1>8 DEF sent

LEMMA SentRead ==
  ASSUME NEW t, Kept(t)
  PROVE  LET r == deserialize_borrowed(serialize_tx(t))
         IN  r.val = t /\ r.at = Len(serialize_tx(t))
<1>1. InsEncoded(InsBytes(t.txins), t.txins) /\ OutsEncoded(OutsBytes(t.txouts), t.txouts)
  BY AllWritten
<1>2. serialize_tx(t) = Written(t, InsBytes(t.txins), OutsBytes(t.txouts))
  BY Forms
<1> DEFINE ins == InsBytes(t.txins)
           outs == OutsBytes(t.txouts)
<1> HIDE DEF ins, outs
<1>3. InsEncoded(ins, t.txins) /\ OutsEncoded(outs, t.txouts) /\ serialize_tx(t) = Written(t, ins, outs)
  BY <1>1, <1>2 DEF ins, outs
<1>4. /\ deserialize_borrowed(Written(t, ins, outs)).val = t
      /\ deserialize_borrowed(Written(t, ins, outs)).at = Len(Written(t, ins, outs))
  BY <1>3, Hashes
<1> QED
  BY <1>3, <1>4

\* What arrives of a transaction, and what becomes of it.
LEMMA WireRead ==
  ASSUME NEW t, Kept(t), NEW cut \in Nat
  PROVE  LET bytes == SubSeq(Wire(t), 1, Len(Wire(t)) - cut)
             r == deserialize_borrowed(bytes)
         IN  /\ cut > 0 => Failed(r)
             /\ cut = 0 => /\ bytes = Wire(t) /\ r.val = t /\ r.at = Len(bytes) /\ ~Failed(r)
                           /\ r.hash = Stripped(t)
                           /\ r.witness_hash = IF AllEmpty(t.witness) THEN Stripped(t) ELSE bytes
<1> DEFINE ins == CanonicalIns(t.txins)
           outs == CanonicalOuts(t.txouts)
           wire == Written(t, ins, outs)
           bytes == SubSeq(wire, 1, Len(wire) - cut)
           r == deserialize_borrowed(bytes)
<1>1. InsEncoded(ins, t.txins) /\ OutsEncoded(outs, t.txouts)
  BY AllWritten
<1>2. Wire(t) = wire /\ Stripped(t) = WrittenStripped(t, ins, outs)
  BY Forms
<1> HIDE DEF ins, outs
<1>3. cut > 0 => Failed(r)
  BY <1>1, CutRefused
<1>4. ASSUME cut = 0
      PROVE  /\ bytes = wire /\ r.val = t /\ r.at = Len(bytes) /\ ~Failed(r)
             /\ r.hash = WrittenStripped(t, ins, outs)
             /\ r.witness_hash = IF AllEmpty(t.witness) THEN WrittenStripped(t, ins, outs) ELSE bytes
  <2>1. wire \in Seq(Byte)
    BY <1>1, WrittenRead
  <2> DEFINE w == wire
             h == WrittenStripped(t, ins, outs)
             q == deserialize_borrowed(w)
  <2>2. /\ q.val = t /\ q.at = Len(w) /\ ~Failed(q) /\ q.hash = h
        /\ q.witness_hash = IF AllEmpty(t.witness) THEN q.hash ELSE w
    BY <1>1, Hashes
  <2> HIDE DEF w, h
  <2>3. w \in Seq(Byte) /\ Len(w) - cut = Len(w)
    BY <1>4, <2>1 DEF w
  <2>4. SubSeq(w, 1, Len(w) - cut) = w
    BY <2>3, SubSeqFull
  <2>5. bytes = w
    BY <2>4 DEF w
  <2> HIDE DEF bytes
  <2>6. r = q
    BY <2>5
  <2> HIDE DEF r, q
  <2>7. r.witness_hash = IF AllEmpty(t.witness) THEN h ELSE w
    BY <2>2, <2>6
  <2> QED
    BY <2>2, <2>5, <2>6, <2>7 DEF w, h
<1> QED
  BY <1>2, <1>3, <1>4

LEMMA OutsStored ==
  ASSUME NEW t, Kept(t)
  PROVE  deserialize_txouts(serialize_txouts(t), 0).val = t.txouts
<1> DEFINE n == OutsSize(t)
           outs == OutsBytes(t.txouts)
           buf == Put(Zeros(n), 0, outs)
<1>1. OutsEncoded(outs, t.txouts) /\ outs \in Seq(Byte) /\ n \in Nat /\ n = Len(outs) /\ t.txouts \in Seq(TxOuts)
  BY AllWritten, WrittenTyped, Sizes, KeptFacts
<1>2. serialize_txouts(t) = buf
  BY DEF serialize_txouts
<1>z. Zeros(n) \in Seq(Byte) /\ Len(Zeros(n)) = n
  BY <1>1, ZerosFacts
<1> DEFINE zeros == Zeros(n)
<1> HIDE DEF n, outs, zeros
<1>3. zeros \in Seq(Byte) /\ 0 \in Nat /\ 0 + Len(outs) <= Len(zeros)
  BY <1>1, <1>z DEF zeros
<1>4. Put(zeros, 0, outs) \in Seq(Byte) /\ Has(Put(zeros, 0, outs), 0, outs)
  BY <1>1, <1>3, PutFacts
<1>5. buf \in Seq(Byte) /\ Has(buf, 0, outs)
  BY <1>4 DEF zeros
<1> HIDE DEF buf
<1>6. deserialize_txouts(buf, 0) = Result(t.txouts, 0 + Len(outs)) /\ 0 + Len(outs) \in Nat
  BY <1>1, <1>5, OutsRead
<1> QED
  BY <1>2, <1>6, ResultFacts

---------------------------------------------------------------------------
(* What the variables of Codec hold, each given the one before it. *)

SentAs(t, cut) ==
    [tx |-> AsKept(t), bytes |-> SubSeq(Wire(AsKept(t)), 1, Len(Wire(AsKept(t))) - cut), cut |-> cut]

StoredAs(t) ==
    [tx |-> Analyzed(t, [i \in DOMAIN t.txins |-> SpentValue], Len(t.txouts)),
     txouts |-> serialize_txouts(t)]

ShownAs(st, hash) ==
    LET a == deserialize_analyzed_tx(st.tx)
        t == [a.tx EXCEPT !.txouts = deserialize_txouts(st.txouts, 0).val]
    IN  [analyzed |-> a, tx |-> t, witness_hash |-> compute_witness_hash(t, hash)]

ServedAs(st, with) ==
    LET t == deserialize_analyzed_tx(st.tx).tx
    IN  [witness |-> with, bytes |-> serialize_tx(IF with THEN t ELSE [t EXCEPT !.witness = NoWitness])]

CodecInv ==
    /\ message # Nothing => \E t \in Received : \E cut \in Cuts : message = SentAs(t, cut)
    /\ parsed # Nothing => message # Nothing /\ parsed = deserialize_borrowed(message.bytes)
    /\ stored # Nothing => parsed # Nothing /\ ~Failed(parsed) /\ stored = StoredAs(parsed.val)
    /\ page # Nothing => stored # Nothing /\ page = ShownAs(stored, parsed.hash)
    /\ served # Nothing => stored # Nothing /\ \E with \in BOOLEAN : served = ServedAs(stored, with)

LEMMA CodecInvInit == CodecInit => CodecInv
BY DEF CodecInit, CodecInv

LEMMA CodecInvNext == CodecInv /\ [CodecNext]_codecVars => CodecInv'
<1> SUFFICES ASSUME CodecInv, [CodecNext]_codecVars
             PROVE  CodecInv'
  OBVIOUS
<1>1. ASSUME NEW t \in Received, NEW cut \in Cuts, Send(t, cut)
      PROVE  CodecInv'
  <2>1. message = Nothing /\ message' = SentAs(t, cut) /\ UNCHANGED <<parsed, stored, page, served>>
    BY <1>1 DEF Send, SentAs
  <2>2. parsed = Nothing /\ stored = Nothing /\ page = Nothing /\ served = Nothing
    BY <2>1 DEF CodecInv
  <2> QED
    BY <2>1, <2>2 DEF CodecInv
<1>2. CASE Parse
  <2>1. /\ message # Nothing /\ parsed = Nothing /\ parsed' = deserialize_borrowed(message.bytes)
        /\ UNCHANGED <<message, stored, page, served>>
    BY <1>2 DEF Parse
  <2>2. stored = Nothing /\ page = Nothing /\ served = Nothing
    BY <2>1 DEF CodecInv
  <2> QED
    BY <2>1, <2>2 DEF CodecInv
<1>3. CASE Store
  <2>1. /\ parsed # Nothing /\ stored = Nothing /\ ~Failed(parsed) /\ stored' = StoredAs(parsed.val)
        /\ UNCHANGED <<message, parsed, page, served>>
    BY <1>3 DEF Store, StoredAs
  <2>2. page = Nothing /\ served = Nothing
    BY <2>1 DEF CodecInv
  <2> QED
    BY <2>1, <2>2 DEF CodecInv, Failed
<1>4. CASE Show
  <2>1. /\ stored # Nothing /\ page' = ShownAs(stored, parsed.hash)
        /\ UNCHANGED <<message, parsed, stored, served>>
    BY <1>4 DEF Show, PageOf, ShownAs
  <2> QED
    BY <2>1 DEF CodecInv, Failed
<1>5. ASSUME NEW with \in BOOLEAN, Serve(with)
      PROVE  CodecInv'
  <2>1. /\ stored # Nothing /\ served' = ServedAs(stored, with)
        /\ UNCHANGED <<message, parsed, stored, page>>
    BY <1>5 DEF Serve, ServedAs
  <2> QED
    BY <2>1 DEF CodecInv, Failed
<1>6. CASE UNCHANGED codecVars
  BY <1>6 DEF codecVars, CodecInv, Failed
<1> QED
  BY <1>1, <1>2, <1>3, <1>4, <1>5, <1>6 DEF CodecNext

---------------------------------------------------------------------------
(* A transaction of which nothing is missing. *)

\* What analyze_tx computes of it fits the fields it is written to.
Paid(t) ==
    /\ txouts_sum(t) <= SpentValue * Len(t.txins)
    /\ SpentValue * Len(t.txins) < Power[8]
    /\ calculate_tx_size_wus(t) < Power[4]

LEMMA AnalyzedRead ==
  ASSUME NEW t, Kept(t), Paid(t)
  PROVE  LET values == [i \in DOMAIN t.txins |-> SpentValue]
         IN  /\ deserialize_analyzed_tx(StoredAs(t).tx)
                  = [fee |-> calculate_fee(t, values), txouts_sum |-> txouts_sum(t),
                     size_wus |-> calculate_tx_size_wus(t), sigops |-> Len(t.txouts),
                     block_hash |-> InBlock, tx |-> [t EXCEPT !.txouts = <<>>], txin_values |-> values]
             /\ calculate_fee(t, values) + txouts_sum(t) = SpentValue * Len(t.txins)
             /\ deserialize_txouts(StoredAs(t).txouts, 0).val = t.txouts
<1> DEFINE k == Len(t.txins)
           values == [i \in DOMAIN t.txins |-> SpentValue]
           sum == txouts_sum(t)
           fee == calculate_fee(t, values)
           wus == calculate_tx_size_wus(t)
           n == Len(t.txouts)
           P4 == Power[4]
           P8 == Power[8]
<1>1. /\ t.txins \in Seq(TxIns) /\ t.txouts \in Seq(TxOuts) /\ k \in Nat /\ k \in 0 .. (P4 - 2)
      /\ n \in Nat /\ n \in 0 .. (P4 - 2)
  BY KeptShort, ShortFacts
<1>2. P4 \in Nat /\ P8 \in Nat /\ SpentValue \in Nat /\ SpentValue \in 0 .. (P8 - 1)
  <2>1. Power[4] \in Nat /\ Power[8] \in Nat
    BY PowerFacts
  <2>2. SpentValue \in 0 .. (Power[8] - 1)
    BY CodecAssumption
  <2> QED
    BY <2>1, <2>2
<1>3. DOMAIN t.txins = 1 .. k
  BY <1>1
<1>4. values = [i \in 1 .. k |-> SpentValue]
  BY <1>3
<1>5. values \in Seq(0 .. (P8 - 1)) /\ Len(values) = k
  <2> HIDE DEF k, P8
  <2> QED
    BY <1>1, <1>2, <1>4
<1>6. Total(values) = SpentValue * k
  BY <1>1, <1>2, <1>4, TotalConstant
<1>7. sum \in Nat
  <2> DEFINE a == [i \in DOMAIN t.txouts |-> t.txouts[i].value]
  <2>1. \A i \in 1 .. n : t.txouts[i] \in TxOuts /\ DOMAIN t.txouts = 1 .. n
    BY <1>1
  <2>2. ASSUME NEW i \in 1 .. n
        PROVE  t.txouts[i].value \in Nat
    <3>1. t.txouts[i].value \in 0 .. (Power[8] - 1)
      BY <2>1 DEF TxOuts
    <3> QED
      BY <1>2, <3>1
  <2>3. DOMAIN t.txouts = 1 .. n
    BY <1>1
  <2>4. a = [i \in 1 .. n |-> t.txouts[i].value]
    BY <2>3
  <2>5. a \in Seq(Nat)
    BY <1>1, <2>2, <2>4
  <2>6. sum = Total(a)
    BY DEF txouts_sum
  <2> HIDE DEF a
  <2> QED
    BY <2>5, <2>6, TotalType
<1>8. fee = SpentValue * k - sum
  BY <1>6 DEF calculate_fee
<1>9. SpentValue * k \in Nat /\ sum <= SpentValue * k /\ SpentValue * k < P8 /\ wus < P4
  BY <1>1, <1>2 DEF Paid
<1>10. wus \in Nat
  BY Weight
<1> DEFINE total == SpentValue * k
<1> HIDE DEF k, sum, fee, wus, n, P4, P8, total, values
<1>11. total \in Nat /\ sum <= total /\ total < P8 /\ fee = total - sum
  BY <1>8, <1>9 DEF total
<1>12. fee \in 0 .. (P8 - 1) /\ sum \in 0 .. (P8 - 1) /\ fee + sum = total
  BY <1>2, <1>7, <1>11
<1>13. wus \in U32 /\ n \in U32
  BY <1>1, <1>2, <1>9, <1>10 DEF U32, P4
<1>14. /\ values \in Seq(0 .. Power[8] - 1) /\ Len(values) \in 0 .. (Power[4] - 2)
       /\ calculate_fee(t, values) \in 0 .. (Power[8] - 1) /\ txouts_sum(t) \in 0 .. (Power[8] - 1)
       /\ calculate_tx_size_wus(t) \in U32
  BY <1>1, <1>5, <1>12, <1>13 DEF P4, P8, fee, sum, wus
<1>15. deserialize_analyzed_tx(Analyzed(t, values, n))
         = [fee |-> calculate_fee(t, values), txouts_sum |-> txouts_sum(t),
            size_wus |-> calculate_tx_size_wus(t), sigops |-> n,
            block_hash |-> InBlock, tx |-> [t EXCEPT !.txouts = <<>>], txin_values |-> values]
  BY <1>13, <1>14, StoredRead
<1>16. StoredAs(t).tx = Analyzed(t, values, n) /\ StoredAs(t).txouts = serialize_txouts(t)
  BY DEF StoredAs, values, n
<1>17. deserialize_txouts(serialize_txouts(t), 0).val = t.txouts
  BY OutsStored
<1> QED
  BY <1>12, <1>15, <1>16, <1>17 DEF values, n, fee, sum, total, k

LEMMA PageRead ==
  ASSUME NEW t, Kept(t), Paid(t), NEW hash
  PROVE  LET p == ShownAs(StoredAs(t), hash)
         IN  /\ p.tx = t
             /\ p.analyzed.txin_values = [i \in DOMAIN t.txins |-> SpentValue]
             /\ p.analyzed.fee + p.analyzed.txouts_sum = SpentValue * Len(t.txins)
             /\ p.analyzed.txouts_sum = txouts_sum(t)
             /\ p.analyzed.sigops = Len(t.txouts)
             /\ p.analyzed.block_hash = InBlock
             /\ p.witness_hash = IF AllEmpty(t.witness) THEN hash ELSE serialize_tx(t)
             /\ p.analyzed.size_wus = calculate_tx_size_wus(t)
<1> DEFINE a == deserialize_analyzed_tx(StoredAs(t).tx)
           outs == deserialize_txouts(StoredAs(t).txouts, 0).val
           values == [i \in DOMAIN t.txins |-> SpentValue]
           fee == calculate_fee(t, values)
           sum == txouts_sum(t)
           wus == calculate_tx_size_wus(t)
           n == Len(t.txouts)
           short == [t EXCEPT !.txouts = <<>>]
           u == [a.tx EXCEPT !.txouts = outs]
           total == SpentValue * Len(t.txins)
           p == ShownAs(StoredAs(t), hash)
<1>1. /\ a = [fee |-> fee, txouts_sum |-> sum, size_wus |-> wus, sigops |-> n,
              block_hash |-> InBlock, tx |-> short, txin_values |-> values]
      /\ fee + sum = total /\ outs = t.txouts
  BY AnalyzedRead
<1>2. p = [analyzed |-> a, tx |-> u, witness_hash |-> compute_witness_hash(u, hash)]
  BY DEF ShownAs
<1>3. t = [version |-> t.version, txins |-> t.txins, txouts |-> t.txouts,
           witness |-> t.witness, locktime |-> t.locktime]
  BY KeptFacts
<1>4. [short EXCEPT !.txouts = t.txouts] = t
  <2>1. short = [version |-> t.version, txins |-> t.txins, txouts |-> <<>>,
                 witness |-> t.witness, locktime |-> t.locktime]
    BY <1>3
  <2> HIDE DEF short
  <2> QED
    BY <1>3, <2>1
<1> HIDE DEF a, outs, values, fee, sum, wus, n, short, total
<1>5. /\ a.tx = short /\ a.fee = fee /\ a.txouts_sum = sum /\ a.size_wus = wus /\ a.sigops = n
      /\ a.block_hash = InBlock /\ a.txin_values = values
  BY <1>1
<1>6. u = t
  BY <1>1, <1>4, <1>5
<1> HIDE DEF u, p
<1>7. p.analyzed = a /\ p.tx = u /\ p.witness_hash = compute_witness_hash(u, hash)
  BY <1>2
<1>8. compute_witness_hash(t, hash) = IF AllEmpty(t.witness) THEN hash ELSE serialize_tx(t)
  BY DEF compute_witness_hash
<1> QED
  BY <1>1, <1>5, <1>6, <1>7, <1>8 DEF values, fee, sum, wus, n, total, p

LEMMA PeerRead ==
  ASSUME NEW t, Kept(t), Paid(t), NEW with \in BOOLEAN
  PROVE  LET s == ServedAs(StoredAs(t), with)
             again == deserialize_borrowed(s.bytes)
         IN  /\ s.witness = with
             /\ again.at = Len(s.bytes)
             /\ again.val = [t EXCEPT !.txouts = <<>>, !.witness = IF with THEN @ ELSE NoWitness]
<1> DEFINE u == [t EXCEPT !.txouts = <<>>]
           x == deserialize_analyzed_tx(StoredAs(t).tx).tx
           sent == IF with THEN u ELSE [u EXCEPT !.witness = NoWitness]
           bytes == serialize_tx(sent)
           goal == [t EXCEPT !.txouts = <<>>, !.witness = IF with THEN @ ELSE NoWitness]
           s == ServedAs(StoredAs(t), with)
<1>1. x = u
  <2> DEFINE values == [i \in DOMAIN t.txins |-> SpentValue]
             fee == calculate_fee(t, values)
             sum == txouts_sum(t)
             wus == calculate_tx_size_wus(t)
             n == Len(t.txouts)
             a == deserialize_analyzed_tx(StoredAs(t).tx)
  <2>1. a = [fee |-> fee, txouts_sum |-> sum, size_wus |-> wus, sigops |-> n,
             block_hash |-> InBlock, tx |-> u, txin_values |-> values]
    BY AnalyzedRead
  <2> HIDE DEF values, fee, sum, wus, n, a, u
  <2>2. a.tx = u
    BY <2>1
  <2> QED
    BY <2>2 DEF a
<1>2. Kept(sent) /\ sent = goal
  BY KeptWithout
<1>3. s = [witness |-> with, bytes |-> serialize_tx(IF with THEN x ELSE [x EXCEPT !.witness = NoWitness])]
  BY DEF ServedAs
<1> HIDE DEF x, u
<1>4. s = [witness |-> with, bytes |-> bytes]
  BY <1>1, <1>3
<1> HIDE DEF sent, goal
<1>5. deserialize_borrowed(bytes).val = sent /\ deserialize_borrowed(bytes).at = Len(bytes)
  BY <1>2, SentRead
<1> HIDE DEF bytes, s
<1>6. s.witness = with /\ s.bytes = bytes
  BY <1>4
<1> QED
  BY <1>2, <1>5, <1>6 DEF goal, s

---------------------------------------------------------------------------

LEMMA CodecInvFaithful == CodecInv => CodecFaithful
<1> SUFFICES ASSUME CodecInv
             PROVE  CodecFaithful
  OBVIOUS
<1>1. ASSUME parsed # Nothing
      PROVE  \E t \in Received : \E cut \in Cuts :
                message = SentAs(t, cut) /\ parsed = deserialize_borrowed(message.bytes)
  BY <1>1 DEF CodecInv
<1>2. ASSUME NEW t, Kept(t), Paid(t), NEW cut \in Nat, message.tx = t, message.cut = cut,
             message.bytes = SubSeq(Wire(t), 1, Len(Wire(t)) - cut),
             parsed = deserialize_borrowed(message.bytes)
      PROVE  CodecFaithful
  <2> DEFINE bytes == message.bytes
  <2>1. /\ cut > 0 => Failed(parsed)
        /\ cut = 0 => /\ bytes = Wire(t) /\ parsed.val = t /\ parsed.at = Len(bytes) /\ ~Failed(parsed)
                      /\ parsed.hash = Stripped(t)
                      /\ parsed.witness_hash = IF AllEmpty(t.witness) THEN Stripped(t) ELSE bytes
    BY <1>2, WireRead
  <2>2. AllEmpty(t.witness) <=> ~\E i \in DOMAIN t.witness : t.witness[i] # <<0>>
    BY <1>2, EmptyStacks
  <2>3. IF message.cut > 0 THEN Failed(parsed)
        ELSE /\ parsed.at = Len(message.bytes)
             /\ parsed.val = message.tx
             /\ parsed.hash = Stripped(message.tx)
             /\ parsed.witness_hash = IF \E i \in DOMAIN message.tx.witness :
                                            message.tx.witness[i] # <<0>>
                                      THEN message.bytes ELSE parsed.hash
    <3>1. CASE cut > 0
      BY <1>2, <2>1, <3>1
    <3>2. CASE cut = 0
      <4>1. CASE AllEmpty(t.witness)
        BY <1>2, <2>1, <2>2, <3>2, <4>1
      <4>2. CASE ~AllEmpty(t.witness)
        BY <1>2, <2>1, <2>2, <3>2, <4>2
      <4> QED
        BY <4>1, <4>2
    <3> QED
      BY <1>2, <3>1, <3>2
  <2>4. ASSUME stored # Nothing
        PROVE  /\ cut = 0 /\ stored = StoredAs(t) /\ bytes = Wire(t) /\ parsed.hash = Stripped(t)
               /\ parsed.witness_hash = IF AllEmpty(t.witness) THEN Stripped(t) ELSE Wire(t)
    <3>1. ~Failed(parsed) /\ stored = StoredAs(parsed.val)
      BY <2>4 DEF CodecInv
    <3>2. cut = 0
      BY <1>2, <2>1, <3>1
    <3> QED
      BY <2>1, <3>1, <3>2
  <2>5. ASSUME page # Nothing
        PROVE  LET weight == 3 * Len(parsed.hash) + Len(message.bytes)
               IN  /\ page.tx = message.tx
                   /\ page.analyzed.txin_values = [i \in DOMAIN page.tx.txins |-> SpentValue]
                   /\ page.analyzed.fee + page.analyzed.txouts_sum = SpentValue * Len(page.tx.txins)
                   /\ page.analyzed.txouts_sum = txouts_sum(message.tx)
                   /\ page.analyzed.sigops = Len(page.tx.txouts)
                   /\ page.analyzed.block_hash = InBlock
                   /\ ~AtBoundary(page.tx) => page.witness_hash = parsed.witness_hash
                   /\ (page.analyzed.size_wus = weight) <=> ~AtBoundary(page.tx)
    <3> DEFINE hash == parsed.hash
               p == ShownAs(StoredAs(t), hash)
    <3>1. stored # Nothing /\ page = ShownAs(stored, parsed.hash)
      BY <2>5 DEF CodecInv
    <3>2. /\ page = p /\ bytes = Wire(t) /\ hash = Stripped(t)
          /\ parsed.witness_hash = IF AllEmpty(t.witness) THEN Stripped(t) ELSE Wire(t)
      BY <2>4, <3>1
    <3> HIDE DEF hash
    <3>3. /\ p.tx = t
          /\ p.analyzed.txin_values = [i \in DOMAIN t.txins |-> SpentValue]
          /\ p.analyzed.fee + p.analyzed.txouts_sum = SpentValue * Len(t.txins)
          /\ p.analyzed.txouts_sum = txouts_sum(t)
          /\ p.analyzed.sigops = Len(t.txouts)
          /\ p.analyzed.block_hash = InBlock
          /\ p.witness_hash = IF AllEmpty(t.witness) THEN hash ELSE serialize_tx(t)
          /\ p.analyzed.size_wus = calculate_tx_size_wus(t)
      BY <1>2, PageRead
    <3> HIDE DEF p
    <3>4. /\ (calculate_tx_size_wus(t) = 3 * Len(Stripped(t)) + Len(Wire(t))) <=> ~AtBoundary(t)
          /\ ~AtBoundary(t) => serialize_tx(t) = Wire(t)
      BY <1>2, Weight
    <3>5. ~AtBoundary(t) => p.witness_hash = parsed.witness_hash
      <4>1. CASE AllEmpty(t.witness)
        BY <3>2, <3>3, <4>1
      <4>2. CASE ~AllEmpty(t.witness)
        BY <3>2, <3>3, <3>4, <4>2
      <4> QED
        BY <4>1, <4>2
    <3>6. hash = parsed.hash
      BY DEF hash
    <3> QED
      BY <1>2, <3>2, <3>3, <3>4, <3>5, <3>6
  <2>6. ASSUME served # Nothing
        PROVE  LET again == deserialize_borrowed(served.bytes)
               IN  /\ again.at = Len(served.bytes)
                   /\ again.val = [message.tx EXCEPT
                                     !.txouts = <<>>,
                                     !.witness = IF served.witness THEN @ ELSE NoWitness]
    <3>1. PICK with \in BOOLEAN : stored # Nothing /\ served = ServedAs(stored, with)
      BY <2>6 DEF CodecInv
    <3> DEFINE s == ServedAs(StoredAs(t), with)
               again == deserialize_borrowed(s.bytes)
    <3>2. served = s
      BY <2>4, <3>1
    <3>3. /\ s.witness = with
          /\ again.at = Len(s.bytes)
          /\ again.val = [t EXCEPT !.txouts = <<>>, !.witness = IF with THEN @ ELSE NoWitness]
      BY <1>2, PeerRead
    <3> HIDE DEF s
    <3> QED
      BY <1>2, <3>2, <3>3
  <2> QED
    BY <2>3, <2>5, <2>6 DEF CodecFaithful
<1>3. CASE parsed = Nothing
  <2>1. page = Nothing /\ served = Nothing
    BY <1>3 DEF CodecInv
  <2> QED
    BY <1>3, <2>1 DEF CodecFaithful
<1>4. CASE parsed # Nothing
  <2>1. PICK t \in Received, cut \in Cuts :
          message = SentAs(t, cut) /\ parsed = deserialize_borrowed(message.bytes)
    BY <1>1, <1>4
  <2> DEFINE k == AsKept(t)
             bytes == SubSeq(Wire(k), 1, Len(Wire(k)) - cut)
  <2>2. Kept(k) /\ Paid(k)
    BY ReceivedKept DEF Paid
  <2>3. message = [tx |-> k, bytes |-> bytes, cut |-> cut]
    BY <2>1 DEF SentAs
  <2> HIDE DEF k, bytes
  <2>4. message.tx = k /\ message.bytes = bytes /\ message.cut = cut
    BY <2>3
  <2>5. cut \in Nat
    BY CodecAssumption
  <2> USE DEF bytes
  <2> QED
    BY <1>2, <2>1, <2>2, <2>4, <2>5
<1> QED
  BY <1>3, <1>4

\* CodecFaithful, for transactions of any shape, bytes of any number of values
\* above four, and any number of missing bytes: deserialize_borrowed, analyze_tx,
\* serialize_txouts, deserialize_analyzed_tx, txdata and get_block agree about
\* every transaction that fits the protocol.
THEOREM CodecIsFaithful == CodecSpec => []CodecFaithful
<1>1. CodecSpec => []CodecInv
  BY CodecInvInit, CodecInvNext, PTL DEF CodecSpec
<1> QED
  BY <1>1, CodecInvFaithful, PTL
=============================================================================

----------------------------- MODULE PeersProofs -----------------------------
(***************************************************************************)
(* For any finite set of peers and any limits: nobody is banned without a  *)
(* reason, nobody is crawled twice, no insert meets its row, and the table *)
(* catches up with what the process decided.                               *)
(*                                                                         *)
(* Bans.  The counter of failures starts over with a good session, the     *)
(* reused CrawlResult remembers a failed handshake for ever: as long as it *)
(* does not, every failure is a session with too few packets.              *)
(*                                                                         *)
(* Places.  A known peer is at exactly one point between being seen and    *)
(* being crawled, since peers_seen adds it to KNOWN_PEERS and takes it for *)
(* itself under one lock; its row is in the table or in one of the two     *)
(* queues according to that point.                                         *)
(***************************************************************************)
EXTENDS Peers, SequenceTheorems, FunctionTheorems, FiniteSetTheorems, TLAPS

Result == [pc : CrawlStates, failed : 0..MAX_FAILS, hsError : BOOLEAN,
           packets : 0..MIN_PACKETS, version : BOOLEAN]

\* Of one peer: the loop of crawl_with_backoff runs below MAX_FAILS and ends at
\* it, and failures are short sessions or there was a failed handshake.
Justified(c, n) ==
  /\ c.pc \in {"delete", "banned"} => c.failed = MAX_FAILS
  /\ c.pc \notin {"delete", "banned"} => c.failed < MAX_FAILS
  /\ c.hsError \/ c.failed <= n

CrawlInv ==
  /\ crawl \in [Peers -> Result]
  /\ short \in [Peers -> 0..MAX_FAILS]
  /\ \A p \in Peers : Justified(crawl[p], short[p])

\* No crawl yet, in the forms in which it occurs.
LEMMA NoneYet ==
  /\ NoCrawl \in Result
  /\ NoCrawl.failed = 0
  /\ \A n \in Nat : Justified(NoCrawl, n)
<1>1. 0 \in 0..MAX_FAILS /\ 0 \in 0..MIN_PACKETS /\ 0 < MAX_FAILS
  BY PeersAssumption
<1>2. NoCrawl \in Result /\ NoCrawl.failed = 0 /\ NoCrawl.pc = "none"
  BY <1>1 DEF NoCrawl, Result, CrawlStates
<1>3. \A n \in Nat : Justified(NoCrawl, n)
  BY <1>1, <1>2 DEF Justified
<1> QED
  BY <1>2, <1>3

LEMMA NoCrawlJustified ==
  ASSUME NEW pc \in {"none", "backoff"}
  PROVE  /\ [NoCrawl EXCEPT !.pc = pc] \in Result
         /\ \A n \in Nat : Justified([NoCrawl EXCEPT !.pc = pc], n)
<1> DEFINE d == [NoCrawl EXCEPT !.pc = pc]
<1>1. 0 \in 0..MAX_FAILS /\ 0 \in 0..MIN_PACKETS /\ 0 < MAX_FAILS
  BY PeersAssumption
<1>2. NoCrawl \in Result /\ NoCrawl.failed = 0
  BY NoneYet
<1>3. d \in Result
  BY <1>2 DEF Result, CrawlStates
<1>4. d.pc = pc /\ d.failed = 0
  BY <1>2 DEF Result
<1> HIDE DEF d
<1>5. \A n \in Nat : Justified(d, n)
  BY <1>1, <1>4 DEF Justified
<1> QED
  BY <1>3, <1>5 DEF d

\* A step that changes one peer's result, and perhaps its history.
LEMMA OnePeer ==
  ASSUME CrawlInv, NEW p, NEW c \in Result, NEW n \in 0..MAX_FAILS,
         crawl' = [crawl EXCEPT ![p] = c],
         short' = [short EXCEPT ![p] = n],
         Justified(c, n)
  PROVE  CrawlInv'
BY DEF CrawlInv

\* The same when the history stays.
LEMMA OneResult ==
  ASSUME CrawlInv, NEW p \in Peers, NEW c \in Result,
         crawl' = [crawl EXCEPT ![p] = c],
         UNCHANGED short,
         Justified(c, short[p])
  PROVE  CrawlInv'
BY DEF CrawlInv

\* What SessionEnds makes of the history.
ShortAfter(c, n, long) ==
  IF c.packets < MIN_PACKETS THEN IF n < MAX_FAILS THEN n + 1 ELSE n
  ELSE IF long THEN 0 ELSE n

\* The failures after a round of crawl_with_backoff, without Booleans in the
\* arithmetic.
LEMMA FailuresAfter ==
  ASSUME NEW c \in Result, c.failed < MAX_FAILS, NEW long \in BOOLEAN,
         NEW n \in 0..MAX_FAILS,
         c.hsError \/ c.failed <= n
  PROVE  /\ Evaluate(c, long) \in 0..MAX_FAILS
         /\ ShortAfter(c, n, long) \in 0..MAX_FAILS
         /\ c.hsError \/ Evaluate(c, long) <= ShortAfter(c, n, long)
<1> DEFINE more == c.failed + 1
<1>1. /\ MAX_FAILS \in Nat \ {0} /\ MIN_PACKETS \in Nat
      /\ c.failed \in Nat /\ c.packets \in Nat
  BY PeersAssumption DEF Result
<1>2. more \in 0..MAX_FAILS /\ c.failed \in 0..MAX_FAILS /\ 0 \in 0..MAX_FAILS
  BY <1>1
<1>3. c.failed <= n => more <= (IF n < MAX_FAILS THEN n + 1 ELSE n)
  BY <1>1
<1>4. (IF n < MAX_FAILS THEN n + 1 ELSE n) \in 0..MAX_FAILS /\ 0 <= 0
  BY <1>1
<1> HIDE DEF more
<1>5. Evaluate(c, long) = IF c.hsError \/ c.packets < MIN_PACKETS THEN more
                          ELSE IF long THEN 0 ELSE c.failed
  BY DEF Evaluate, more
<1>6. Evaluate(c, long) \in 0..MAX_FAILS
  BY <1>2, <1>5, Zenon
<1>7. ShortAfter(c, n, long) \in 0..MAX_FAILS
  BY <1>2, <1>4, Zenon DEF ShortAfter
<1>8. ASSUME ~c.hsError
      PROVE  Evaluate(c, long) <= ShortAfter(c, n, long)
  <2>1. c.failed <= n
    BY <1>8
  <2>2. CASE c.packets < MIN_PACKETS
    <3>1. Evaluate(c, long) = more
      BY <1>5, <2>2, Zenon
    <3>2. ShortAfter(c, n, long) = IF n < MAX_FAILS THEN n + 1 ELSE n
      BY <2>2, Zenon DEF ShortAfter
    <3> QED
      BY <3>1, <3>2, <2>1, <1>3
  <2>3. CASE ~(c.packets < MIN_PACKETS) /\ long
    BY <1>5, <1>8, <2>3, <1>4, Zenon DEF ShortAfter
  <2>4. CASE ~(c.packets < MIN_PACKETS) /\ ~long
    BY <1>5, <1>8, <2>4, <2>1, Zenon DEF ShortAfter
  <2> QED
    BY <2>2, <2>3, <2>4, Zenon
<1> QED
  BY <1>6, <1>7, <1>8, Zenon

\* The result with which the loop of crawl_with_backoff goes on or ends.
LEMMA RoundEnds ==
  ASSUME NEW c \in Result, NEW failed \in 0..MAX_FAILS, NEW m \in 0..MAX_FAILS,
         c.hsError \/ failed <= m
  PROVE  LET d == [c EXCEPT !.failed = failed, !.packets = 0, !.version = FALSE,
                            !.pc = IF failed < MAX_FAILS THEN "backoff" ELSE "delete"]
         IN  d \in Result /\ Justified(d, m)
<1> DEFINE pc == IF failed < MAX_FAILS THEN "backoff" ELSE "delete"
           d  == [c EXCEPT !.failed = failed, !.packets = 0, !.version = FALSE,
                           !.pc = pc]
<1>1. MAX_FAILS \in Nat /\ 0 \in 0..MIN_PACKETS /\ c.hsError \in BOOLEAN
  BY PeersAssumption DEF Result
<1>2. /\ pc \in {"backoff", "delete"}
      /\ pc \in {"delete", "banned"} => failed = MAX_FAILS
      /\ pc \notin {"delete", "banned"} => failed < MAX_FAILS
  BY <1>1
<1> HIDE DEF pc
<1>3. d \in Result
  BY <1>1, <1>2 DEF Result, CrawlStates
<1>4. d.pc = pc /\ d.failed = failed /\ d.hsError = c.hsError
  BY DEF Result
<1> HIDE DEF d
<1>5. Justified(d, m)
  BY <1>2, <1>4, Zenon DEF Justified
<1> QED
  BY <1>3, <1>5 DEF d, pc

LEMMA CrawlStep ==
  ASSUME CrawlInv, [Next]_vars
  PROVE  CrawlInv'
<1>1. CASE UNCHANGED <<crawl, short>>
  BY <1>1 DEF CrawlInv
<1>2. CASE Stop
  <2>1. /\ crawl' = [p \in Peers |-> NoCrawl] /\ short' = [p \in Peers |-> 0]
        /\ 0 \in 0..MAX_FAILS /\ 0 \in Nat
    BY <1>2, PeersAssumption DEF Stop, Volatile
  <2> QED
    BY <2>1, NoneYet DEF CrawlInv
<1>3. CASE SpawnCrawl
  <2>1. PICK p : crawl' = [crawl EXCEPT ![p] = [NoCrawl EXCEPT !.pc = "backoff"]]
    BY <1>3 DEF SpawnCrawl
  <2>2. CASE p \in Peers
    <3>1. UNCHANGED short /\ short[p] \in Nat
      BY <1>3, <2>2, PeersAssumption DEF SpawnCrawl, CrawlInv
    <3> QED
      BY <2>1, <2>2, <3>1, NoCrawlJustified, OneResult
  <2>3. CASE p \notin Peers
    <3>1. UNCHANGED <<crawl, short>>
      BY <1>3, <2>1, <2>3 DEF SpawnCrawl, CrawlInv
    <3> QED
      BY <3>1, <1>1
  <2> QED
    BY <2>2, <2>3
<1>4. ASSUME NEW p \in Peers, Crawl(p)
      PROVE  CrawlInv'
  <2> DEFINE c == crawl[p]
             n == short[p]
  <2>1. c \in Result /\ n \in 0..MAX_FAILS /\ Justified(c, n)
    BY DEF CrawlInv
  <2>2. ASSUME NEW d \in Result,
               d.failed = c.failed, d.hsError = c.hsError,
               d.pc \in {"delete", "banned"} <=> c.pc \in {"delete", "banned"},
               crawl' = [crawl EXCEPT ![p] = d],
               UNCHANGED short
        PROVE  CrawlInv'
    <3>1. Justified(d, n)
      BY <2>1, <2>2, Zenon DEF Justified
    <3> QED
      BY <2>2, <3>1, OneResult
  <2>3. ASSUME NEW pc \in CrawlStates, NEW v \in BOOLEAN,
               pc \in {"delete", "banned"} <=> c.pc \in {"delete", "banned"},
               \/ crawl' = [crawl EXCEPT ![p] = [c EXCEPT !.pc = pc]]
               \/ crawl' = [crawl EXCEPT ![p] = [c EXCEPT !.pc = pc, !.version = v]],
               UNCHANGED short
        PROVE  CrawlInv'
    <3> DEFINE d1 == [c EXCEPT !.pc = pc]
               d2 == [c EXCEPT !.pc = pc, !.version = v]
    <3>1. /\ d1 \in Result /\ d1.failed = c.failed /\ d1.hsError = c.hsError
          /\ d1.pc = pc
      BY <2>1 DEF Result
    <3>2. /\ d2 \in Result /\ d2.failed = c.failed /\ d2.hsError = c.hsError
          /\ d2.pc = pc
      BY <2>1 DEF Result
    <3>3. CASE crawl' = [crawl EXCEPT ![p] = d1]
      <4> HIDE DEF d1
      <4> QED
        BY <3>1, <3>3, <2>2, <2>3
    <3>4. CASE crawl' = [crawl EXCEPT ![p] = d2]
      <4> HIDE DEF d2
      <4> QED
        BY <3>2, <3>4, <2>2, <2>3
    <3> QED
      BY <3>3, <3>4, <2>3
  <2>4. CASE Dial(p)
    <3>1. /\ crawl' = [crawl EXCEPT ![p] = [c EXCEPT !.pc = "handshake"]]
          /\ c.pc = "backoff" /\ UNCHANGED short
      BY <2>4 DEF Dial
    <3> QED
      BY <3>1, <2>3 DEF CrawlStates
  <2>6. CASE RecvVersion(p)
    <3> DEFINE d == [c EXCEPT !.version = TRUE]
    <3>1. crawl' = [crawl EXCEPT ![p] = d] /\ UNCHANGED short
      BY <2>6 DEF RecvVersion
    <3>2. /\ d \in Result /\ d.failed = c.failed /\ d.hsError = c.hsError
          /\ d.pc = c.pc
      BY <2>1 DEF Result
    <3> HIDE DEF d
    <3> QED
      BY <3>1, <3>2, <2>2
  <2>7. CASE RecvVerAck(p)
    <3>1. /\ crawl' = [crawl EXCEPT ![p] = [c EXCEPT !.pc = "session", !.version = FALSE]]
          /\ c.pc = "handshake" /\ UNCHANGED short
      BY <2>7 DEF RecvVerAck, CrawlInv
    <3> QED
      BY <3>1, <2>3 DEF CrawlStates
  <2>8. CASE RecvPacket(p) \/ RecvAddr(p)
    <3> DEFINE k == IF c.packets < MIN_PACKETS THEN c.packets + 1 ELSE c.packets
               d == [c EXCEPT !.packets = k]
    <3>1. crawl' = [crawl EXCEPT ![p] = d] /\ UNCHANGED short
      BY <2>8 DEF RecvPacket, RecvAddr, CountPacket
    <3>2. k \in 0..MIN_PACKETS
      BY <2>1, PeersAssumption DEF Result
    <3> HIDE DEF k
    <3>3. /\ d \in Result /\ d.failed = c.failed /\ d.hsError = c.hsError
          /\ d.pc = c.pc
      BY <2>1, <3>2 DEF Result
    <3> HIDE DEF d
    <3> QED
      BY <3>1, <3>3, <2>2
  <2>9. CASE DeleteAndBan(p)
    <3>1. /\ crawl' = [crawl EXCEPT ![p] = [c EXCEPT !.pc = "banned"]]
          /\ c.pc = "delete" /\ UNCHANGED short
      BY <2>9 DEF DeleteAndBan
    <3> QED
      BY <3>1, <2>3 DEF CrawlStates
  <2>10. CASE ConnectFails(p)
    <3> DEFINE e == [c EXCEPT !.hsError = TRUE]
    <3>2. e \in Result /\ e.hsError = TRUE /\ e.failed = c.failed
      BY <2>1 DEF Result
    <3>3. c.failed < MAX_FAILS
      BY <2>1, <2>10 DEF ConnectFails, Justified
    <3>4. Finished(p, e, FALSE) /\ UNCHANGED short
      BY <2>10 DEF ConnectFails
    <3> HIDE DEF e
    <3>5. e.hsError
      BY <3>2, Zenon
    <3>6. Evaluate(e, FALSE) \in 0..MAX_FAILS
      BY <3>2, <3>3, <3>5, <2>1, FailuresAfter
    <3> QED
      BY <3>2, <3>4, <3>5, <3>6, <2>1, RoundEnds, OneResult DEF Finished
  <2>11. CASE SessionEnds(p)
    <3>1. PICK long \in BOOLEAN :
            Finished(p, c, long) /\ short' = [short EXCEPT ![p] = ShortAfter(c, n, long)]
      BY <2>11 DEF SessionEnds, ShortAfter
    <3>2. c.failed < MAX_FAILS /\ (c.hsError \/ c.failed <= n)
      BY <2>1, <2>11 DEF SessionEnds, Justified
    <3>3. /\ Evaluate(c, long) \in 0..MAX_FAILS
          /\ ShortAfter(c, n, long) \in 0..MAX_FAILS
          /\ c.hsError \/ Evaluate(c, long) <= ShortAfter(c, n, long)
      BY <3>2, <2>1, FailuresAfter
    <3> QED
      BY <3>1, <3>3, <2>1, RoundEnds, OnePeer DEF Finished
  <2> QED
    BY <1>4, <2>4, <2>6, <2>7, <2>8, <2>9, <2>10, <2>11 DEF Crawl
<1>5. ASSUME \/ Start \/ TakePeersToCheck \/ FlushInserts \/ FlushDeletes
             \/ \E t \in seen : Seen(t)
             \/ UNCHANGED vars
      PROVE  UNCHANGED <<crawl, short>>
  BY <1>5 DEF Start, TakePeersToCheck, FlushInserts, FlushDeletes, Seen, SeenCheck,
              SeenExtend, SeenInsert, vars, crawlVars
<1> QED
  BY <1>1, <1>2, <1>3, <1>4, <1>5 DEF Next, Crawler

LEMMA InitCrawl == Init => CrawlInv
<1>1. 0 \in 0..MAX_FAILS /\ 0 \in Nat
  BY PeersAssumption
<1> QED
  BY <1>1, NoneYet DEF Init, CrawlInv

\* A peer is given up only for MAX_FAILS short sessions in a row or because a
\* handshake failed at some time (crawl_with_backoff, evaluate_crawl_result).
THEOREM BansAreDeserved == Spec => []BannedDeserved
<1>1. Init => CrawlInv
  BY InitCrawl
<1>2. CrawlInv /\ [Next]_vars => CrawlInv'
  BY CrawlStep
<1>3. CrawlInv => BannedDeserved
  BY PeersAssumption DEF CrawlInv, Justified, BannedDeserved, Result
<1> QED
  BY <1>1, <1>2, <1>3, PTL DEF Spec

-----------------------------------------------------------------------------
(* Lists without duplicates.                                                *)

LEMMA SeqBasics ==
  ASSUME NEW S, NEW s \in Seq(S)
  PROVE  /\ Len(s) \in Nat
         /\ DOMAIN s = 1..Len(s)
         /\ ToSet(s) \subseteq S
         /\ \A p : p \in ToSet(s) <=> \E i \in 1..Len(s) : s[i] = p
         /\ \A p : Contains(s, p) <=> p \in ToSet(s)
<1>1. Len(s) \in Nat /\ DOMAIN s = 1..Len(s) /\ \A i \in 1..Len(s) : s[i] \in S
  BY LenProperties, ElementOfSeq
<1> QED
  BY <1>1 DEF ToSet, Contains

LEMMA WiderSeq ==
  ASSUME NEW T, NEW S, T \subseteq S, NEW s \in Seq(T)
  PROVE  s \in Seq(S)
<1>1. Len(s) \in Nat /\ DOMAIN s = 1..Len(s) /\ \A k \in 1..Len(s) : s[k] \in S
  BY LenProperties, ElementOfSeq
<1>2. s \in [1..Len(s) -> S]
  BY <1>1, LenProperties
<1> QED
  BY <1>1, <1>2, SeqDef

LEMMA EmptyList ==
  /\ IsInjective(<<>>) /\ ToSet(<<>>) = {}
  /\ \A S : <<>> \in Seq(S)
BY DEF IsInjective, ToSet

LEMMA AppendList ==
  ASSUME NEW S, NEW s \in Seq(S), NEW x \in S
  PROVE  /\ Append(s, x) \in Seq(S)
         /\ ToSet(Append(s, x)) = ToSet(s) \cup {x}
         /\ IsInjective(s) /\ x \notin ToSet(s) => IsInjective(Append(s, x))
<1> DEFINE a == Append(s, x)
           n == Len(s)
<1>1. n \in Nat /\ DOMAIN s = 1..n
  BY SeqBasics
<1> HIDE DEF n
<1>2. /\ a \in Seq(S) /\ DOMAIN a = 1..(n + 1)
      /\ \A i \in 1..n : a[i] = s[i]
      /\ a[n + 1] = x
  BY AppendProperties, LenProperties DEF n
<1>3. \A i : i \in 1..(n + 1) <=> i \in 1..n \/ i = n + 1
  BY <1>1
<1> HIDE DEF a
<1>4. ToSet(a) = ToSet(s) \cup {x}
  BY <1>1, <1>2, <1>3 DEF ToSet
<1>5. ASSUME IsInjective(s), x \notin ToSet(s)
      PROVE  IsInjective(a)
  BY <1>1, <1>2, <1>3, <1>5 DEF ToSet, IsInjective
<1> QED
  BY <1>2, <1>4, <1>5 DEF a

LEMMA ConcatList ==
  ASSUME NEW S, NEW s \in Seq(S), NEW t \in Seq(S)
  PROVE  /\ s \o t \in Seq(S)
         /\ ToSet(s \o t) = ToSet(s) \cup ToSet(t)
         /\ IsInjective(s) /\ IsInjective(t) /\ ToSet(s) \cap ToSet(t) = {}
              => IsInjective(s \o t)
<1> DEFINE c == s \o t
           m == Len(s)
           n == Len(t)
<1>1. m \in Nat /\ n \in Nat /\ DOMAIN s = 1..m /\ DOMAIN t = 1..n
  BY SeqBasics
<1>2. c \in Seq(S) /\ Len(c) = m + n
  BY ConcatProperties
<1>3. \A i \in 1..(m + n) : c[i] = IF i <= m THEN s[i] ELSE t[i - m]
  BY ConcatProperties
<1>4. DOMAIN c = 1..(m + n)
  BY <1>2, LenProperties
<1> HIDE DEF c, m, n
<1>5. /\ \A i \in 1..m : i \in 1..(m + n) /\ c[i] = s[i]
      /\ \A i \in 1..n : m + i \in 1..(m + n) /\ c[m + i] = t[i]
  <2>1. \A i \in 1..n : m + i \in 1..(m + n) /\ ~(m + i <= m) /\ (m + i) - m = i
    BY <1>1
  <2> QED
    BY <1>1, <1>3, <2>1
<1>6. \A i \in 1..(m + n) : i \in 1..m \/ \E j \in 1..n : i = m + j
  <2>1. ASSUME NEW i \in 1..(m + n), i \notin 1..m
        PROVE  i - m \in 1..n /\ i = m + (i - m)
    BY <1>1, <2>1
  <2> QED
    BY <2>1
<1>7. ToSet(c) = ToSet(s) \cup ToSet(t)
  <2>1. ASSUME NEW p \in ToSet(c)
        PROVE  p \in ToSet(s) \cup ToSet(t)
    <3>1. PICK i \in 1..(m + n) : c[i] = p
      BY <1>4 DEF ToSet
    <3>2. CASE i \in 1..m
      BY <3>1, <3>2, <1>1, <1>5 DEF ToSet
    <3>3. CASE \E j \in 1..n : i = m + j
      BY <3>1, <3>3, <1>1, <1>5 DEF ToSet
    <3> QED
      BY <3>2, <3>3, <1>6
  <2>2. \A p \in ToSet(s) : p \in ToSet(c)
    BY <1>1, <1>4, <1>5 DEF ToSet
  <2>3. \A p \in ToSet(t) : p \in ToSet(c)
    BY <1>1, <1>4, <1>5 DEF ToSet
  <2> QED
    BY <2>1, <2>2, <2>3
<1>8. ASSUME IsInjective(s), IsInjective(t), ToSet(s) \cap ToSet(t) = {}
      PROVE  IsInjective(c)
  <2>1. \A i \in 1..m, j \in 1..n : s[i] # t[j]
    BY <1>1, <1>8 DEF ToSet
  <2>2. \A i, j \in 1..m : s[i] = s[j] => i = j
    BY <1>1, <1>8 DEF IsInjective
  <2>3. \A i, j \in 1..n : t[i] = t[j] => i = j
    BY <1>1, <1>8 DEF IsInjective
  <2>4. ASSUME NEW i \in 1..(m + n), NEW j \in 1..(m + n), c[i] = c[j]
        PROVE  i = j
    BY <1>5, <1>6, <2>1, <2>2, <2>3, <2>4
  <2> QED
    BY <1>4, <2>4 DEF IsInjective
<1> QED
  BY <1>2, <1>7, <1>8 DEF c

LEMMA HeadTailList ==
  ASSUME NEW S, NEW s \in Seq(S), s # <<>>
  PROVE  /\ Head(s) \in S /\ Tail(s) \in Seq(S)
         /\ ToSet(s) = ToSet(Tail(s)) \cup {Head(s)}
         /\ IsInjective(s) => IsInjective(Tail(s)) /\ Head(s) \notin ToSet(Tail(s))
         /\ Len(s) # 1 => Tail(s) # <<>>
         /\ Len(s) = 1 => ToSet(s) = {Head(s)}
<1> DEFINE t == Tail(s)
           n == Len(s)
<1>1. n \in Nat \ {0} /\ DOMAIN s = 1..n /\ s[1] \in S
  BY SeqBasics, EmptySeq, ElementOfSeq
<1>2. /\ Head(s) = s[1] /\ t \in Seq(S) /\ Len(t) = n - 1
      /\ \A i \in 1..(n - 1) : t[i] = s[i + 1]
  BY HeadTailProperties
<1>3. DOMAIN t = 1..(n - 1)
  BY <1>2, LenProperties
<1>4. n # 1 => t # <<>>
  <2>1. t = <<>> => Len(t) = 0
    BY EmptySeq
  <2> QED
    BY <1>1, <1>2, <2>1
<1> HIDE DEF t, n
<1>5. /\ 1 \in 1..n
      /\ \A i \in 1..(n - 1) : i + 1 \in 1..n /\ i + 1 # 1
      /\ \A i \in 1..n : i = 1 \/ (i - 1 \in 1..(n - 1) /\ (i - 1) + 1 = i)
      /\ \A i, j \in 1..(n - 1) : i + 1 = j + 1 => i = j
      /\ n = 1 => 1..n = {1}
  BY <1>1
<1>6. ToSet(s) = ToSet(t) \cup {Head(s)}
  <2>1. ASSUME NEW p \in ToSet(s)
        PROVE  p \in ToSet(t) \cup {Head(s)}
    <3>1. PICK i \in 1..n : s[i] = p
      BY <1>1 DEF ToSet
    <3>2. CASE i = 1
      BY <3>1, <3>2, <1>2
    <3>3. CASE i # 1
      <4>1. i - 1 \in 1..(n - 1) /\ (i - 1) + 1 = i
        BY <3>3, <1>5
      <4>2. t[i - 1] = p
        BY <4>1, <3>1, <1>2
      <4> QED
        BY <4>1, <4>2, <1>3 DEF ToSet
    <3> QED
      BY <3>2, <3>3
  <2>2. \A p \in ToSet(t) : p \in ToSet(s)
    BY <1>1, <1>2, <1>3, <1>5 DEF ToSet
  <2>3. Head(s) \in ToSet(s)
    BY <1>1, <1>2, <1>5 DEF ToSet
  <2> QED
    BY <2>1, <2>2, <2>3
<1>7. ASSUME IsInjective(s)
      PROVE  IsInjective(t) /\ Head(s) \notin ToSet(t)
  <2>1. \A i, j \in 1..n : s[i] = s[j] => i = j
    BY <1>1, <1>7 DEF IsInjective
  <2>2. \A i, j \in 1..(n - 1) : t[i] = t[j] => i = j
    BY <2>1, <1>2, <1>5
  <2>3. \A i \in 1..(n - 1) : t[i] # s[1]
    BY <2>1, <1>2, <1>5
  <2> QED
    BY <2>2, <2>3, <1>2, <1>3 DEF ToSet, IsInjective
<1>8. n = 1 => ToSet(s) = {Head(s)}
  BY <1>1, <1>2, <1>5 DEF ToSet
<1> QED
  BY <1>1, <1>2, <1>4, <1>6, <1>7, <1>8 DEF t, n

\* A queue cut after its n-th request.
LEMMA CutList ==
  ASSUME NEW S, NEW s \in Seq(S), NEW n \in 1..Len(s)
  PROVE  LET a == SubSeq(s, 1, n)
             b == SubSeq(s, n + 1, Len(s))
         IN  /\ a \in Seq(S) /\ b \in Seq(S)
             /\ ToSet(s) = ToSet(a) \cup ToSet(b)
             /\ IsInjective(s) => /\ IsInjective(a) /\ IsInjective(b)
                                  /\ ToSet(a) \cap ToSet(b) = {}
<1> DEFINE a == SubSeq(s, 1, n)
           b == SubSeq(s, n + 1, Len(s))
           m == Len(s)
<1>1. m \in Nat /\ n \in 1..m /\ DOMAIN s = 1..m /\ \A i \in 1..m : s[i] \in S
  BY SeqBasics, ElementOfSeq
<1> HIDE DEF m
<1>2. \A i \in 1..n : i \in 1..m
  BY <1>1
<1>3. a \in Seq(S) /\ DOMAIN a = 1..n /\ \A i \in 1..n : a[i] = s[i]
  <2>1. 1 \in Int /\ n \in Int /\ 1 <= n /\ n - 1 + 1 = n /\ \A i \in 1..n : 1 + i - 1 = i
    BY <1>1
  <2>2. /\ a \in Seq(S) /\ Len(a) = n
        /\ \A i \in 1..(n - 1 + 1) : a[i] = s[1 + i - 1]
    BY <1>1, <1>2, <2>1, SubSeqProperties
  <2> QED
    BY <2>1, <2>2, LenProperties
<1>4. b \in Seq(S) /\ DOMAIN b = 1..(m - n) /\ \A i \in 1..(m - n) : b[i] = s[n + i]
  <2> DEFINE lo == n + 1
  <2>1. lo \in Int /\ m \in Int
    BY <1>1
  <2>2. m - lo + 1 = m - n
    BY <1>1
  <2>3. (IF lo <= m THEN m - lo + 1 ELSE 0) = m - n
    <3>1. CASE lo <= m
      BY <2>2, <3>1
    <3>2. CASE ~(lo <= m)
      <4>1. n = m /\ m - n = 0
        BY <1>1, <3>2
      <4> QED
        BY <4>1, <3>2
    <3> QED
      BY <3>1, <3>2
  <2>4. \A i \in 1..(m - n) : lo + i - 1 = n + i
    BY <1>1
  <2>5. \A i \in lo..m : s[i] \in S
    BY <1>1
  <2> HIDE DEF lo
  <2>6. b = SubSeq(s, lo, m)
    BY DEF lo, m
  <2> HIDE DEF b
  <2>7. /\ b \in Seq(S) /\ Len(b) = IF lo <= m THEN m - lo + 1 ELSE 0
        /\ \A i \in 1..(m - lo + 1) : b[i] = s[lo + i - 1]
    BY <2>1, <2>5, <2>6, SubSeqProperties
  <2> QED
    BY <2>2, <2>3, <2>4, <2>7, LenProperties
<1> HIDE DEF a, b
<1>5. /\ \A i \in 1..(m - n) : n + i \in 1..m /\ n + i \notin 1..n
      /\ \A i \in 1..m : i \in 1..n \/ (i - n \in 1..(m - n) /\ n + (i - n) = i)
      /\ \A i, j \in 1..(m - n) : n + i = n + j => i = j
      /\ m - n \in Nat /\ n \in Nat
  BY <1>1
<1>8. ToSet(s) = ToSet(a) \cup ToSet(b)
  <2>1. ASSUME NEW p \in ToSet(s)
        PROVE  p \in ToSet(a) \cup ToSet(b)
    <3>1. PICK i \in 1..m : s[i] = p
      BY <1>1 DEF ToSet
    <3>2. CASE i \in 1..n
      BY <3>1, <3>2, <1>3 DEF ToSet
    <3>3. CASE i \notin 1..n
      <4>1. i - n \in 1..(m - n) /\ n + (i - n) = i
        BY <3>3, <1>5
      <4>2. b[i - n] = p
        BY <4>1, <3>1, <1>4
      <4> QED
        BY <4>1, <4>2, <1>4 DEF ToSet
    <3> QED
      BY <3>2, <3>3
  <2>2. \A p \in ToSet(a) : p \in ToSet(s)
    BY <1>1, <1>2, <1>3 DEF ToSet
  <2>3. ASSUME NEW p \in ToSet(b)
        PROVE  p \in ToSet(s)
    <3>1. PICK i \in 1..(m - n) : b[i] = p
      BY <1>4 DEF ToSet
    <3>2. n + i \in 1..m /\ s[n + i] = p
      BY <3>1, <1>4, <1>5
    <3> QED
      BY <3>2, <1>1 DEF ToSet
  <2> QED
    BY <2>1, <2>2, <2>3
<1>9. ASSUME IsInjective(s)
      PROVE  IsInjective(a) /\ IsInjective(b) /\ ToSet(a) \cap ToSet(b) = {}
  <2>1. \A i, j \in 1..m : s[i] = s[j] => i = j
    BY <1>1, <1>9 DEF IsInjective
  <2>2. IsInjective(a)
    BY <2>1, <1>2, <1>3 DEF IsInjective
  <2>3. IsInjective(b)
    <3>1. ASSUME NEW i \in 1..(m - n), NEW j \in 1..(m - n), b[i] = b[j]
          PROVE  i = j
      <4>1. n + i \in 1..m /\ n + j \in 1..m /\ s[n + i] = s[n + j]
        BY <3>1, <1>4, <1>5
      <4> QED
        BY <4>1, <2>1, <1>5
    <3> QED
      BY <3>1, <1>4 DEF IsInjective
  <2>4. ASSUME NEW i \in 1..n, NEW j \in 1..(m - n)
        PROVE  a[i] # b[j]
    <3>1. i \in 1..m /\ n + j \in 1..m /\ i # n + j
      BY <1>2, <1>5
    <3> QED
      BY <3>1, <2>1, <1>3, <1>4
  <2> QED
    BY <2>2, <2>3, <2>4, <1>3, <1>4 DEF ToSet
<1> QED
  BY <1>3, <1>4, <1>8, <1>9 DEF a, b, m

\* What a loop pushes is the elements at the positions it pushes at, and has
\* no duplicates if these elements differ.
LEMMA PushedList ==
  ASSUME NEW list \in Seq(Peers \cup {Foreign}), NEW I \in SUBSET DOMAIN list,
         NEW r \in Pushed(list, I)
  PROVE  /\ r \in Seq({list[i] : i \in I})
         /\ ToSet(r) = {list[i] : i \in I}
         /\ (\A i, j \in I : list[i] = list[j] => i = j) => IsInjective(r)
<1> DEFINE n == Cardinality(I)
<1>1. PICK pos \in [1..n -> I] :
        /\ \A j, k \in DOMAIN pos : j < k => pos[j] < pos[k]
        /\ r = [k \in DOMAIN pos |-> list[pos[k]]]
  BY DEF Pushed
<1>2. IsFiniteSet(I) /\ n \in Nat /\ I \subseteq Nat
  <2>1. I \in SUBSET (1..Len(list)) /\ Len(list) \in Nat
    BY SeqBasics
  <2>2. IsFiniteSet(I)
    <3>1. IsFiniteSet(1..Len(list))
      BY <2>1, FS_Interval
    <3> QED
      BY <2>1, <3>1, FS_Subset
  <2> QED
    BY <2>1, <2>2, FS_CardinalityType
<1> HIDE DEF n
<1>3. \A j, k \in 1..n : pos[j] = pos[k] => j = k
  <2>1. ASSUME NEW j \in 1..n, NEW k \in 1..n, j # k
        PROVE  pos[j] # pos[k]
    <3>1. pos[j] \in Nat /\ pos[k] \in Nat /\ (j < k \/ k < j)
      BY <1>1, <1>2, <2>1
    <3>2. pos[j] < pos[k] \/ pos[k] < pos[j]
      BY <3>1, <1>1
    <3> QED
      BY <3>1, <3>2
  <2> QED
    BY <2>1
<1>4. pos \in Surjection(1..n, I)
  <2>1. pos \in Injection(1..n, I)
    BY <1>1, <1>3, Fun_IsInj
  <2>2. Cardinality(1..n) = n
    BY <1>2, FS_Interval
  <2>3. Cardinality(I) = n
    BY DEF n
  <2> QED
    BY <2>1, <2>2, <2>3, <1>2, FS_Injection
<1>5. \A i \in I : \E k \in 1..n : pos[k] = i
  BY <1>4 DEF Surjection
<1>6. DOMAIN r = 1..n /\ \A k \in 1..n : pos[k] \in I /\ r[k] = list[pos[k]]
  BY <1>1
<1>7. r \in Seq({list[i] : i \in I})
  <2>1. r \in [1..n -> {list[i] : i \in I}]
    BY <1>1, <1>6
  <2> QED
    BY <2>1, <1>2, SeqDef
<1>8. ToSet(r) = {list[i] : i \in I}
  <2>1. ASSUME NEW i \in I
        PROVE  list[i] \in ToSet(r)
    BY <1>5, <1>6 DEF ToSet
  <2>2. ASSUME NEW p \in ToSet(r)
        PROVE  p \in {list[i] : i \in I}
    BY <1>6 DEF ToSet
  <2> QED
    BY <2>1, <2>2
<1>9. ASSUME \A i, j \in I : list[i] = list[j] => i = j
      PROVE  IsInjective(r)
  <2>1. \A j, k \in 1..n : r[j] = r[k] => j = k
    BY <1>3, <1>6, <1>9
  <2> QED
    BY <2>1, <1>6 DEF IsInjective
<1> QED
  BY <1>7, <1>8, <1>9

LEMMA SetToSeqList ==
  ASSUME NEW S, IsFiniteSet(S)
  PROVE  /\ SetToSeq(S) \in Seq(S)
         /\ ToSet(SetToSeq(S)) = S
         /\ IsInjective(SetToSeq(S))
<1> DEFINE n == Cardinality(S)
           f == SetToSeq(S)
<1>1. n \in Nat /\ ExistsBijection(1..n, S)
  BY FS_CardinalityType
<1>2. PICK g : g \in Bijection(1..n, S)
  BY <1>1 DEF ExistsBijection
<1>3. g \in [1..n -> S] /\ IsInjective(g)
  BY <1>2 DEF Bijection, Injection
<1>4. f \in [1..n -> S] /\ IsInjective(f)
  BY <1>3 DEF SetToSeq
<1> HIDE DEF n, f
<1>5. f \in Injection(1..n, S)
  BY <1>4 DEF Injection
<1>6. Cardinality(1..n) = Cardinality(S)
  BY <1>1, FS_Interval DEF n
<1>7. f \in Surjection(1..n, S)
  BY <1>5, <1>6, FS_Injection
<1>8. \A p \in S : \E k \in 1..n : f[k] = p
  BY <1>7 DEF Surjection
<1>9. f \in Seq(S)
  BY <1>1, <1>4, SeqDef
<1>10. ToSet(f) = S
  BY <1>4, <1>8 DEF ToSet
<1> QED
  BY <1>4, <1>9, <1>10 DEF f

\* A list without duplicates has a peer once or not at all.
LEMMA CountList ==
  ASSUME NEW S, NEW s \in Seq(S), IsInjective(s), NEW p
  PROVE  CountIn(s, p) = IF p \in ToSet(s) THEN 1 ELSE 0
<1> DEFINE at == {i \in DOMAIN s : s[i] = p}
<1>1. CASE p \in ToSet(s)
  <2>1. PICK i \in DOMAIN s : s[i] = p
    BY <1>1 DEF ToSet
  <2>2. at = {i}
    BY <2>1 DEF IsInjective
  <2>3. Cardinality({i}) = 1
    BY FS_Singleton
  <2> QED
    BY <2>2, <2>3, <1>1 DEF CountIn
<1>2. CASE p \notin ToSet(s)
  <2>1. at = {}
    BY <1>2 DEF ToSet
  <2> QED
    BY <2>1, <1>2, FS_EmptySet DEF CountIn
<1> QED
  BY <1>1, <1>2

-----------------------------------------------------------------------------
(* A peer's way from a packet to its crawl and into the table.              *)

Task == [stage : {"check", "extend", "insert"}, apns : Seq(Peers), id : 1..MaxTasks]

ListsOK ==
  /\ up \in BOOLEAN
  /\ known \subseteq Peers
  /\ toCheck \in Seq(Peers)
  /\ scraping \in Seq(Peers)
  /\ seen \subseteq Task
  /\ tracked \subseteq Peers
  /\ insertQ \in Seq(Peers)
  /\ deleteQ \in Seq(Peers)
  /\ rows \subseteq Peers
  /\ stops \in 0..MaxStops

\* A peers_seen task that is past the lock of KNOWN_PEERS has peers that it
\* alone took.
Took(t) == t.stage # "check"

TaskInv ==
  /\ \A t \in seen : Took(t) => /\ t.apns # <<>> /\ IsInjective(t.apns)
                                /\ ToSet(t.apns) \subseteq known
  /\ \A t, u \in seen : Took(t) /\ Took(u) /\ t # u =>
                          ToSet(t.apns) \cap ToSet(u.apns) = {}

\* Waiting, dialled and still to be put on the list are different peers.
PipeInv ==
  /\ IsInjective(toCheck) /\ IsInjective(scraping)
  /\ ToSet(toCheck) \cap ToSet(scraping) = {}
  /\ ToSet(toCheck) \cup ToSet(scraping) \subseteq known
  /\ \A p \in ToSet(toCheck) \cup ToSet(scraping) : crawl[p].pc = "none"
  /\ \A p \in Peers : crawl[p].pc # "none" => p \in known
  /\ \A t \in seen : t.stage = "extend" =>
       \A p \in ToSet(t.apns) : /\ p \notin ToSet(toCheck) \cup ToSet(scraping)
                                /\ crawl[p].pc = "none"
  /\ \A p \in Peers : p \in tracked <=> crawl[p].pc = "session"

\* What is still to be inserted is not in the table, and only once to be
\* inserted.
TableInv ==
  /\ IsInjective(insertQ)
  /\ ToSet(insertQ) \subseteq known
  /\ ToSet(insertQ) \cap rows = {}
  /\ \A t \in seen : Took(t) => /\ ToSet(t.apns) \cap rows = {}
                                /\ ToSet(t.apns) \cap ToSet(insertQ) = {}
  /\ up => rows \subseteq known

\* Only banned peers are deleted, and a known peer that is not banned is in
\* the table or on its way there.
Arriving(p) ==
  \/ p \in rows
  \/ p \in ToSet(insertQ)
  \/ \E t \in seen : Took(t) /\ p \in ToSet(t.apns)

BanInv ==
  /\ \A p \in ToSet(deleteQ) : crawl[p].pc = "banned"
  /\ \A p \in Peers : crawl[p].pc = "banned" =>
       /\ p \notin rows \/ p \in ToSet(deleteQ)
       /\ p \notin ToSet(insertQ)
       /\ \A t \in seen : Took(t) => p \notin ToSet(t.apns)
  /\ up => \A p \in known : crawl[p].pc = "banned" \/ Arriving(p)

\* A process that does not run holds nothing.
DownInv ==
  ~up => /\ known = {} /\ toCheck = <<>> /\ scraping = <<>> /\ seen = {}
         /\ insertQ = <<>> /\ deleteQ = <<>>
         /\ \A p \in Peers : crawl[p].pc = "none"

PeersInv ==
  /\ CrawlInv
  /\ ListsOK
  /\ TaskInv
  /\ PipeInv
  /\ TableInv
  /\ BanInv
  /\ DownInv
  /\ ~asserted
  /\ ~poisoned

\* What peers_seen takes is new to KNOWN_PEERS, and has no duplicates even if
\* the packet has.
LEMMA UnknownList ==
  ASSUME NEW apns \in Seq(Peers), NEW new \in Unknown(apns)
  PROVE  /\ new \in Seq(Peers)
         /\ IsInjective(new)
         /\ ToSet(new) \subseteq Peers
         /\ ToSet(new) \cap known = {}
<1> DEFINE I == {i \in DOMAIN apns : /\ apns[i] \notin known
                                     /\ \A j \in 1..(i - 1) : apns[j] # apns[i]}
<1>1. new \in Pushed(apns, I)
  BY DEF Unknown
<1>2. DOMAIN apns = 1..Len(apns) /\ Len(apns) \in Nat /\ \A i \in 1..Len(apns) : apns[i] \in Peers
  BY SeqBasics, ElementOfSeq
<1>3. ASSUME NEW i \in I, NEW j \in I, apns[i] = apns[j]
      PROVE  i = j
  <2>1. i \in Nat \ {0} /\ j \in Nat \ {0}
    BY <1>2
  <2>2. ~(i \in 1..(j - 1)) /\ ~(j \in 1..(i - 1))
    BY <1>3
  <2> QED
    BY <2>1, <2>2
<1>4. I \in SUBSET DOMAIN apns /\ \A i \in I : apns[i] \in Peers /\ apns[i] \notin known
  BY <1>2
<1> HIDE DEF I
<1>5. /\ new \in Seq({apns[i] : i \in I})
      /\ ToSet(new) = {apns[i] : i \in I}
      /\ IsInjective(new)
  <2>1. \A i, j \in I : apns[i] = apns[j] => i = j
    BY <1>3
  <2>2. I \in SUBSET DOMAIN apns
    BY <1>4
  <2>3. apns \in Seq(Peers \cup {Foreign})
    BY WiderSeq
  <2> QED
    BY <1>1, <2>1, <2>2, <2>3, PushedList
<1>6. new \in Seq(Peers)
  <2>1. {apns[i] : i \in I} \subseteq Peers
    BY <1>4
  <2> QED
    BY <2>1, <1>5, WiderSeq
<1> QED
  BY <1>4, <1>5, <1>6

\* Neither do the addresses of other networks reach peers_seen.
LEMMA DialableList ==
  ASSUME NEW addys \in AddrPackets, NEW apns \in Dialable(addys)
  PROVE  apns \in Seq(Peers)
<1> DEFINE I == {i \in DOMAIN addys : addys[i] # Foreign}
<1>1. addys \in Seq(Peers \cup {Foreign})
  BY PeersAssumption
<1>2. apns \in Pushed(addys, I) /\ I \in SUBSET DOMAIN addys
  BY DEF Dialable
<1>3. \A i \in I : addys[i] \in Peers
  <2>1. \A i \in DOMAIN addys : addys[i] \in Peers \cup {Foreign}
    BY <1>1, LenProperties, ElementOfSeq
  <2> QED
    BY <2>1
<1> HIDE DEF I
<1>4. apns \in Seq({addys[i] : i \in I})
  BY <1>1, <1>2, PushedList
<1>5. {addys[i] : i \in I} \subseteq Peers
  BY <1>3
<1> QED
  BY <1>4, <1>5, WiderSeq

\* One peer's crawl goes on: it had begun, and it ends only by a ban.
LEMMA CrawlMoves ==
  ASSUME CrawlInv, NEW p \in Peers, Crawl(p)
  PROVE  /\ \A q \in Peers : q # p => crawl'[q].pc = crawl[q].pc
         /\ crawl[p].pc \notin {"none", "banned"}
         /\ crawl'[p].pc # "none"
         /\ crawl'[p].pc = "banned" <=> DeleteAndBan(p)
         /\ crawl[p].pc = "session" /\ crawl'[p].pc # "session" <=> SessionEnds(p)
         /\ crawl[p].pc # "session" /\ crawl'[p].pc = "session" <=> RecvVerAck(p)
<1> DEFINE c == crawl[p]
           d == crawl'[p]
<1>1. c \in Result
  BY DEF CrawlInv
<1>2. PICK e : crawl' = [crawl EXCEPT ![p] = e]
  BY DEF Crawl, Dial, ConnectFails, RecvVersion, RecvVerAck, RecvPacket, RecvAddr,
     SessionEnds, DeleteAndBan, Finished, CountPacket, CrawlInv
<1>3. \A q \in Peers : q # p => crawl'[q].pc = crawl[q].pc
  BY <1>2 DEF CrawlInv
<1>4. Dial(p) => c.pc = "backoff" /\ d.pc = "handshake"
  BY <1>1 DEF Dial, CrawlInv, Result
<1>5. ConnectFails(p) => c.pc = "handshake" /\ d.pc \in {"backoff", "delete"}
  <2>1. SUFFICES ASSUME ConnectFails(p)
                 PROVE  c.pc = "handshake" /\ d.pc \in {"backoff", "delete"}
    OBVIOUS
  <2>2. c.pc = "handshake" /\ Finished(p, [c EXCEPT !.hsError = TRUE], FALSE)
    BY <2>1 DEF ConnectFails
  <2>3. [c EXCEPT !.hsError = TRUE] \in Result
    BY <1>1 DEF Result
  <2> QED
    BY <2>2, <2>3 DEF Finished, CrawlInv, Result
<1>6. RecvVersion(p) => c.pc = "handshake" /\ d.pc = "handshake"
  BY <1>1 DEF RecvVersion, CrawlInv, Result
<1>7. RecvVerAck(p) => c.pc = "handshake" /\ d.pc = "session"
  BY <1>1 DEF RecvVerAck, CrawlInv, Result
<1>8. RecvPacket(p) \/ RecvAddr(p) => c.pc = "session" /\ d.pc = "session"
  BY <1>1 DEF RecvPacket, RecvAddr, CountPacket, CrawlInv, Result
<1>9. SessionEnds(p) => c.pc = "session" /\ d.pc \in {"backoff", "delete"}
  <2>1. SUFFICES ASSUME SessionEnds(p)
                 PROVE  c.pc = "session" /\ d.pc \in {"backoff", "delete"}
    OBVIOUS
  <2>2. c.pc = "session" /\ \E long \in BOOLEAN : Finished(p, c, long)
    BY <2>1 DEF SessionEnds
  <2> QED
    BY <2>2, <1>1 DEF Finished, CrawlInv, Result
<1>10. DeleteAndBan(p) => c.pc = "delete" /\ d.pc = "banned"
  BY <1>1 DEF DeleteAndBan, CrawlInv, Result
<1> HIDE DEF c, d
<1>11. /\ c.pc \notin {"none", "banned"} /\ d.pc # "none"
       /\ d.pc = "banned" <=> DeleteAndBan(p)
       /\ c.pc = "session" /\ d.pc # "session" <=> SessionEnds(p)
       /\ c.pc # "session" /\ d.pc = "session" <=> RecvVerAck(p)
  BY <1>4, <1>5, <1>6, <1>7, <1>8, <1>9, <1>10 DEF Crawl
<1> QED
  BY <1>3, <1>11 DEF c, d

LEMMA SeenCheckInv ==
  ASSUME PeersInv, CrawlInv', NEW t \in seen, SeenCheck(t)
  PROVE  PeersInv'
<1>1. t \in Task /\ t.stage = "check" /\ t.apns \in Seq(Peers)
  BY DEF SeenCheck, PeersInv, ListsOK, Task
<1>2. PICK new \in Unknown(t.apns) :
        /\ known' = known \cup ToSet(new)
        /\ seen' = IF new = <<>>
                   THEN seen \ {t}
                   ELSE (seen \ {t}) \cup {[t EXCEPT !.stage = "extend", !.apns = new]}
  BY DEF SeenCheck
<1>3. UNCHANGED <<up, toCheck, scraping, crawlVars, dbVars, stops>>
  BY DEF SeenCheck
<1>4. /\ new \in Seq(Peers) /\ IsInjective(new)
      /\ ToSet(new) \subseteq Peers /\ ToSet(new) \cap known = {}
  BY <1>1, UnknownList
<1> DEFINE u == [t EXCEPT !.stage = "extend", !.apns = new]
<1>5. u \in Task /\ u.stage = "extend" /\ u.apns = new
  BY <1>1, <1>4 DEF Task
<1>6. seen' = IF new = <<>> THEN seen \ {t} ELSE (seen \ {t}) \cup {u}
  BY <1>2, Zenon
<1> HIDE DEF u
<1>7. \A p \in ToSet(new) : \E w \in seen' : Took(w) /\ p \in ToSet(w.apns)
  <2>1. new = <<>> => ToSet(new) = {}
    BY EmptyList
  <2>2. new # <<>> => u \in seen'
    BY <1>6
  <2> QED
    BY <2>1, <2>2, <1>5 DEF Took
<1>8. /\ \A w \in seen : Took(w) => w \in seen'
      /\ \A w \in seen' : w \in seen \/ (w = u /\ new # <<>>)
  BY <1>1, <1>6 DEF Took
<1>9. up /\ up' /\ rows \subseteq known
  <2>1. up
    BY DEF PeersInv, DownInv
  <2>2. up'
    BY <2>1, <1>3, Zenon
  <2> QED
    BY <2>1, <2>2 DEF PeersInv, TableInv
<1>10. ListsOK'
  <2>1. seen' \subseteq Task /\ known' \subseteq Peers
    BY <1>2, <1>4, <1>5, <1>8 DEF PeersInv, ListsOK
  <2> QED
    BY <2>1, <1>3 DEF PeersInv, ListsOK, crawlVars, dbVars
<1>11. TaskInv'
  <2>1. \A w \in seen' : Took(w) => /\ w.apns # <<>> /\ IsInjective(w.apns)
                                    /\ ToSet(w.apns) \subseteq known'
    BY <1>2, <1>4, <1>5, <1>8 DEF PeersInv, TaskInv
  <2>2. \A w \in seen : Took(w) => ToSet(w.apns) \cap ToSet(new) = {}
    BY <1>4 DEF PeersInv, TaskInv
  <2>3. \A v, w \in seen' : Took(v) /\ Took(w) /\ v # w =>
                              ToSet(v.apns) \cap ToSet(w.apns) = {}
    BY <2>2, <1>5, <1>8 DEF PeersInv, TaskInv
  <2> QED
    BY <2>1, <2>3 DEF TaskInv
<1>12. PipeInv'
  <2>1. \A p \in ToSet(new) : /\ p \notin ToSet(toCheck) \cup ToSet(scraping)
                              /\ crawl[p].pc = "none"
    BY <1>4 DEF PeersInv, PipeInv
  <2> QED
    BY <2>1, <1>2, <1>3, <1>5, <1>8 DEF PeersInv, PipeInv, crawlVars
<1>13. TableInv'
  <2>1. ToSet(new) \cap rows = {} /\ ToSet(new) \cap ToSet(insertQ) = {}
    BY <1>4, <1>9 DEF PeersInv, TableInv
  <2> QED
    BY <2>1, <1>2, <1>3, <1>5, <1>8, <1>9 DEF PeersInv, TableInv, dbVars
<1>14. BanInv'
  <2>1. \A p \in ToSet(new) : crawl[p].pc # "banned"
    BY <1>4 DEF PeersInv, PipeInv
  <2>2. \A p \in known : crawl[p].pc = "banned" \/ Arriving(p)
    BY <1>9 DEF PeersInv, BanInv
  <2>3. \A p \in known' : crawl'[p].pc = "banned" \/ Arriving(p)'
    BY <2>2, <1>2, <1>3, <1>7, <1>8 DEF Arriving, crawlVars, dbVars
  <2> QED
    BY <2>1, <2>3, <1>3, <1>5, <1>8 DEF PeersInv, BanInv, crawlVars, dbVars
<1>15. DownInv'
  BY <1>9 DEF DownInv
<1>16. ~asserted' /\ ~poisoned'
  BY <1>3 DEF PeersInv, crawlVars, dbVars
<1> QED
  BY <1>10, <1>11, <1>12, <1>13, <1>14, <1>15, <1>16 DEF PeersInv

\* A peers_seen task exists only while the process runs.
LEMMA Running ==
  ASSUME PeersInv, up' = up,
         seen # {} \/ scraping # <<>> \/ toCheck # <<>> \/ insertQ # <<>> \/ deleteQ # <<>>
           \/ \E p \in Peers : crawl[p].pc # "none"
  PROVE  up /\ up' /\ rows \subseteq known
<1>1. up
  BY DEF PeersInv, DownInv
<1>2. up'
  BY <1>1, Zenon
<1> QED
  BY <1>1, <1>2 DEF PeersInv, TableInv

LEMMA SeenExtendInv ==
  ASSUME PeersInv, CrawlInv', NEW t \in seen, SeenExtend(t)
  PROVE  PeersInv'
<1>1. t \in Task /\ t.stage = "extend" /\ t.apns \in Seq(Peers) /\ Took(t)
  BY DEF SeenExtend, PeersInv, ListsOK, Task, Took
<1> DEFINE u == [t EXCEPT !.stage = "insert"]
<1>2. toCheck' = toCheck \o t.apns /\ seen' = (seen \ {t}) \cup {u}
  BY DEF SeenExtend
<1>3. UNCHANGED <<up, known, scraping, crawlVars, dbVars, stops>>
  BY DEF SeenExtend
<1>4. u \in Task /\ u.stage = "insert" /\ u.apns = t.apns
  BY <1>1 DEF Task
<1> HIDE DEF u
<1>5. Took(u)
  BY <1>4 DEF Took
<1>6. up /\ up' /\ rows \subseteq known
  BY <1>3, Running
<1>7. toCheck \in Seq(Peers) /\ IsInjective(toCheck) /\ IsInjective(t.apns)
  BY <1>1 DEF PeersInv, ListsOK, PipeInv, TaskInv
<1>8. ToSet(toCheck) \cap ToSet(t.apns) = {} /\ ToSet(scraping) \cap ToSet(t.apns) = {}
  BY <1>1 DEF PeersInv, PipeInv
<1>9. /\ toCheck' \in Seq(Peers)
      /\ ToSet(toCheck') = ToSet(toCheck) \cup ToSet(t.apns)
      /\ IsInjective(toCheck')
  BY <1>1, <1>2, <1>7, <1>8, ConcatList
<1>10. ListsOK'
  <2>1. seen' \subseteq Task
    BY <1>2, <1>4 DEF PeersInv, ListsOK
  <2> QED
    BY <2>1, <1>3, <1>9 DEF PeersInv, ListsOK, crawlVars, dbVars
<1>11. TaskInv'
  <2>1. \A w \in seen' : Took(w) => /\ w.apns # <<>> /\ IsInjective(w.apns)
                                    /\ ToSet(w.apns) \subseteq known'
    BY <1>1, <1>2, <1>3, <1>4 DEF PeersInv, TaskInv
  <2>2. \A v, w \in seen' : Took(v) /\ Took(w) /\ v # w =>
                              ToSet(v.apns) \cap ToSet(w.apns) = {}
    BY <1>1, <1>2, <1>4 DEF PeersInv, TaskInv
  <2> QED
    BY <2>1, <2>2 DEF TaskInv
<1>12. PipeInv'
  <2>1. \A w \in seen' : w.stage = "extend" =>
          w \in seen /\ ToSet(w.apns) \cap ToSet(t.apns) = {}
    BY <1>1, <1>2, <1>4 DEF PeersInv, TaskInv, Took
  <2>2. \A p \in ToSet(t.apns) : p \in known /\ crawl[p].pc = "none"
    BY <1>1 DEF PeersInv, TaskInv, PipeInv
  <2>3. \A w \in seen' : w.stage = "extend" =>
          \A p \in ToSet(w.apns) : /\ p \notin ToSet(toCheck') \cup ToSet(scraping')
                                   /\ crawl'[p].pc = "none"
    BY <2>1, <1>3, <1>9 DEF PeersInv, PipeInv, crawlVars
  <2> QED
    BY <2>2, <2>3, <1>3, <1>8, <1>9 DEF PeersInv, PipeInv, crawlVars
<1>13. TableInv'
  BY <1>1, <1>2, <1>3, <1>4, <1>6 DEF PeersInv, TableInv, dbVars
<1>14. BanInv'
  <2>1. \A p \in known : crawl[p].pc = "banned" \/ Arriving(p)
    BY <1>6 DEF PeersInv, BanInv
  <2>2. \A p : Arriving(p) => Arriving(p)'
    BY <1>2, <1>3, <1>4, <1>5 DEF Arriving, dbVars
  <2> QED
    BY <2>1, <2>2, <1>1, <1>2, <1>3, <1>4 DEF PeersInv, BanInv, crawlVars, dbVars
<1>15. DownInv' /\ ~asserted' /\ ~poisoned'
  BY <1>3, <1>6 DEF PeersInv, DownInv, crawlVars, dbVars
<1> QED
  BY <1>10, <1>11, <1>12, <1>13, <1>14, <1>15 DEF PeersInv

LEMMA SeenInsertInv ==
  ASSUME PeersInv, CrawlInv', NEW t \in seen, SeenInsert(t)
  PROVE  PeersInv'
<1>1. /\ t \in Task /\ t.stage = "insert" /\ t.apns \in Seq(Peers) /\ Took(t)
      /\ t.apns # <<>> /\ IsInjective(t.apns) /\ ToSet(t.apns) \subseteq known
      /\ ToSet(t.apns) \cap rows = {} /\ ToSet(t.apns) \cap ToSet(insertQ) = {}
  BY DEF SeenInsert, PeersInv, ListsOK, TaskInv, TableInv, Task, Took
<1> DEFINE x == Head(t.apns)
           rest == Tail(t.apns)
           u == [t EXCEPT !.apns = rest]
<1>2. /\ insertQ' = Append(insertQ, x)
      /\ seen' = IF Len(t.apns) = 1 THEN seen \ {t} ELSE (seen \ {t}) \cup {u}
  BY DEF SeenInsert
<1>3. UNCHANGED <<up, known, toCheck, scraping, crawlVars, deleteQ, rows, poisoned, stops>>
  BY DEF SeenInsert
<1>4. /\ x \in Peers /\ rest \in Seq(Peers)
      /\ ToSet(t.apns) = ToSet(rest) \cup {x}
      /\ IsInjective(rest) /\ x \notin ToSet(rest)
      /\ Len(t.apns) # 1 => rest # <<>>
      /\ Len(t.apns) = 1 => ToSet(t.apns) = {x}
  BY <1>1, HeadTailList
<1> HIDE DEF x, rest
<1>5. u \in Task /\ u.stage = "insert" /\ u.apns = rest
  BY <1>1, <1>4 DEF Task
<1> HIDE DEF u
<1>6. up /\ up' /\ rows \subseteq known
  BY <1>3, Running
<1>7. /\ insertQ' \in Seq(Peers)
      /\ ToSet(insertQ') = ToSet(insertQ) \cup {x}
      /\ IsInjective(insertQ')
  <2>1. insertQ \in Seq(Peers) /\ IsInjective(insertQ) /\ x \notin ToSet(insertQ)
    BY <1>1, <1>4 DEF PeersInv, ListsOK, TableInv
  <2> QED
    BY <2>1, <1>2, <1>4, AppendList
<1>8. \A w \in seen' : (w \in seen /\ w # t) \/ (w = u /\ Len(t.apns) # 1)
  BY <1>2
<1>9. \A w \in seen : Took(w) => ToSet(w.apns) \subseteq known
  BY DEF PeersInv, TaskInv
<1>10. ListsOK'
  <2>1. seen' \subseteq Task
    BY <1>8, <1>5 DEF PeersInv, ListsOK
  <2> QED
    BY <2>1, <1>3, <1>7 DEF PeersInv, ListsOK, crawlVars
<1>11. TaskInv'
  <2>1. \A w \in seen' : Took(w) => /\ w.apns # <<>> /\ IsInjective(w.apns)
                                    /\ ToSet(w.apns) \subseteq known'
    BY <1>1, <1>3, <1>4, <1>5, <1>8 DEF PeersInv, TaskInv
  <2>2. \A w \in seen : Took(w) /\ w # t => ToSet(w.apns) \cap ToSet(rest) = {}
    BY <1>1, <1>4 DEF PeersInv, TaskInv
  <2>3. \A v, w \in seen' : Took(v) /\ Took(w) /\ v # w =>
                              ToSet(v.apns) \cap ToSet(w.apns) = {}
    BY <2>2, <1>5, <1>8 DEF PeersInv, TaskInv
  <2> QED
    BY <2>1, <2>3 DEF TaskInv
<1>12. PipeInv'
  <2>1. \A w \in seen' : w.stage = "extend" => w \in seen
    BY <1>5, <1>8
  <2> QED
    BY <2>1, <1>3 DEF PeersInv, PipeInv, crawlVars
<1>13. TableInv'
  <2>1. \A w \in seen : Took(w) /\ w # t => x \notin ToSet(w.apns)
    BY <1>1, <1>4 DEF PeersInv, TaskInv
  <2>2. \A w \in seen' : Took(w) => /\ ToSet(w.apns) \cap rows = {}
                                    /\ ToSet(w.apns) \cap ToSet(insertQ') = {}
    BY <2>1, <1>1, <1>4, <1>5, <1>7, <1>8 DEF PeersInv, TableInv
  <2>3. ToSet(insertQ') \subseteq known /\ ToSet(insertQ') \cap rows = {}
    BY <1>1, <1>4, <1>7 DEF PeersInv, TableInv
  <2> QED
    BY <2>2, <2>3, <1>3, <1>6, <1>7 DEF TableInv
<1>14. BanInv'
  <2>1. \A p \in known : crawl[p].pc = "banned" \/ Arriving(p)
    BY <1>6 DEF PeersInv, BanInv
  <2>2. ASSUME NEW p, Arriving(p)
        PROVE  Arriving(p)'
    <3>1. CASE p \in rows \/ p \in ToSet(insertQ)
      BY <3>1, <1>3, <1>7 DEF Arriving
    <3>2. CASE \E w \in seen : Took(w) /\ p \in ToSet(w.apns)
      <4>1. PICK w \in seen : Took(w) /\ p \in ToSet(w.apns)
        BY <3>2
      <4>2. CASE w # t
        BY <4>1, <4>2, <1>2 DEF Arriving
      <4>3. CASE w = t /\ p = x
        BY <4>3, <1>7 DEF Arriving
      <4>4. CASE w = t /\ p # x
        <5>1. p \in ToSet(rest) /\ Len(t.apns) # 1
          BY <4>1, <4>4, <1>4
        <5>2. u \in seen' /\ Took(u)
          BY <5>1, <1>2, <1>5 DEF Took
        <5> QED
          BY <5>1, <5>2, <1>5 DEF Arriving
      <4> QED
        BY <4>2, <4>3, <4>4
    <3> QED
      BY <2>2, <3>1, <3>2 DEF Arriving
  <2>3. crawl[x].pc # "banned"
    BY <1>1, <1>4 DEF PeersInv, BanInv
  <2>4. ASSUME NEW p \in Peers, crawl[p].pc = "banned"
        PROVE  /\ p \notin rows \/ p \in ToSet(deleteQ)
               /\ p \notin ToSet(insertQ')
               /\ \A w \in seen' : Took(w) => p \notin ToSet(w.apns)
    BY <2>3, <2>4, <1>1, <1>4, <1>5, <1>7, <1>8 DEF PeersInv, BanInv
  <2> QED
    BY <2>1, <2>2, <2>4, <1>3 DEF PeersInv, BanInv, crawlVars
<1>15. DownInv' /\ ~asserted' /\ ~poisoned'
  BY <1>3, <1>6 DEF PeersInv, DownInv, crawlVars
<1> QED
  BY <1>10, <1>11, <1>12, <1>13, <1>14, <1>15 DEF PeersInv

\* Where nothing was taken yet, the invariant is about the table alone.
LEMMA FreshInv ==
  ASSUME CrawlInv', ListsOK', ~asserted', ~poisoned',
         \A t \in seen' : ~Took(t),
         \A t \in seen' : t.stage # "extend",
         \A p \in Peers : crawl'[p].pc = "none",
         scraping' = <<>>, insertQ' = <<>>, deleteQ' = <<>>, tracked' = {},
         IsInjective(toCheck'), ToSet(toCheck') = known',
         up' => known' = rows',
         ~up' => known' = {} /\ toCheck' = <<>> /\ seen' = {}
  PROVE  PeersInv'
<1>1. IsInjective(<<>>) /\ ToSet(<<>>) = {}
  BY EmptyList
<1>2. known' \subseteq Peers
  BY DEF ListsOK
<1>3. TaskInv'
  BY DEF TaskInv
<1>4. PipeInv'
  BY <1>1, <1>2 DEF PipeInv
<1>5. TableInv'
  BY <1>1 DEF TableInv
<1>6. BanInv'
  BY <1>1 DEF BanInv, Arriving
<1>7. DownInv'
  BY DEF DownInv
<1> QED
  BY <1>3, <1>4, <1>5, <1>6, <1>7 DEF PeersInv

LEMMA StopInv ==
  ASSUME PeersInv, CrawlInv', Stop
  PROVE  PeersInv'
<1>1. /\ up' = FALSE /\ stops' = stops + 1 /\ stops < MaxStops
      /\ known' = {} /\ toCheck' = <<>> /\ scraping' = <<>> /\ seen' = {}
      /\ crawl' = [p \in Peers |-> NoCrawl] /\ tracked' = {}
      /\ insertQ' = <<>> /\ deleteQ' = <<>> /\ poisoned' = FALSE /\ asserted' = FALSE
      /\ rows' = rows
  BY DEF Stop, Volatile
<1>2. IsInjective(<<>>) /\ ToSet(<<>>) = {} /\ <<>> \in Seq(Peers)
  BY EmptyList
<1>3. NoCrawl.pc = "none"
  BY DEF NoCrawl
<1>4. stops' \in 0..MaxStops
  BY <1>1, PeersAssumption DEF PeersInv, ListsOK
<1>5. ListsOK'
  BY <1>1, <1>2, <1>4 DEF PeersInv, ListsOK
<1> QED
  BY <1>1, <1>2, <1>3, <1>5, FreshInv

LEMMA StartInv ==
  ASSUME PeersInv, CrawlInv', Start
  PROVE  PeersInv'
<1>1. /\ ~up /\ up' = TRUE /\ known' = rows /\ toCheck' = SetToSeq(rows)
      /\ UNCHANGED <<scraping, crawlVars, dbVars, stops>>
  BY DEF Start, KnownAtStart
<1>2. /\ known = {} /\ toCheck = <<>> /\ scraping = <<>> /\ seen = {}
      /\ insertQ = <<>> /\ deleteQ = <<>>
      /\ \A p \in Peers : crawl[p].pc = "none"
  BY <1>1 DEF PeersInv, DownInv
<1>3. PICK seeds \in SUBSET Peers, id \in 1..MaxTasks :
        seen' = seen \cup {[stage |-> "check", apns |-> SetToSeq(seeds), id |-> id]}
  BY DEF Start, SpawnSeen
<1>4. IsFiniteSet(rows) /\ IsFiniteSet(seeds)
  BY PeersAssumption, FS_Subset DEF PeersInv, ListsOK
<1>5. /\ SetToSeq(rows) \in Seq(rows) /\ ToSet(SetToSeq(rows)) = rows
      /\ IsInjective(SetToSeq(rows))
  BY <1>4, SetToSeqList
<1>6. SetToSeq(seeds) \in Seq(Peers)
  BY <1>4, SetToSeqList, WiderSeq
<1>7. SetToSeq(rows) \in Seq(Peers)
  BY <1>5, WiderSeq DEF PeersInv, ListsOK
<1> DEFINE t == [stage |-> "check", apns |-> SetToSeq(seeds), id |-> id]
<1>8. t \in Task /\ t.stage = "check"
  BY <1>6 DEF Task
<1>9. seen' = {t}
  BY <1>2, <1>3
<1> HIDE DEF t
<1>10. tracked = {}
  BY <1>2 DEF PeersInv, PipeInv, ListsOK
<1>11. ListsOK'
  BY <1>1, <1>7, <1>8, <1>9 DEF PeersInv, ListsOK, crawlVars, dbVars
<1>12. ~asserted' /\ ~poisoned'
  BY <1>1 DEF PeersInv, crawlVars, dbVars
<1> QED
  BY <1>1, <1>2, <1>5, <1>8, <1>9, <1>10, <1>11, <1>12, FreshInv
     DEF Took, crawlVars, dbVars

\* The crawler takes the whole list, and leaves none of it.
LEMMA TakePeersToCheckInv ==
  ASSUME PeersInv, CrawlInv', TakePeersToCheck
  PROVE  PeersInv'
<1>1. /\ scraping = <<>> /\ toCheck # <<>> /\ scraping' = toCheck /\ toCheck' = <<>>
      /\ UNCHANGED <<up, known, seen, crawlVars, dbVars, stops>>
  BY DEF TakePeersToCheck, LeftToCheck
<1>2. IsInjective(<<>>) /\ ToSet(<<>>) = {} /\ <<>> \in Seq(Peers)
  BY EmptyList
<1>3. ListsOK'
  BY <1>1, <1>2 DEF PeersInv, ListsOK, crawlVars, dbVars
<1>4. TaskInv' /\ TableInv'
  BY <1>1 DEF PeersInv, TaskInv, TableInv, crawlVars, dbVars
<1>5. PipeInv'
  BY <1>1, <1>2 DEF PeersInv, PipeInv, crawlVars
<1>6. BanInv'
  BY <1>1 DEF PeersInv, BanInv, Arriving, crawlVars, dbVars
<1>7. up /\ up'
  BY <1>1, Running
<1>8. DownInv' /\ ~asserted' /\ ~poisoned'
  BY <1>1, <1>7 DEF PeersInv, DownInv, crawlVars, dbVars
<1> QED
  BY <1>3, <1>4, <1>5, <1>6, <1>8 DEF PeersInv

LEMMA SpawnCrawlInv ==
  ASSUME PeersInv, CrawlInv', SpawnCrawl
  PROVE  PeersInv'
<1> DEFINE p == Head(scraping)
           b == [NoCrawl EXCEPT !.pc = "backoff"]
<1>1. /\ scraping # <<>> /\ scraping' = Tail(scraping)
      /\ asserted' = (asserted \/ crawl[p].pc # "none")
      /\ crawl' = [crawl EXCEPT ![p] = b]
      /\ UNCHANGED <<up, known, toCheck, seen, tracked, short, dbVars, stops>>
  BY DEF SpawnCrawl, AfterSpawn
<1>2. /\ p \in Peers /\ Tail(scraping) \in Seq(Peers)
      /\ ToSet(scraping) = ToSet(Tail(scraping)) \cup {p}
      /\ IsInjective(Tail(scraping)) /\ p \notin ToSet(Tail(scraping))
  BY <1>1, HeadTailList DEF PeersInv, ListsOK, PipeInv
<1>3. b.pc = "backoff"
  BY NoneYet DEF Result
<1> HIDE DEF p, b
<1>4. crawl[p].pc = "none" /\ p \in known /\ p \notin ToSet(toCheck)
  BY <1>2 DEF PeersInv, PipeInv
<1>5. crawl'[p].pc = "backoff" /\ \A q \in Peers : q # p => crawl'[q] = crawl[q]
  BY <1>1, <1>2, <1>3 DEF PeersInv, CrawlInv
<1>6. ~asserted'
  BY <1>1, <1>4, Zenon DEF PeersInv
<1>7. /\ ToSet(toCheck) \subseteq Peers /\ ToSet(scraping) \subseteq Peers
      /\ ToSet(deleteQ) \subseteq Peers
      /\ \A t \in seen : t.stage = "extend" => ToSet(t.apns) \subseteq Peers
  <2>1. toCheck \in Seq(Peers) /\ scraping \in Seq(Peers) /\ deleteQ \in Seq(Peers)
    BY DEF PeersInv, ListsOK
  <2>2. \A t \in seen : t.stage = "extend" => ToSet(t.apns) \subseteq Peers
    BY DEF PeersInv, ListsOK, TaskInv, Took
  <2> QED
    BY <2>1, <2>2, SeqBasics
<1>8. ListsOK'
  BY <1>1, <1>2 DEF PeersInv, ListsOK, dbVars
<1>9. TaskInv' /\ TableInv'
  BY <1>1 DEF PeersInv, TaskInv, TableInv, dbVars
<1>10. PipeInv'
  <2>1. ToSet(scraping') = ToSet(scraping) \ {p} /\ IsInjective(scraping')
    BY <1>1, <1>2
  <2>2. \A t \in seen : t.stage = "extend" => p \notin ToSet(t.apns)
    BY <1>2 DEF PeersInv, PipeInv
  <2>3. \A t \in seen : t.stage = "extend" =>
          \A q \in ToSet(t.apns) : /\ q \notin ToSet(toCheck) \cup ToSet(scraping')
                                   /\ crawl'[q].pc = "none"
    BY <2>1, <2>2, <1>5, <1>7 DEF PeersInv, PipeInv
  <2>4. \A q \in ToSet(toCheck) \cup ToSet(scraping') : crawl'[q].pc = "none"
    BY <2>1, <1>4, <1>5, <1>7 DEF PeersInv, PipeInv
  <2>5. \A q \in Peers : /\ crawl'[q].pc # "none" => q \in known
                         /\ q \in tracked <=> crawl'[q].pc = "session"
    BY <1>4, <1>5 DEF PeersInv, PipeInv
  <2> QED
    BY <2>1, <2>3, <2>4, <2>5, <1>1 DEF PeersInv, PipeInv
<1>11. BanInv'
  <2>1. \A q \in Peers : crawl'[q].pc = "banned" <=> crawl[q].pc = "banned"
    BY <1>4, <1>5
  <2>2. \A q \in known : q \in Peers
    BY DEF PeersInv, ListsOK
  <2> QED
    BY <2>1, <2>2, <1>1, <1>7 DEF PeersInv, BanInv, Arriving, dbVars
<1>12. up /\ up'
  BY <1>1, Running
<1>13. DownInv' /\ ~poisoned'
  BY <1>1, <1>12 DEF PeersInv, DownInv, dbVars
<1> QED
  BY <1>6, <1>8, <1>9, <1>10, <1>11, <1>13 DEF PeersInv

\* A peer's crawl leaves the lists alone, except for a peers_seen task that it
\* may start and the request that deletes the peer.
LEMMA CrawlInvStep ==
  ASSUME PeersInv, CrawlInv', NEW p \in Peers, Crawl(p)
  PROVE  PeersInv'
<1>1. /\ \A q \in Peers : q # p => crawl'[q].pc = crawl[q].pc
      /\ crawl[p].pc \notin {"none", "banned"} /\ crawl'[p].pc # "none"
      /\ crawl'[p].pc = "banned" <=> DeleteAndBan(p)
      /\ crawl[p].pc = "session" /\ crawl'[p].pc # "session" <=> SessionEnds(p)
      /\ crawl[p].pc # "session" /\ crawl'[p].pc = "session" <=> RecvVerAck(p)
  BY CrawlMoves DEF PeersInv
<1>2. UNCHANGED <<up, known, toCheck, scraping, insertQ, rows, poisoned, stops>>
  BY DEF Crawl, Dial, ConnectFails, RecvVersion, RecvVerAck, RecvPacket, RecvAddr,
     SessionEnds, DeleteAndBan, taskVars, dbVars
<1>3. up /\ up' /\ rows \subseteq known
  BY <1>1, <1>2, Running
<1>4. /\ seen \subseteq seen' /\ seen' \subseteq Task
      /\ \A t \in seen' : t \in seen \/ t.stage = "check"
  <2>1. CASE RecvAddr(p)
    <3>a. PICK addys \in AddrPackets : \E apns \in Dialable(addys) : SpawnSeen(apns)
      BY <2>1 DEF RecvAddr
    <3>b. PICK apns \in Dialable(addys) : SpawnSeen(apns)
      BY <3>a
    <3>1. PICK id \in 1..MaxTasks :
            seen' = seen \cup {[stage |-> "check", apns |-> apns, id |-> id]}
      BY <3>b DEF SpawnSeen
    <3> DEFINE t == [stage |-> "check", apns |-> apns, id |-> id]
    <3>2. t \in Task /\ t.stage = "check"
      BY DialableList DEF Task
    <3>3. seen' = seen \cup {t}
      BY <3>1
    <3> HIDE DEF t
    <3> QED
      BY <3>2, <3>3 DEF PeersInv, ListsOK
  <2>2. CASE ~RecvAddr(p)
    <3>1. seen' = seen
      BY <2>2 DEF Crawl, Dial, ConnectFails, RecvVersion, RecvVerAck, RecvPacket,
         SessionEnds, DeleteAndBan, taskVars
    <3> QED
      BY <3>1 DEF PeersInv, ListsOK
  <2> QED
    BY <2>1, <2>2
<1>5. /\ \A t \in seen' : Took(t) => t \in seen
      /\ \A t \in seen' : t.stage = "extend" => t \in seen
      /\ \A t \in seen : Took(t) => t \in seen'
  BY <1>4 DEF Took
<1>6. p \in known /\ p \notin ToSet(toCheck) \cup ToSet(scraping)
  BY <1>1 DEF PeersInv, PipeInv
<1>7. /\ deleteQ' \in Seq(Peers)
      /\ ToSet(deleteQ') = IF DeleteAndBan(p) THEN ToSet(deleteQ) \cup {p} ELSE ToSet(deleteQ)
  <2>1. deleteQ \in Seq(Peers)
    BY DEF PeersInv, ListsOK
  <2>2. CASE DeleteAndBan(p)
    <3>1. deleteQ' = Append(deleteQ, p)
      BY <2>2 DEF DeleteAndBan, DeleteRequest
    <3> QED
      BY <2>1, <2>2, <3>1, AppendList
  <2>3. CASE ~DeleteAndBan(p)
    <3>1. deleteQ' = deleteQ
      BY <2>3 DEF Crawl, Dial, ConnectFails, RecvVersion, RecvVerAck, RecvPacket,
         RecvAddr, SessionEnds, dbVars
    <3> QED
      BY <2>1, <2>3, <3>1
  <2> QED
    BY <2>2, <2>3
<1>8. /\ ~asserted' /\ tracked' \subseteq Peers
      /\ \A q \in Peers : q \in tracked' <=> crawl'[q].pc = "session"
  <2>1. \A q \in Peers : q \in tracked <=> crawl[q].pc = "session"
    BY DEF PeersInv, PipeInv
  <2>2. CASE RecvVerAck(p)
    <3>1. asserted' = (asserted \/ p \in tracked) /\ tracked' = tracked \cup {p}
      BY <2>2 DEF RecvVerAck
    <3>2. crawl[p].pc # "session" /\ crawl'[p].pc = "session"
      BY <2>2, <1>1
    <3>3. ~asserted'
      BY <3>1, <3>2, <2>1, Zenon DEF PeersInv
    <3> QED
      BY <3>1, <3>2, <3>3, <2>1, <1>1 DEF PeersInv, ListsOK
  <2>3. CASE SessionEnds(p)
    <3>1. asserted' = (asserted \/ p \notin tracked) /\ tracked' = tracked \ {p}
      BY <2>3 DEF SessionEnds
    <3>2. crawl[p].pc = "session" /\ crawl'[p].pc # "session"
      BY <2>3, <1>1
    <3>3. ~asserted'
      BY <3>1, <3>2, <2>1, Zenon DEF PeersInv
    <3> QED
      BY <3>1, <3>2, <3>3, <2>1, <1>1 DEF PeersInv, ListsOK
  <2>4. CASE ~RecvVerAck(p) /\ ~SessionEnds(p)
    <3>1. UNCHANGED <<tracked, asserted>>
      BY <2>4 DEF Crawl, Dial, ConnectFails, RecvVersion, RecvPacket, RecvAddr,
         DeleteAndBan
    <3>2. crawl[p].pc = "session" <=> crawl'[p].pc = "session"
      BY <2>4, <1>1
    <3> QED
      BY <3>1, <3>2, <2>1, <1>1 DEF PeersInv, ListsOK
  <2> QED
    BY <2>2, <2>3, <2>4
<1>9. /\ ToSet(toCheck) \subseteq Peers /\ ToSet(scraping) \subseteq Peers
      /\ ToSet(deleteQ) \subseteq Peers /\ known \subseteq Peers
  <2>1. toCheck \in Seq(Peers) /\ scraping \in Seq(Peers) /\ deleteQ \in Seq(Peers)
    BY DEF PeersInv, ListsOK
  <2> QED
    BY <2>1, SeqBasics DEF PeersInv, ListsOK
<1>10. ListsOK'
  BY <1>2, <1>4, <1>7, <1>8 DEF PeersInv, ListsOK
<1>11. TaskInv' /\ TableInv'
  BY <1>2, <1>5 DEF PeersInv, TaskInv, TableInv
<1>12. PipeInv'
  <2>1. \A q \in ToSet(toCheck) \cup ToSet(scraping) : crawl'[q].pc = "none"
    BY <1>1, <1>6, <1>9 DEF PeersInv, PipeInv
  <2>2. \A q \in Peers : crawl'[q].pc # "none" => q \in known
    BY <1>1, <1>6 DEF PeersInv, PipeInv
  <2>3. ASSUME NEW t \in seen', t.stage = "extend", NEW q \in ToSet(t.apns)
        PROVE  q \notin ToSet(toCheck) \cup ToSet(scraping) /\ crawl'[q].pc = "none"
    <3>1. t \in seen /\ Took(t)
      BY <2>3, <1>5 DEF Took
    <3>2. /\ q \notin ToSet(toCheck) \cup ToSet(scraping)
          /\ crawl[q].pc = "none" /\ q \in known
      BY <3>1, <2>3 DEF PeersInv, PipeInv, TaskInv
    <3> QED
      BY <3>2, <1>1, <1>9
  <2> QED
    BY <2>1, <2>2, <2>3, <1>2, <1>8 DEF PeersInv, PipeInv
<1>13. BanInv'
  <2>1. \A q \in known : crawl[q].pc = "banned" \/ Arriving(q)
    BY <1>3 DEF PeersInv, BanInv
  <2>2. \A q : Arriving(q) => Arriving(q)'
    BY <1>2, <1>5 DEF Arriving
  <2>3. \A q \in Peers : crawl[q].pc = "banned" => crawl'[q].pc = "banned"
    BY <1>1
  <2>4. \A q \in ToSet(deleteQ') : crawl'[q].pc = "banned"
    BY <2>3, <1>1, <1>7, <1>9 DEF PeersInv, BanInv
  <2>5. ASSUME NEW q \in Peers, crawl'[q].pc = "banned"
        PROVE  /\ q \notin rows \/ q \in ToSet(deleteQ')
               /\ q \notin ToSet(insertQ)
               /\ \A t \in seen' : Took(t) => q \notin ToSet(t.apns)
    <3>1. CASE q # p
      BY <3>1, <2>5, <1>1, <1>5, <1>7 DEF PeersInv, BanInv
    <3>2. CASE q = p
      <4>1. DeleteAndBan(p)
        BY <3>2, <2>5, <1>1
      <4>2. ~Contains(insertQ, p) /\ \A t \in seen : Took(t) => ~Contains(t.apns, p)
        BY <4>1 DEF DeleteAndBan, BackoffOutlastsBatch, Took
      <4>3. p \notin ToSet(insertQ)
        BY <4>2, SeqBasics DEF PeersInv, ListsOK
      <4>4. ASSUME NEW t \in seen, Took(t)
            PROVE  p \notin ToSet(t.apns)
        <5>1. t.apns \in Seq(Peers)
          BY DEF PeersInv, ListsOK, Task
        <5> QED
          BY <5>1, <4>2, <4>4, SeqBasics
      <4> QED
        BY <3>2, <4>1, <4>3, <4>4, <1>5, <1>7
    <3> QED
      BY <3>1, <3>2
  <2> QED
    BY <2>1, <2>2, <2>3, <2>4, <2>5, <1>2, <1>9 DEF BanInv
<1>14. DownInv' /\ ~poisoned'
  BY <1>2, <1>3 DEF PeersInv, DownInv
<1> QED
  BY <1>8, <1>10, <1>11, <1>12, <1>13, <1>14 DEF PeersInv

LEMMA IntervalCount ==
  ASSUME NEW m \in Nat
  PROVE  IsFiniteSet(1..m) /\ Cardinality(1..m) = m
BY FS_Interval

\* A batch of inserts meets no row it would duplicate, so it is committed.
LEMMA FlushInsertsInv ==
  ASSUME PeersInv, CrawlInv', FlushInserts
  PROVE  PeersInv'
<1>1. PICK n \in 1..Len(insertQ) :
        LET batch == SubSeq(insertQ, 1, n) IN
        /\ insertQ' = SubSeq(insertQ, n + 1, Len(insertQ))
        /\ IF Conflict(batch)
           THEN poisoned' = TRUE /\ UNCHANGED rows
           ELSE rows' = rows \cup ToSet(batch) /\ UNCHANGED poisoned
  BY DEF FlushInserts
<1> DEFINE batch == SubSeq(insertQ, 1, n)
           rest  == SubSeq(insertQ, n + 1, Len(insertQ))
<1>2. UNCHANGED <<up, known, toCheck, taskVars, crawlVars, deleteQ, stops>>
  BY DEF FlushInserts
<1>3. insertQ \in Seq(Peers) /\ IsInjective(insertQ) /\ ToSet(insertQ) \cap rows = {}
  BY DEF PeersInv, ListsOK, TableInv
<1>4. /\ batch \in Seq(Peers) /\ rest \in Seq(Peers)
      /\ ToSet(insertQ) = ToSet(batch) \cup ToSet(rest)
      /\ IsInjective(batch) /\ IsInjective(rest)
      /\ ToSet(batch) \cap ToSet(rest) = {}
  BY <1>3, CutList
<1> HIDE DEF batch, rest
<1>5. ~Conflict(batch)
  <2>1. ToSet(batch) \cap rows = {}
    BY <1>3, <1>4
  <2>2. Cardinality(ToSet(batch)) = Len(batch)
    <3>1. Len(batch) \in Nat /\ DOMAIN batch = 1..Len(batch)
      BY <1>4, SeqBasics
    <3>2. batch \in [1..Len(batch) -> ToSet(batch)]
      <4>1. batch \in [1..Len(batch) -> Peers]
        BY <3>1, <1>4, LenProperties, ElementOfSeq
      <4>2. \A i \in 1..Len(batch) : batch[i] \in ToSet(batch)
        BY <3>1 DEF ToSet
      <4> QED
        BY <4>1, <4>2
    <3>3. batch \in Injection(1..Len(batch), ToSet(batch))
      BY <3>2, <1>4 DEF Injection
    <3>4. batch \in Surjection(1..Len(batch), ToSet(batch))
      BY <3>1, <3>2 DEF Surjection, ToSet
    <3>5. ExistsBijection(1..Len(batch), ToSet(batch))
      BY <3>3, <3>4 DEF Bijection, ExistsBijection
    <3>6. IsFiniteSet(1..Len(batch)) /\ Cardinality(1..Len(batch)) = Len(batch)
      BY <3>1, IntervalCount
    <3> QED
      BY <3>5, <3>6, FS_Bijection
  <2> QED
    BY <2>1, <2>2 DEF Conflict
<1>6. insertQ' = rest /\ rows' = rows \cup ToSet(batch) /\ poisoned' = poisoned
  BY <1>1, <1>5 DEF batch, rest
<1>7. UNCHANGED <<up, known, toCheck, scraping, seen, crawl, tracked, asserted, deleteQ, stops>>
  BY <1>2 DEF taskVars, crawlVars
<1>8. insertQ # <<>>
  BY EmptySeq, <1>3
<1>9. up /\ up' /\ rows \subseteq known
  BY <1>7, <1>8, Running
<1>10. ListsOK'
  <2>1. ToSet(batch) \subseteq Peers
    BY <1>4, SeqBasics
  <2> QED
    BY <2>1, <1>4, <1>6, <1>7 DEF PeersInv, ListsOK
<1>11. TaskInv' /\ PipeInv'
  BY <1>7 DEF PeersInv, TaskInv, PipeInv
<1>12. TableInv'
  BY <1>3, <1>4, <1>6, <1>7, <1>9 DEF PeersInv, TableInv
<1>13. BanInv'
  <2>1. \A q : Arriving(q) => Arriving(q)'
    BY <1>4, <1>6, <1>7 DEF Arriving
  <2> QED
    BY <2>1, <1>4, <1>6, <1>7, <1>9 DEF PeersInv, BanInv
<1>14. DownInv' /\ ~asserted' /\ ~poisoned'
  BY <1>6, <1>7, <1>9 DEF PeersInv, DownInv
<1> QED
  BY <1>10, <1>11, <1>12, <1>13, <1>14 DEF PeersInv

LEMMA FlushDeletesInv ==
  ASSUME PeersInv, CrawlInv', FlushDeletes
  PROVE  PeersInv'
<1>1. PICK n \in 1..Len(deleteQ) :
        /\ rows' = rows \ ToSet(SubSeq(deleteQ, 1, n))
        /\ deleteQ' = SubSeq(deleteQ, n + 1, Len(deleteQ))
  BY DEF FlushDeletes
<1> DEFINE batch == SubSeq(deleteQ, 1, n)
           rest  == SubSeq(deleteQ, n + 1, Len(deleteQ))
<1>2. UNCHANGED <<up, known, toCheck, taskVars, crawlVars, insertQ, poisoned, stops>>
  BY DEF FlushDeletes
<1>3. deleteQ \in Seq(Peers)
  BY DEF PeersInv, ListsOK
<1>4. rest \in Seq(Peers) /\ ToSet(deleteQ) = ToSet(batch) \cup ToSet(rest)
  BY <1>3, CutList
<1>5. rows' = rows \ ToSet(batch) /\ deleteQ' = rest
  BY <1>1
<1> HIDE DEF batch, rest
<1>6. UNCHANGED <<up, known, toCheck, scraping, seen, crawl, tracked, asserted, insertQ,
                  poisoned, stops>>
  BY <1>2 DEF taskVars, crawlVars
<1>7. deleteQ # <<>>
  BY EmptySeq, <1>3
<1>8. up /\ up' /\ rows \subseteq known
  BY <1>6, <1>7, Running
<1>9. ListsOK'
  BY <1>4, <1>5, <1>6 DEF PeersInv, ListsOK
<1>10. TaskInv' /\ PipeInv'
  BY <1>6 DEF PeersInv, TaskInv, PipeInv
<1>11. TableInv'
  BY <1>5, <1>6, <1>8 DEF PeersInv, TableInv
<1>12. BanInv'
  <2>1. \A q \in ToSet(batch) : crawl[q].pc = "banned"
    BY <1>4 DEF PeersInv, BanInv
  <2>2. \A q : crawl[q].pc # "banned" /\ Arriving(q) => Arriving(q)'
    BY <2>1, <1>5, <1>6 DEF Arriving
  <2> QED
    BY <2>2, <1>4, <1>5, <1>6, <1>8 DEF PeersInv, BanInv
<1>13. DownInv' /\ ~asserted' /\ ~poisoned'
  BY <1>6, <1>8 DEF PeersInv, DownInv
<1> QED
  BY <1>9, <1>10, <1>11, <1>12, <1>13 DEF PeersInv

-----------------------------------------------------------------------------
LEMMA PeersInvariant == Spec => []PeersInv
<1>1. Init => PeersInv
  <2> SUFFICES ASSUME Init
               PROVE  PeersInv
    OBVIOUS
  <2>1. /\ up = FALSE /\ known = {} /\ toCheck = <<>> /\ scraping = <<>> /\ seen = {}
        /\ tracked = {} /\ asserted = FALSE /\ insertQ = <<>> /\ deleteQ = <<>>
        /\ rows \in SUBSET Peers /\ poisoned = FALSE /\ stops = 0
        /\ \A p \in Peers : crawl[p].pc = "none"
    BY DEF Init, NoCrawl
  <2>2. IsInjective(<<>>) /\ ToSet(<<>>) = {} /\ <<>> \in Seq(Peers)
    BY EmptyList
  <2>3. CrawlInv
    BY InitCrawl
  <2>4. ListsOK
    <3>1. stops \in 0..MaxStops
      BY <2>1, PeersAssumption
    <3>2. up \in BOOLEAN
      BY <2>1
    <3>3. toCheck \in Seq(Peers) /\ scraping \in Seq(Peers)
      BY <2>1, <2>2
    <3>4. insertQ \in Seq(Peers) /\ deleteQ \in Seq(Peers)
      BY <2>1, <2>2
    <3>5. known \subseteq Peers /\ seen \subseteq Task /\ tracked \subseteq Peers
      BY <2>1
    <3>6. rows \subseteq Peers
      BY <2>1
    <3> QED
      BY <3>1, <3>2, <3>3, <3>4, <3>5, <3>6 DEF ListsOK
  <2>5. TaskInv /\ PipeInv /\ TableInv
    BY <2>1, <2>2 DEF TaskInv, PipeInv, TableInv
  <2>6. BanInv /\ DownInv
    BY <2>1, <2>2 DEF BanInv, DownInv
  <2> QED
    BY <2>1, <2>3, <2>4, <2>5, <2>6 DEF PeersInv
<1>2. PeersInv /\ [Next]_vars => PeersInv'
  <2> SUFFICES ASSUME PeersInv, [Next]_vars
               PROVE  PeersInv'
    OBVIOUS
  <2>1. CrawlInv'
    BY CrawlStep DEF PeersInv
  <2>2. CASE UNCHANGED vars
    <3>1. UNCHANGED <<up, known, toCheck, scraping, seen, crawl, tracked, asserted,
                      insertQ, deleteQ, rows, poisoned, stops>>
      BY <2>2 DEF vars, taskVars, crawlVars, dbVars
    <3>2. ListsOK' /\ TaskInv' /\ PipeInv'
      BY <3>1 DEF PeersInv, ListsOK, TaskInv, PipeInv
    <3>3. TableInv' /\ BanInv' /\ DownInv' /\ ~asserted' /\ ~poisoned'
      BY <3>1 DEF PeersInv, TableInv, BanInv, Arriving, DownInv
    <3> QED
      BY <2>1, <3>2, <3>3 DEF PeersInv
  <2>3. CASE \E t \in seen : Seen(t)
    BY <2>1, <2>3, SeenCheckInv, SeenExtendInv, SeenInsertInv DEF Seen
  <2>4. CASE Crawler
    BY <2>1, <2>4, TakePeersToCheckInv, SpawnCrawlInv DEF Crawler
  <2>5. CASE Start \/ Stop \/ FlushInserts \/ FlushDeletes \/ \E p \in Peers : Crawl(p)
    BY <2>1, <2>5, StartInv, StopInv, FlushInsertsInv, FlushDeletesInv, CrawlInvStep
  <2> QED
    BY <2>2, <2>3, <2>4, <2>5 DEF Next
<1> QED
  BY <1>1, <1>2, PTL DEF Spec

\* The two flags are only ever set by a disjunction.
LEMMA FlagsAreBoolean == Spec => [](poisoned \in BOOLEAN /\ asserted \in BOOLEAN)
<1>1. Init => poisoned \in BOOLEAN /\ asserted \in BOOLEAN
  BY Zenon DEF Init
<1>2. poisoned \in BOOLEAN /\ asserted \in BOOLEAN /\ [Next]_vars =>
        (poisoned \in BOOLEAN /\ asserted \in BOOLEAN)'
  <2> SUFFICES ASSUME poisoned \in BOOLEAN, asserted \in BOOLEAN, [Next]_vars
               PROVE  (poisoned \in BOOLEAN /\ asserted \in BOOLEAN)'
    OBVIOUS
  <2>1. CASE UNCHANGED vars
    BY <2>1, Zenon DEF vars, crawlVars, dbVars
  <2>2. CASE Start
    BY <2>2, Zenon DEF Start, crawlVars, dbVars
  <2>3. CASE Stop
    BY <2>3, Zenon DEF Stop, Volatile
  <2>4. CASE \E t \in seen : Seen(t)
    BY <2>4, Zenon DEF Seen, SeenCheck, SeenExtend, SeenInsert, crawlVars, dbVars
  <2>5. CASE Crawler
    BY <2>5, Zenon DEF Crawler, TakePeersToCheck, SpawnCrawl, crawlVars, dbVars
  <2>6. ASSUME NEW p \in Peers, Crawl(p)
        PROVE  (poisoned \in BOOLEAN /\ asserted \in BOOLEAN)'
    BY <2>6, Zenon DEF Crawl, Dial, ConnectFails, RecvVersion, RecvVerAck, RecvPacket,
       RecvAddr, SessionEnds, DeleteAndBan, dbVars
  <2>7. CASE FlushInserts
    BY <2>7, Zenon DEF FlushInserts, crawlVars
  <2>8. CASE FlushDeletes
    BY <2>8, Zenon DEF FlushDeletes, crawlVars
  <2> QED
    BY <2>1, <2>2, <2>3, <2>4, <2>5, <2>6, <2>7, <2>8 DEF Next
<1> QED
  BY <1>1, <1>2, PTL DEF Spec

\* Every variable of the address manager, the crawler and the batched queues
\* stays in its domain.
THEOREM PeersTypeCorrect == Spec => []TypeOK
<1>1. PeersInv /\ (poisoned \in BOOLEAN /\ asserted \in BOOLEAN) => TypeOK
  <2> SUFFICES ASSUME PeersInv, poisoned \in BOOLEAN, asserted \in BOOLEAN
               PROVE  TypeOK
    OBVIOUS
  <2>1. ListsOK /\ CrawlInv
    BY DEF PeersInv
  <2>2. short \in [Peers -> Nat]
    BY <2>1, PeersAssumption DEF CrawlInv
  <2>3. seen \subseteq [stage : {"check", "extend", "insert"}, apns : Seq(Peers),
                        id : 1..MaxTasks]
    BY <2>1 DEF ListsOK, Task
  <2>4. crawl \in [Peers -> [pc : CrawlStates, failed : 0..MAX_FAILS,
                             hsError : BOOLEAN, packets : 0..MIN_PACKETS,
                             version : BOOLEAN]]
    BY <2>1 DEF CrawlInv, Result
  <2> QED
    BY <2>1, <2>2, <2>3, <2>4, Zenon DEF ListsOK, TypeOK
<1> QED
  BY <1>1, PeersInvariant, FlagsAreBoolean, PTL

\* However often an address is learned - twice in one packet, in the packets of
\* several peers whose peers_seen tasks interleave, from the seeds and from the
\* table - a peer waits or is crawled at most once, so that no assert! of
\* TrackedConnection fails.
THEOREM OneCrawlPerPeer == Spec => []SingleCrawl
<1>1. PeersInv => SingleCrawl
  <2> SUFFICES ASSUME PeersInv
               PROVE  SingleCrawl
    OBVIOUS
  <2>1. ~asserted
    BY DEF PeersInv
  <2>2. ASSUME NEW p \in Peers
        PROVE  CountIn(toCheck, p) + CountIn(scraping, p)
                 + (IF crawl[p].pc # "none" THEN 1 ELSE 0) <= 1
    <3>1. /\ toCheck \in Seq(Peers) /\ IsInjective(toCheck)
          /\ scraping \in Seq(Peers) /\ IsInjective(scraping)
      BY DEF PeersInv, ListsOK, PipeInv
    <3>2. /\ CountIn(toCheck, p) = IF p \in ToSet(toCheck) THEN 1 ELSE 0
          /\ CountIn(scraping, p) = IF p \in ToSet(scraping) THEN 1 ELSE 0
      BY <3>1, CountList
    <3>3. /\ ~(p \in ToSet(toCheck) /\ p \in ToSet(scraping))
          /\ p \in ToSet(toCheck) \/ p \in ToSet(scraping) => crawl[p].pc = "none"
      BY DEF PeersInv, PipeInv
    <3> QED
      BY <3>2, <3>3
  <2> QED
    BY <2>1, <2>2 DEF SingleCrawl
<1> QED
  BY <1>1, PeersInvariant, PTL

\* No INSERT of a batch finds the row of its peer in the table, wherever the
\* process was stopped before, so that CONNECTION is never poisoned.
THEOREM InsertsNeverConflict == Spec => []InsertsFresh
<1>1. PeersInv => InsertsFresh
  BY DEF PeersInv, InsertsFresh
<1> QED
  BY <1>1, PeersInvariant, PTL

\* Once the queues have drained, the table is KNOWN_PEERS without the peers
\* that were banned.
THEOREM TableHoldsKnownPeers == Spec => []TableCatchesUp
<1>1. PeersInv => TableCatchesUp
  <2> SUFFICES ASSUME PeersInv, up, insertQ = <<>>, deleteQ = <<>>, seen = {}
               PROVE  rows = {p \in known : crawl[p].pc # "banned"}
    BY DEF TableCatchesUp
  <2>1. ToSet(insertQ) = {} /\ ToSet(deleteQ) = {}
    BY EmptyList
  <2>2. rows \subseteq known /\ known \subseteq Peers
    BY DEF PeersInv, TableInv, ListsOK
  <2>3. \A p \in known : crawl[p].pc # "banned" => p \in rows
    BY <2>1 DEF PeersInv, BanInv, Arriving
  <2>4. \A p \in Peers : crawl[p].pc = "banned" => p \notin rows
    BY <2>1 DEF PeersInv, BanInv
  <2> QED
    BY <2>2, <2>3, <2>4
<1> QED
  BY <1>1, PeersInvariant, PTL
=============================================================================

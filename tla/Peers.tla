-------------------------------- MODULE Peers --------------------------------
(***************************************************************************)
(* The peers the node knows: the address manager (addrman/mod.rs), the     *)
(* crawler's task per peer (crawler/mod.rs, connect/mod.rs,                *)
(* crawler/peertracker.rs) and the peers table behind its batched queues   *)
(* (db/batch.rs, db/sqlite.rs), with a process that may stop at any point  *)
(* and be started again (main.rs).                                         *)
(*                                                                         *)
(* The columns of a peer's row besides its key are only shown on the API's *)
(* peer page and nothing here depends on them: the UPDATE queues are left  *)
(* out.  Time is left out too, but for one consequence of it,              *)
(* BackoffOutlastsBatch.                                                   *)
(***************************************************************************)
EXTENDS Integers, Sequences, SequencesExt, FiniteSets

CONSTANTS
  Peers,       \* addresses of the two networks the crawler can dial
  Foreign,     \* an address of any other network, as AddrV2 may carry it
  AddrPackets, \* the lists of addresses that an Addr or AddrV2 packet may hold
  MAX_FAILS,   \* failed_times at which a peer is banned: 14 in the code
  MIN_PACKETS, \* packets a session must bring: 10 in the code
  MaxTasks,    \* bound: peers_seen tasks that run at the same time
  MaxStops     \* bound: how often the process stops

ASSUME PeersAssumption ==
  /\ IsFiniteSet(Peers)
  /\ Foreign \notin Peers
  /\ AddrPackets \subseteq Seq(Peers \cup {Foreign})
  /\ MAX_FAILS \in Nat \ {0}
  /\ MIN_PACKETS \in Nat
  /\ MaxTasks \in Nat
  /\ MaxStops \in Nat

VARIABLES
  up,       \* the process runs
  known,    \* KNOWN_PEERS
  toCheck,  \* PEERS_TO_CHECK
  scraping, \* what is left of the list crawl_forever walks through
  seen,     \* the running peers_seen tasks
  crawl,    \* the state of each peer's crawl_with_backoff task
  tracked,  \* CONNECTED_PEERS
  insertQ,  \* requests in INSERT_PEER_QUEUE, the batch being gathered included
  deleteQ,  \* requests in DELETE_PEER_QUEUE, likewise
  rows,     \* the keys of the table peers
  poisoned, \* a batch failed to execute while it held CONNECTION
  asserted, \* an assert! of peertracker.rs failed
  stops,    \* how often the process stopped
  short     \* history: sessions with too few packets since the last good one

taskVars  == <<scraping, seen>>
crawlVars == <<crawl, tracked, asserted, short>>
dbVars    == <<insertQ, deleteQ, rows, poisoned>>
vars == <<up, known, toCheck, taskVars, crawlVars, dbVars, stops>>

CrawlStates ==
  {"none", "backoff", "handshake", "session", "delete", "banned"}

\* A crawl_with_backoff task with its failed_times and its CrawlResult.
\* version: the handshake has seen the peer's Version packet.
NoCrawl == [pc |-> "none", failed |-> 0, hsError |-> FALSE, packets |-> 0,
            version |-> FALSE]

\* Every variable stays in its domain.
TypeOK ==
  /\ up \in BOOLEAN
  /\ known \subseteq Peers
  /\ toCheck \in Seq(Peers)
  /\ scraping \in Seq(Peers)
  /\ seen \subseteq [stage : {"check", "extend", "insert"}, apns : Seq(Peers),
                     id : 1..MaxTasks]
  /\ crawl \in [Peers -> [pc : CrawlStates, failed : 0..MAX_FAILS,
                          hsError : BOOLEAN, packets : 0..MIN_PACKETS,
                          version : BOOLEAN]]
  /\ tracked \subseteq Peers
  /\ insertQ \in Seq(Peers)
  /\ deleteQ \in Seq(Peers)
  /\ rows \subseteq Peers
  /\ poisoned \in BOOLEAN
  /\ asserted \in BOOLEAN
  /\ stops \in 0..MaxStops
  /\ short \in [Peers -> Nat]

-----------------------------------------------------------------------------
(* Start and stop.                                                          *)

\* addrman::start fills KNOWN_PEERS and PEERS_TO_CHECK from the table.
KnownAtStart_Empty == {}
KnownAtStart == rows

Volatile ==
  /\ scraping' = <<>>
  /\ seen' = {}
  /\ crawl' = [p \in Peers |-> NoCrawl]
  /\ tracked' = {}
  /\ insertQ' = <<>>
  /\ deleteQ' = <<>>
  /\ poisoned' = FALSE
  /\ asserted' = FALSE
  /\ short' = [p \in Peers |-> 0]

\* The process ends: Ctrl-C or a crash, with whatever the queues still hold.
Stop ==
  /\ up /\ stops < MaxStops
  /\ up' = FALSE
  /\ stops' = stops + 1
  /\ known' = {} /\ toCheck' = <<>>
  /\ Volatile
  /\ UNCHANGED rows

\* What a loop over a list leaves in the Vec it pushes some of the elements
\* to: the elements at positions I, in order (a set of exactly one list).
Pushed(list, I) ==
  {[k \in DOMAIN pos |-> list[pos[k]]] :
     pos \in {f \in [1..Cardinality(I) -> I] :
                \A j, k \in DOMAIN f : j < k => f[j] < f[k]}}

\* handle_payload: an Addr or AddrV2 packet becomes a list of peers, in which
\* one may occur twice, and AddrV2 entries of other networks are skipped.
Dialable(addys) == Pushed(addys, {i \in DOMAIN addys : addys[i] # Foreign})

FreeId(id) == \A t \in seen : t.id # id

\* tokio::spawn(peers_seen(..)), from a packet or with the seeds of the DNS
SpawnSeen(apns) ==
  \E id \in 1..MaxTasks :
    /\ FreeId(id) /\ \A j \in 1..(id - 1) : ~FreeId(j)
    /\ seen' = seen \cup {[stage |-> "check", apns |-> apns, id |-> id]}

\* main(): the database, then addrman::start, then a task that resolves the
\* DNS seeds (no duplicates, no other network) and passes them to peers_seen.
Start ==
  /\ ~up
  /\ up' = TRUE
  /\ known' = KnownAtStart
  /\ toCheck' = SetToSeq(rows)
  /\ \E seeds \in SUBSET Peers : SpawnSeen(SetToSeq(seeds))
  /\ UNCHANGED <<scraping, crawlVars, dbVars, stops>>

Init ==
  /\ up = FALSE
  /\ known = {} /\ toCheck = <<>>
  /\ scraping = <<>> /\ seen = {}
  /\ crawl = [p \in Peers |-> NoCrawl]
  /\ tracked = {} /\ asserted = FALSE
  /\ short = [p \in Peers |-> 0]
  /\ insertQ = <<>> /\ deleteQ = <<>>
  /\ rows \in SUBSET Peers
  /\ poisoned = FALSE
  /\ stops = 0

-----------------------------------------------------------------------------
(* peers_seen                                                               *)

\* The first half of peers_seen: under the lock of KNOWN_PEERS every unknown
\* address is inserted, at once, so that a second occurrence is known.
Unknown(apns) ==
  Pushed(apns, {i \in DOMAIN apns : /\ apns[i] \notin known
                                    /\ \A j \in 1..(i - 1) : apns[j] # apns[i]})

SeenCheck(t) ==
  /\ t \in seen /\ t.stage = "check"
  /\ \E new \in Unknown(t.apns) :
       /\ known' = known \cup ToSet(new)
       /\ seen' = IF new = <<>>
                  THEN seen \ {t}
                  ELSE (seen \ {t}) \cup {[t EXCEPT !.stage = "extend", !.apns = new]}
  /\ UNCHANGED <<up, toCheck, scraping, crawlVars, dbVars, stops>>

\* PEERS_TO_CHECK is extended under its own lock.
SeenExtend(t) ==
  /\ t \in seen /\ t.stage = "extend"
  /\ toCheck' = toCheck \o t.apns
  /\ seen' = (seen \ {t}) \cup {[t EXCEPT !.stage = "insert"]}
  /\ UNCHANGED <<up, known, scraping, crawlVars, dbVars, stops>>

\* insert_peer, one by one
SeenInsert(t) ==
  /\ t \in seen /\ t.stage = "insert"
  /\ insertQ' = Append(insertQ, Head(t.apns))
  /\ seen' = IF Len(t.apns) = 1
             THEN seen \ {t}
             ELSE (seen \ {t}) \cup {[t EXCEPT !.apns = Tail(@)]}
  /\ UNCHANGED <<up, known, toCheck, scraping, crawlVars, deleteQ, rows,
                 poisoned, stops>>

-----------------------------------------------------------------------------
(* crawl_forever                                                            *)

\* get_peers_to_check swaps the list out and leaves an empty one.
LeftToCheck_Copy == toCheck
LeftToCheck == <<>>

TakePeersToCheck ==
  /\ up /\ scraping = <<>> /\ toCheck # <<>>
  /\ scraping' = toCheck
  /\ toCheck' = LeftToCheck
  /\ UNCHANGED <<up, known, seen, crawlVars, dbVars, stops>>

\* `for peer in peers_to_check`
AfterSpawn_Return == <<>>
AfterSpawn == Tail(scraping)

\* tokio::spawn(crawl_with_backoff(peer)): a second task for the same peer
\* would be one more user of TrackedConnection.
SpawnCrawl ==
  LET p == Head(scraping) IN
  /\ scraping # <<>>
  /\ scraping' = AfterSpawn
  /\ asserted' = (asserted \/ crawl[p].pc # "none")
  /\ crawl' = [crawl EXCEPT ![p] = [NoCrawl EXCEPT !.pc = "backoff"]]
  /\ UNCHANGED <<up, known, toCheck, seen, tracked, short, dbVars, stops>>

-----------------------------------------------------------------------------
(* crawl_with_backoff, crawl and connect_and_handshake                      *)

\* The sleep is over: crawl() dials the peer.
Dial(p) ==
  /\ crawl[p].pc = "backoff"
  /\ crawl' = [crawl EXCEPT ![p].pc = "handshake"]
  /\ UNCHANGED <<up, known, toCheck, taskVars, tracked, asserted, short, dbVars,
                 stops>>

\* evaluate_crawl_result of a session with this error flag and packet count,
\* long enough or not.  A handshake error counts first, whenever it was.  (The
\* branches for InvalidChecksum and for unsupported networks cannot be taken:
\* read_packet never returns that error, and no such peer is ever known.)
Evaluate_NoReset(c, long) ==
  IF c.hsError \/ c.packets < MIN_PACKETS THEN c.failed + 1 ELSE c.failed
Evaluate_BanAtOnce(c, long) ==
  IF c.hsError THEN c.failed + MAX_FAILS ELSE c.failed + 1
Evaluate(c, long) ==
  IF c.hsError \/ c.packets < MIN_PACKETS THEN c.failed + 1
  ELSE IF long THEN 0 ELSE c.failed

\* crawl() returned; the while loop goes on or the peer is to be banned.  The
\* next crawl() resets packets_received_total and nothing else of the result.
Finished(p, c, long) ==
  LET failed == Evaluate(c, long) IN
  /\ crawl' = [crawl EXCEPT ![p] =
                 [c EXCEPT !.failed = failed, !.packets = 0, !.version = FALSE,
                           !.pc = IF failed < MAX_FAILS THEN "backoff"
                                                        ELSE "delete"]]

\* TcpStream::connect fails, the deadline of the handshake passes, reading or
\* writing fails, VerAck comes before Version or Version comes twice.
ConnectFails(p) ==
  /\ crawl[p].pc = "handshake"
  /\ Finished(p, [crawl[p] EXCEPT !.hsError = TRUE], FALSE)
  /\ UNCHANGED <<up, known, toCheck, taskVars, tracked, asserted, short, dbVars,
                 stops>>

\* handle_packet_during_handshaking, the packets that let it go on; the end
\* of the handshake: a TrackedConnection and the session.
RecvVersion(p) ==
  /\ crawl[p].pc = "handshake" /\ ~crawl[p].version
  /\ crawl' = [crawl EXCEPT ![p].version = TRUE]
  /\ UNCHANGED <<up, known, toCheck, taskVars, tracked, asserted, short, dbVars,
                 stops>>

RecvVerAck(p) ==
  /\ crawl[p].pc = "handshake" /\ crawl[p].version
  /\ asserted' = (asserted \/ p \in tracked)
  /\ tracked' = tracked \cup {p}
  /\ crawl' = [crawl EXCEPT ![p].pc = "session", ![p].version = FALSE]
  /\ UNCHANGED <<up, known, toCheck, taskVars, short, dbVars, stops>>

\* The session loop read a packet; only the addresses in it matter here.
CountPacket(p) ==
  crawl' = [crawl EXCEPT ![p].packets = IF @ < MIN_PACKETS THEN @ + 1 ELSE @]

RecvPacket(p) ==
  /\ crawl[p].pc = "session"
  /\ crawl[p].packets < MIN_PACKETS
  /\ CountPacket(p)
  /\ UNCHANGED <<up, known, toCheck, taskVars, tracked, asserted, short, dbVars,
                 stops>>

RecvAddr(p) ==
  /\ crawl[p].pc = "session"
  /\ \E addys \in AddrPackets : \E apns \in Dialable(addys) : SpawnSeen(apns)
  /\ CountPacket(p)
  /\ UNCHANGED <<up, known, toCheck, scraping, tracked, asserted, short, dbVars,
                 stops>>

\* Any branch of the select! fails: reading, writing, a Lagged broadcast, a job
\* channel that was dropped.  The TrackedConnection is dropped with it.
SessionEnds(p) ==
  /\ crawl[p].pc = "session"
  /\ asserted' = (asserted \/ p \notin tracked)
  /\ tracked' = tracked \ {p}
  /\ \E long \in BOOLEAN :
       /\ Finished(p, crawl[p], long)
       /\ short' = [short EXCEPT ![p] =
                      IF crawl[p].packets < MIN_PACKETS
                      THEN IF @ < MAX_FAILS THEN @ + 1 ELSE @
                      ELSE IF long THEN 0 ELSE @]
  /\ UNCHANGED <<up, known, toCheck, taskVars, dbVars, stops>>

\* Reaching MAX_FAILS takes hours of backoff, a batch at most five seconds:
\* the peer's own insert request was flushed long before.
BackoffOutlastsBatch(p) ==
  /\ ~Contains(insertQ, p)
  /\ \A t \in seen : t.stage # "check" => ~Contains(t.apns, p)

\* delete_and_ban_peer: KNOWN_PEERS keeps the peer.  The table banned_peers,
\* which ban_peer fills, is never read.
DeleteRequest_None(p) == deleteQ
DeleteRequest(p) == Append(deleteQ, p)

DeleteAndBan(p) ==
  /\ crawl[p].pc = "delete" /\ BackoffOutlastsBatch(p)
  /\ deleteQ' = DeleteRequest(p)
  /\ crawl' = [crawl EXCEPT ![p].pc = "banned"]
  /\ UNCHANGED <<up, known, toCheck, taskVars, tracked, asserted, short,
                 insertQ, rows, poisoned, stops>>

-----------------------------------------------------------------------------
(* batch_process_requests: one transaction per batch.  The requests that    *)
(* arrive after the deadline wait for the next one.                         *)

\* INSERT without ON CONFLICT: a key that is there already makes the batch
\* panic while it holds CONNECTION.
Conflict(batch) ==
  \/ ToSet(batch) \cap rows # {}
  \/ Cardinality(ToSet(batch)) # Len(batch)

FlushInserts ==
  /\ ~poisoned
  /\ \E n \in 1..Len(insertQ) :
       LET batch == SubSeq(insertQ, 1, n) IN
       /\ insertQ' = SubSeq(insertQ, n + 1, Len(insertQ))
       /\ IF Conflict(batch)
          THEN poisoned' = TRUE /\ UNCHANGED rows
          ELSE rows' = rows \cup ToSet(batch) /\ UNCHANGED poisoned
  /\ UNCHANGED <<up, known, toCheck, taskVars, crawlVars, deleteQ, stops>>

FlushDeletes ==
  /\ ~poisoned
  /\ \E n \in 1..Len(deleteQ) :
       /\ rows' = rows \ ToSet(SubSeq(deleteQ, 1, n))
       /\ deleteQ' = SubSeq(deleteQ, n + 1, Len(deleteQ))
  /\ UNCHANGED <<up, known, toCheck, taskVars, crawlVars, insertQ, poisoned,
                 stops>>

-----------------------------------------------------------------------------
Crawler == TakePeersToCheck \/ SpawnCrawl

Crawl(p) ==
  \/ Dial(p)
  \/ ConnectFails(p)
  \/ RecvVersion(p)
  \/ RecvVerAck(p)
  \/ RecvPacket(p)
  \/ RecvAddr(p)
  \/ SessionEnds(p)
  \/ DeleteAndBan(p)

Seen(t) == SeenCheck(t) \/ SeenExtend(t) \/ SeenInsert(t)

Next ==
  \/ Start
  \/ Stop
  \/ \E t \in seen : Seen(t)
  \/ Crawler
  \/ \E p \in Peers : Crawl(p)
  \/ FlushInserts
  \/ FlushDeletes

Spec == Init /\ [][Next]_vars

\* The runtime runs the crawler's loop, the peers_seen tasks and the batchers.
\* What a remote peer does is not fair.
Fairness ==
  /\ WF_vars(Start)
  /\ WF_vars(Crawler)
  /\ \A id \in 1..MaxTasks : WF_vars(\E t \in seen : t.id = id /\ Seen(t))
  /\ WF_vars(FlushInserts)
  /\ WF_vars(FlushDeletes)

FairSpec == Spec /\ Fairness

-----------------------------------------------------------------------------
(* Properties.                                                              *)

CountIn(s, p) == Cardinality({i \in DOMAIN s : s[i] = p})

\* Whatever packets, seeds and tables it is learned from, a peer has at most
\* one place in the pipeline, a running or finished crawl included: a banned
\* peer is not dialled again by this process, and no assert! of
\* peertracker.rs fails.
SingleCrawl ==
  /\ ~asserted
  /\ \A p \in Peers :
       CountIn(toCheck, p) + CountIn(scraping, p)
         + (IF crawl[p].pc # "none" THEN 1 ELSE 0) <= 1

\* An insert never meets the row it would duplicate, whatever the other queue
\* still holds and wherever the process was stopped: no batch panics, which
\* would poison CONNECTION for the whole program.
InsertsFresh == ~poisoned

\* A peer whose handshakes all succeeded is given up only after MAX_FAILS
\* sessions with too few packets since its last good session.
BannedDeserved ==
  \A p \in Peers : crawl[p].pc \in {"delete", "banned"} =>
                     crawl[p].hsError \/ short[p] >= MAX_FAILS

\* When the queues have drained, the table holds no peer that this process
\* banned and every other peer it knows, so the next start finds them.
TableCatchesUp ==
  up /\ insertQ = <<>> /\ deleteQ = <<>> /\ seen = {} /\ ~poisoned =>
    rows = {p \in known : crawl[p].pc # "banned"}

\* Every peer that is to be checked is crawled, unless the process stops.
CheckedPeersCrawled ==
  \A p \in Peers :
    Contains(toCheck, p) ~> (crawl[p].pc # "none" \/ ~up)
=============================================================================

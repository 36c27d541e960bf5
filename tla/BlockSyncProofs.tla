--------------------------- MODULE BlockSyncProofs ---------------------------
(***************************************************************************)
(* Proofs about BlockSync for any number of blocks and workers, any        *)
(* backlog limit, and a writer that may or may not fail.                   *)
(***************************************************************************)
EXTENDS BlockSync, FiniteSetTheorems, TLAPS

USE DEF NotWaiting, NoBlock

\* Nobody works on, holds or pushes a block that was not asked for.
AskedFor ==
  /\ \A w \in Workers : job[w] < next_never_asked_for
  /\ \A m \in inbox : m.block < next_never_asked_for
  /\ mpc = "flush" => next_to_apply < next_never_asked_for

\* While the writer lives: the window next_to_apply .. next_never_asked_for
\* splits into the backlog and the requests being waited on, and outside
\* apply_from_backlog the needed block itself is being waited on.
Window ==
  /\ next_to_apply <= next_never_asked_for
  /\ \A i \in backlog : next_to_apply <= i /\ i < next_never_asked_for
  /\ \A i \in Blocks : next_to_apply < i /\ i < next_never_asked_for =>
       (i \in backlog <=> waited[i] = NotWaiting)
  /\ mpc = "backlog" /\ next_to_apply < next_never_asked_for =>
       (next_to_apply \in backlog <=> waited[next_to_apply] = NotWaiting)
  /\ mpc # "backlog" /\ next_to_apply < next_never_asked_for =>
       /\ next_to_apply \notin backlog
       /\ waited[next_to_apply] # NotWaiting

\* While the writer lives: the time tracker runs exactly while the master
\* sends, and the master has not panicked.
Tracker ==
  /\ tracking <=> mpc \in {"flush", "backlog"}
  /\ mpc # "panicked"

\* The first worker is never aborted and keeps working until all is applied.
FirstWorker ==
  /\ 1 \in handles
  /\ 1 \notin aborted
  /\ wpc[1] # "unborn"
  /\ next_to_apply < N => wpc[1] \notin {"exit", "dead"}
  /\ mpc = "done" => next_to_apply = N

\* The writer received 0, 1, 2, ... and the channel holds the next one.
Order ==
  /\ \A k \in 1..Len(received) : received[k] = k - 1
  /\ writer = "alive" =>
       next_to_apply = Len(received) + (IF chan = NoBlock THEN 0 ELSE 1)
  /\ chan # NoBlock => chan = Len(received)

\* The inductive invariant.
IInv ==
  /\ TypeOK
  /\ AskedFor
  /\ writer = "alive" => Window /\ Tracker /\ FirstWorker
  /\ Order

-----------------------------------------------------------------------------
\* What answering a worker may change.
AnswerEffect(nta, wt, can) ==
  /\ next_never_asked_for' \in 0..N
  /\ next_never_asked_for' \in {next_never_asked_for, next_never_asked_for + 1}
  /\ waited' \in [Blocks -> NotWaiting..(ReaskAfter + 1)]
  /\ \A i \in Blocks : i < next_never_asked_for =>
       (waited'[i] = NotWaiting <=> wt[i] = NotWaiting)
  /\ next_never_asked_for' = next_never_asked_for + 1 =>
       waited'[next_never_asked_for] # NotWaiting
  /\ mpc' \in {"check", "panicked"}
  /\ mpc' = "panicked" => ~can /\ Waiting(nta, wt) = {}
  /\ wpc' \in [Workers -> WorkerPcs]
  /\ job' \in [Workers -> Blocks \cup {NoBlock}]
  /\ \A v \in Workers : job'[v] < next_never_asked_for'
  /\ \A v \in Workers : wpc[v] # "unborn" => wpc'[v] # "unborn"
  /\ \A v \in Workers : wpc[v] \notin {"exit", "dead"} =>
       wpc'[v] # "dead" /\ (wpc'[v] = "exit" => nta >= N)

\* Whichever branch of find_next_best_job answers the worker, the effect is
\* confined to AnswerEffect.
LEMMA Answer ==
  ASSUME TypeOK, AskedFor,
         NEW w \in Workers,
         NEW nta \in 0..N, NEW wt \in [Blocks -> NotWaiting..(ReaskAfter + 1)],
         NEW can \in BOOLEAN, NEW then \in {"connect", "fetch"},
         FindNextBestJob(w, nta, wt, can, then)
  PROVE  AnswerEffect(nta, wt, can)
  <1> USE DEF Blocks
  <1>0. /\ N \in Nat /\ ReaskAfter \in Nat
        /\ next_never_asked_for \in 0..N
        /\ wpc \in [Workers -> WorkerPcs]
        /\ job \in [Workers -> Blocks \cup {NoBlock}]
        /\ \A v \in Workers : job[v] < next_never_asked_for
    BY BlockSyncAssumption DEF TypeOK, AskedFor
  <1>1. ASSUME NEW i \in Blocks, SendJob(w, i, then)
        PROVE  /\ wpc' \in [Workers -> WorkerPcs]
               /\ job' \in [Workers -> Blocks \cup {NoBlock}]
               /\ \A v \in Workers : job'[v] < next_never_asked_for \/ job'[v] = i
               /\ \A v \in Workers : wpc[v] # "unborn" => wpc'[v] # "unborn"
               /\ \A v \in Workers : wpc[v] \notin {"exit", "dead"} =>
                    wpc'[v] \notin {"exit", "dead"}
    BY <1>0, <1>1 DEF SendJob, WorkerPcs
  <1>2. ASSUME NEW i \in Waiting(nta, wt), waited' = [wt EXCEPT ![i] = 0],
               SendJob(w, i, then), mpc' = "check", UNCHANGED next_never_asked_for
        PROVE  AnswerEffect(nta, wt, can)
    <2>1. i \in Blocks /\ i < next_never_asked_for /\ wt[i] # NotWaiting
      BY <1>0 DEF Waiting
    <2>2. waited' \in [Blocks -> NotWaiting..(ReaskAfter + 1)]
      BY <1>0, <1>2, <2>1
    <2>3. \A j \in Blocks : waited'[j] = NotWaiting <=> wt[j] = NotWaiting
      BY <1>0, <1>2, <2>1
    <2> QED
      BY <1>0, <1>1, <1>2, <2>1, <2>2, <2>3 DEF AnswerEffect
  <1>3. ASSUME MoreToAskFor, waited' = [wt EXCEPT ![next_never_asked_for] = 0],
               next_never_asked_for' = next_never_asked_for + 1,
               SendJob(w, next_never_asked_for, then), mpc' = "check"
        PROVE  AnswerEffect(nta, wt, can)
    <2>1. next_never_asked_for \in Blocks
      BY <1>0, <1>3 DEF MoreToAskFor
    <2>2. waited' \in [Blocks -> NotWaiting..(ReaskAfter + 1)]
      BY <1>0, <1>3, <2>1
    <2>3. \A j \in Blocks : j < next_never_asked_for => waited'[j] = wt[j]
      BY <1>0, <1>3, <2>1
    <2>4. waited'[next_never_asked_for] = 0
      BY <1>0, <1>3, <2>1
    <2>5. \A v \in Workers : job'[v] < next_never_asked_for'
      <3>1. /\ job' \in [Workers -> Blocks \cup {NoBlock}]
            /\ \A v \in Workers : \/ job'[v] < next_never_asked_for
                                  \/ job'[v] = next_never_asked_for
        BY <1>1, <1>3, <2>1
      <3> QED
        BY <1>0, <1>3, <3>1
    <2> QED
      BY <1>0, <1>1, <1>3, <2>1, <2>2, <2>3, <2>4, <2>5 DEF AnswerEffect
  <1>4. ASSUME nta < next_never_asked_for, waited' = wt, SendJob(w, nta, then),
               mpc' = "check", UNCHANGED next_never_asked_for
        PROVE  AnswerEffect(nta, wt, can)
    <2>1. nta \in Blocks
      BY <1>0, <1>4
    <2> QED
      BY <1>0, <1>1, <1>4, <2>1 DEF AnswerEffect
  <1>5. ASSUME ~MoreToAskFor, nta >= next_never_asked_for, waited' = wt,
               DropSender(w), mpc' = "check", UNCHANGED next_never_asked_for
        PROVE  AnswerEffect(nta, wt, can)
    <2>1. nta >= N
      BY <1>0, <1>5 DEF MoreToAskFor
    <2>2. /\ wpc' \in [Workers -> WorkerPcs] /\ job' = job
          /\ \A v \in Workers : wpc[v] # "unborn" => wpc'[v] # "unborn"
          /\ \A v \in Workers : wpc[v] \notin {"exit", "dead"} => wpc'[v] # "dead"
      BY <1>0, <1>5 DEF DropSender, WorkerPcs
    <2> QED
      BY <1>0, <1>5, <2>1, <2>2 DEF AnswerEffect
  <1>6. ASSUME ~can, Waiting(nta, wt) = {}, mpc' = "panicked", waited' = wt,
               UNCHANGED <<next_never_asked_for, wpc, job>>
        PROVE  AnswerEffect(nta, wt, can)
    BY <1>0, <1>6 DEF AnswerEffect
  <1>7. \A i \in Overdue(nta, wt) : i \in Waiting(nta, wt)
    BY DEF Overdue
  <1> QED
    BY <1>2, <1>3, <1>4, <1>5, <1>6, <1>7 DEF FindNextBestJob

\* The window as a handler leaves it just before it answers the worker.
WindowBefore(nta, bl, wt) ==
  /\ nta <= next_never_asked_for
  /\ \A i \in bl : nta < i /\ i < next_never_asked_for
  /\ \A i \in Blocks : nta < i /\ i < next_never_asked_for =>
       (i \in bl <=> wt[i] = NotWaiting)
  /\ nta < next_never_asked_for => wt[nta] # NotWaiting

\* From such a window the answer is never panic!("uhhh"): a non-empty backlog
\* means that the needed block is still being waited on.
LEMMA AnswerWindow ==
  ASSUME TypeOK, AskedFor,
         NEW nta \in 0..N, NEW bl \in SUBSET Blocks,
         NEW wt \in [Blocks -> NotWaiting..(ReaskAfter + 1)],
         NEW can \in BOOLEAN, CanAdvance(bl) => can,
         WindowBefore(nta, bl, wt),
         AnswerEffect(nta, wt, can),
         next_to_apply' = nta, backlog' = bl
  PROVE  Window' /\ mpc' = "check"
  <1> USE DEF Blocks
  <1>0. N \in Nat /\ next_never_asked_for \in 0..N /\ BacklogLimit \in Nat
    BY BlockSyncAssumption DEF TypeOK
  <1>1. mpc' = "check"
    <2> SUFFICES ASSUME mpc' = "panicked" PROVE FALSE
      BY DEF AnswerEffect
    <2>1. ~CanAdvance(bl) /\ Waiting(nta, wt) = {}
      BY DEF AnswerEffect
    <2>2. bl # {}
      <3> SUFFICES ASSUME bl = {} PROVE FALSE
        OBVIOUS
      <3>1. Cardinality(bl) = 0
        BY FS_EmptySet, Zenon
      <3> QED
        BY <1>0, <2>1, <3>1 DEF CanAdvance
    <2>3. PICK i \in bl : nta < i /\ i < next_never_asked_for
      BY <2>2 DEF WindowBefore
    <2>4. nta \in nta..(next_never_asked_for - 1) /\ wt[nta] # NotWaiting
      BY <1>0, <2>3 DEF WindowBefore
    <2> QED
      BY <2>1, <2>4 DEF Waiting
  <1>2. Window'
    <2>1. next_never_asked_for' \in 0..N
          /\ next_never_asked_for <= next_never_asked_for'
          /\ \A i \in bl : nta < i /\ i < next_never_asked_for'
      BY <1>0 DEF AnswerEffect, WindowBefore
    <2>2. ASSUME NEW i \in Blocks, nta < i, i < next_never_asked_for'
          PROVE  i \in bl <=> waited'[i] = NotWaiting
      <3>1. CASE i < next_never_asked_for
        BY <1>0, <2>2, <3>1 DEF AnswerEffect, WindowBefore
      <3>2. CASE i = next_never_asked_for
        <4>1. i \notin bl
          BY <1>0, <2>2, <3>2 DEF WindowBefore
        <4>2. waited'[i] # NotWaiting
          BY <1>0, <2>2, <3>2 DEF AnswerEffect
        <4> QED
          BY <4>1, <4>2
      <3> QED
        BY <1>0, <2>2, <3>1, <3>2 DEF AnswerEffect
    <2>3. ASSUME nta < next_never_asked_for'
          PROVE  nta \notin bl /\ waited'[nta] # NotWaiting
      <3>1. nta \notin bl
        BY <1>0 DEF WindowBefore
      <3>2. CASE nta < next_never_asked_for
        BY <1>0, <3>1, <3>2 DEF AnswerEffect, WindowBefore
      <3>3. CASE nta = next_never_asked_for
        BY <1>0, <2>3, <3>1, <3>3 DEF AnswerEffect
      <3> QED
        BY <1>0, <2>3, <3>1, <3>2, <3>3 DEF WindowBefore
    <2> QED
      BY <1>0, <1>1, <2>1, <2>2, <2>3 DEF Window, WindowBefore
  <1> QED
    BY <1>1, <1>2

-----------------------------------------------------------------------------
\* The type invariant and AskedFor are preserved by every step.
LEMMA TypeStep ==
  ASSUME TypeOK, AskedFor, [Next]_vars
  PROVE  TypeOK' /\ AskedFor'
  <1>0. /\ N \in Nat \ {0} /\ ReaskAfter \in Nat /\ WorkerIds \in Nat
        /\ next_to_apply \in 0..N /\ next_never_asked_for \in 0..N
    BY BlockSyncAssumption DEF TypeOK
  <1>1. CASE MasterCheck \/ TickPanics \/ TickKeep
    BY <1>1 DEF MasterCheck, TickPanics, TickKeep, TypeOK, AskedFor, MasterPcs,
                workerVars, writerVars
  <1>2. CASE TickSpawn
    <2>1. spawned + 1 \in Workers /\ handles' \in SUBSET (1..(spawned + 1))
      BY <1>0, <1>2 DEF TickSpawn, TypeOK, Workers
    <2> QED
      BY <1>2, <2>1 DEF TickSpawn, TypeOK, AskedFor, MasterPcs, WorkerPcs, writerVars
  <1>3. CASE TickKill
    <2>1. PICK w \in handles : handles' = handles \ {w} /\ aborted' = aborted \cup {w}
      BY <1>3 DEF TickKill
    <2>2. w \in Workers
      BY <1>0 DEF TypeOK, Workers
    <2> QED
      BY <1>3, <2>1, <2>2 DEF TickKill, TypeOK, AskedFor, MasterPcs, writerVars
  <1>4. ASSUME NEW w \in Workers, NEW nta \in 0..N, NEW bl \in SUBSET Blocks,
               NEW wt \in [Blocks -> NotWaiting..(ReaskAfter + 1)],
               NEW can \in BOOLEAN, NEW then \in {"connect", "fetch"},
               FindNextBestJob(w, nta, wt, can, then),
               next_to_apply' = nta, backlog' = bl, tracking' \in BOOLEAN,
               inbox' = {} \/ inbox' = inbox,
               UNCHANGED <<serving, handles, spawned, aborted, chan, writer, received>>
        PROVE  TypeOK' /\ AskedFor'
    <2>1. AnswerEffect(nta, wt, can)
      BY <1>4, Answer
    <2>2. next_never_asked_for <= next_never_asked_for'
      BY <1>0, <2>1 DEF AnswerEffect
    <2>3. \A m \in inbox' : m.block < next_never_asked_for'
      <3>1. \A m \in inbox : m.block \in Int /\ m.block < next_never_asked_for
        BY <1>0 DEF TypeOK, AskedFor, Messages, Blocks
      <3> QED
        BY <1>0, <1>4, <2>1, <2>2, <3>1 DEF AnswerEffect
    <2>4. TypeOK'
      BY <1>0, <1>4, <2>1 DEF AnswerEffect, TypeOK, MasterPcs
    <2> QED
      BY <2>1, <2>3, <2>4 DEF AnswerEffect, AskedFor
  <1>5. CASE HandlePull
    <2>1. PICK m \in inbox :
            FindNextBestJob(m.from, next_to_apply, waited, TRUE, "connect")
      BY <1>5 DEF HandlePull
    <2> QED
      BY <1>0, <1>4, <1>5, <2>1 DEF HandlePull, TypeOK, Messages, writerVars
  <1>6. CASE HandleAhead
    <2>1. PICK m \in inbox :
            /\ Ahead(m.block)
            /\ backlog' = backlog \cup {m.block}
            /\ FindNextBestJob(m.from, next_to_apply, MarkFetched(waited, m.block),
                               CanAdvance(backlog'), "fetch")
      BY <1>6 DEF HandleAhead
    <2>2. m.from \in Workers /\ m.block \in Blocks
      BY <2>1 DEF TypeOK, Messages, Ahead
    <2>3. MarkFetched(waited, m.block) \in [Blocks -> NotWaiting..(ReaskAfter + 1)]
      BY <1>0, <2>2 DEF TypeOK, MarkFetched
    <2>4. backlog' \in SUBSET Blocks /\ CanAdvance(backlog') \in BOOLEAN
      BY <2>1, <2>2 DEF TypeOK, CanAdvance
    <2> QED
      BY <1>4, <1>6, <2>1, <2>2, <2>3, <2>4 DEF HandleAhead, TypeOK, writerVars
  <1>7. CASE HandleLate
    <2>1. PICK m \in inbox :
            FindNextBestJob(m.from, next_to_apply, waited, CanAdvance(backlog), "fetch")
      BY <1>7 DEF HandleLate
    <2>2. CanAdvance(backlog) \in BOOLEAN
      BY DEF CanAdvance
    <2>3. m.from \in Workers
      BY <2>1 DEF TypeOK, Messages
    <2> QED
      BY <1>0, <1>4, <1>7, <2>1, <2>2, <2>3 DEF HandleLate, TypeOK, writerVars
  <1>8. CASE HandleNeeded
    BY <1>0, <1>8 DEF HandleNeeded, TypeOK, AskedFor, MasterPcs, Messages, writerVars
  <1>9. CASE SendNeeded
    <2>1. next_to_apply \in Blocks /\ next_to_apply + 1 \in 0..N
      BY <1>0, <1>9 DEF SendNeeded, AskedFor, Blocks
    <2> QED
      BY <1>9, <2>1 DEF SendNeeded, TypeOK, AskedFor, MasterPcs, workerVars
  <1>10. CASE SendNeededFails
    <2>1. next_to_apply + 1 \in 0..N
      BY <1>0, <1>10 DEF SendNeededFails, AskedFor
    <2> QED
      BY <1>10, <2>1 DEF SendNeededFails, DropSender, TypeOK, AskedFor, MasterPcs,
                         WorkerPcs, writerVars
  <1>11. CASE ApplyFromBacklog
    <2>1. next_to_apply \in Blocks /\ next_to_apply + 1 \in 0..N
      BY <1>0, <1>11 DEF ApplyFromBacklog, BacklogHasNext, TypeOK, Blocks
    <2> QED
      BY <1>11, <2>1 DEF ApplyFromBacklog, TypeOK, AskedFor, MasterPcs, workerVars
  <1>12. ASSUME NEW nta \in 0..N, NEW bl \in SUBSET Blocks, FinishPush(nta, bl)
         PROVE  TypeOK' /\ AskedFor'
    <2>1. CanAdvance(bl) \in BOOLEAN
      BY DEF CanAdvance
    <2> QED
      BY <1>4, <1>12, <2>1 DEF FinishPush, TypeOK, writerVars
  <1>13. CASE BacklogApplied
    BY <1>0, <1>12, <1>13 DEF BacklogApplied, TypeOK
  <1>14. CASE ApplyFromBacklogFails
    <2>1. next_to_apply + 1 \in 0..N
      BY <1>0, <1>14 DEF ApplyFromBacklogFails, BacklogHasNext, TypeOK, Blocks
    <2> QED
      BY <1>12, <1>14, <2>1 DEF ApplyFromBacklogFails, TypeOK
  <1>15. ASSUME NEW w \in Workers, Worker(w)
         PROVE  TypeOK' /\ AskedFor'
    <2>1. CASE WorkerPull(w) \/ WorkerPush(w)
      <3>1. PICK i \in Blocks \cup {NoBlock} :
              i < next_never_asked_for /\ inbox' = {[from |-> w, block |-> i]}
        <4>1. job[w] \in Blocks \cup {NoBlock} /\ job[w] < next_never_asked_for
          BY DEF TypeOK, AskedFor
        <4>2. CASE WorkerPull(w)
          BY <1>0, <4>2 DEF WorkerPull
        <4>3. CASE WorkerPush(w)
          BY <4>1, <4>3 DEF WorkerPush
        <4> QED
          BY <2>1, <4>2, <4>3
      <3>2. inbox' \in SUBSET Messages /\ \A m \in inbox' : m.block < next_never_asked_for
        BY <3>1 DEF Messages
      <3> QED
        BY <2>1, <3>2 DEF WorkerPull, WorkerPush, TypeOK, AskedFor, WorkerPcs,
                          masterVars, writerVars
    <2>2. CASE WorkerConnect(w) \/ WorkerTimeout(w) \/ WorkerReceives(w)
               \/ WorkerGivesUp(w) \/ WorkerEnds(w)
      BY <2>2 DEF WorkerConnect, WorkerTimeout, WorkerReceives, WorkerGivesUp,
                  WorkerEnds, TypeOK, AskedFor, WorkerPcs, masterVars, writerVars
    <2> QED
      BY <1>15, <2>1, <2>2 DEF Worker
  <1>16. CASE WriterReceives
    BY <1>16 DEF WriterReceives, TypeOK, AskedFor, masterVars, workerVars
  <1>17. CASE WriterFails
    BY <1>17 DEF WriterFails, TypeOK, AskedFor, masterVars, workerVars
  <1>18. CASE Elapse
    <2>1. waited' \in [Blocks -> NotWaiting..(ReaskAfter + 1)]
      BY <1>0, <1>18 DEF Elapse, TypeOK
    <2> QED
      BY <1>18, <2>1 DEF Elapse, TypeOK, AskedFor, workerVars, writerVars
  <1>19. CASE UNCHANGED vars
    BY <1>19 DEF vars, masterVars, workerVars, writerVars, TypeOK, AskedFor
  <1> QED
    BY <1>1, <1>2, <1>3, <1>5, <1>6, <1>7, <1>8, <1>9, <1>10, <1>11, <1>13, <1>14,
       <1>15, <1>16, <1>17, <1>18, <1>19 DEF Next, Master, Terminated

-----------------------------------------------------------------------------
\* What holds while the writer lives is preserved by every step after which
\* it still lives.
Alive == Window /\ Tracker /\ FirstWorker

LEMMA AliveStep ==
  ASSUME IInv, [Next]_vars, writer' = "alive"
  PROVE  Alive'
  <1>0. /\ N \in Nat \ {0} /\ ReaskAfter \in Nat /\ WorkerIds \in Nat
        /\ next_to_apply \in 0..N /\ next_never_asked_for \in 0..N
        /\ TypeOK /\ AskedFor /\ 1 \in Workers
    BY BlockSyncAssumption DEF IInv, TypeOK, Workers
  <1>1. writer = "alive"
    <2>1. writer \in {"alive", "dead"}
      BY <1>0 DEF TypeOK
    <2> QED
      BY <2>1 DEF Next, Master, Worker, vars, masterVars, workerVars, writerVars,
         MasterCheck, TickPanics, TickKeep, TickSpawn, TickKill, HandlePull,
         HandleAhead, HandleLate, HandleNeeded, SendNeeded, SendNeededFails,
         ApplyFromBacklog, BacklogApplied, ApplyFromBacklogFails, FinishPush,
         WorkerPull, WorkerConnect, WorkerTimeout, WorkerReceives, WorkerPush,
         WorkerGivesUp, WorkerEnds, WriterReceives, WriterFails, Elapse, Terminated
  <1>2. Window /\ Tracker /\ FirstWorker
    BY <1>1 DEF IInv
  <1>3. CASE MasterCheck
    <2>1. mpc' = "done" => next_to_apply = N
      <3> SUFFICES ASSUME mpc' = "done" PROVE next_to_apply = N
        OBVIOUS
      <3>1. ~Running(1)
        BY <1>0, <1>3 DEF MasterCheck
      <3> QED
        BY <1>0, <1>2, <3>1 DEF Running, FirstWorker
    <2> QED
      BY <1>2, <1>3, <2>1 DEF MasterCheck, Alive, Window, Tracker, FirstWorker, workerVars
  <1>4. CASE TickPanics
    BY <1>2, <1>4 DEF TickPanics, Tracker
  <1>5. CASE TickKeep
    BY <1>2, <1>5 DEF TickKeep, Alive, Window, Tracker, FirstWorker, workerVars
  <1>6. CASE TickSpawn
    <2>1. spawned + 1 # 1
      BY <1>0 DEF TypeOK, Workers
    <2>2. wpc'[1] = wpc[1]
      BY <1>0, <1>6, <2>1 DEF TickSpawn, TypeOK
    <2> QED
      BY <1>2, <1>6, <2>2 DEF TickSpawn, Alive, Window, Tracker, FirstWorker
  <1>7. CASE TickKill
    <2>1. PICK w \in handles : /\ \A v \in handles : v <= w
                               /\ handles' = handles \ {w}
                               /\ aborted' = aborted \cup {w}
      BY <1>7 DEF TickKill
    <2>2. w # 1
      <3> SUFFICES ASSUME w = 1 PROVE FALSE
        OBVIOUS
      <3>1. handles = {1}
        <4>1. \A v \in handles : v \in 1..spawned /\ v <= 1
          BY <2>1, <1>0 DEF TypeOK
        <4>2. spawned \in Nat
          BY <1>0 DEF TypeOK, Workers
        <4>3. \A v \in handles : v = 1
          BY <4>1, <4>2
        <4> QED
          BY <4>3, <2>1
      <3>2. Cardinality(handles) = 1
        BY <3>1, FS_Singleton, Zenon
      <3> QED
        BY <1>7, <3>2 DEF TickKill, SpareWorker
    <2> QED
      BY <1>2, <1>7, <2>1, <2>2 DEF TickKill, Alive, Window, Tracker, FirstWorker
  <1>8. ASSUME NEW w \in Workers, NEW nta \in 0..N, NEW bl \in SUBSET Blocks,
               NEW wt \in [Blocks -> NotWaiting..(ReaskAfter + 1)],
               NEW can \in BOOLEAN, can = TRUE \/ can = CanAdvance(bl),
               NEW then \in {"connect", "fetch"},
               WindowBefore(nta, bl, wt), nta = next_to_apply,
               FindNextBestJob(w, nta, wt, can, then),
               next_to_apply' = nta, backlog' = bl, tracking' = FALSE,
               UNCHANGED <<handles, aborted>>
        PROVE  Alive'
    <2>1. AnswerEffect(nta, wt, can)
      BY <1>0, <1>8, Answer
    <2>2. Window' /\ mpc' = "check"
      BY <1>0, <1>8, <2>1, AnswerWindow
    <2>3. FirstWorker'
      BY <1>0, <1>2, <1>8, <2>1, <2>2 DEF FirstWorker, AnswerEffect
    <2> QED
      BY <1>8, <2>2, <2>3 DEF Alive, Tracker
  <1>9. mpc = "select" => WindowBefore(next_to_apply, backlog, waited) /\ tracking = FALSE
    <2> SUFFICES ASSUME mpc = "select"
                 PROVE  WindowBefore(next_to_apply, backlog, waited) /\ tracking = FALSE
      OBVIOUS
    <2>1. \A i \in backlog : i \in Int /\ next_to_apply # i
      BY <1>0, <1>2 DEF Window, TypeOK, Blocks
    <2>2. tracking = FALSE
      BY <1>0, <1>2 DEF Tracker, TypeOK
    <2> QED
      BY <1>0, <1>2, <2>1, <2>2 DEF Window, WindowBefore
  <1>10. CASE HandlePull
    <2>1. PICK m \in inbox :
            FindNextBestJob(m.from, next_to_apply, waited, TRUE, "connect")
      BY <1>10 DEF HandlePull
    <2>2. m.from \in Workers /\ waited \in [Blocks -> NotWaiting..(ReaskAfter + 1)]
          /\ backlog \in SUBSET Blocks
      BY <1>0, <2>1 DEF TypeOK, Messages
    <2> QED
      BY <1>0, <1>8, <1>9, <1>10, <2>1, <2>2 DEF HandlePull
  <1>11. CASE HandleAhead
    <2>1. PICK m \in inbox :
            /\ Ahead(m.block)
            /\ backlog' = backlog \cup {m.block}
            /\ FindNextBestJob(m.from, next_to_apply, MarkFetched(waited, m.block),
                               CanAdvance(backlog'), "fetch")
      BY <1>11 DEF HandleAhead
    <2>2. /\ m.from \in Workers /\ m.block \in Blocks
          /\ m.block > next_to_apply /\ m.block < next_never_asked_for
      BY <1>0, <2>1 DEF TypeOK, Messages, Ahead, AskedFor
    <2>3. MarkFetched(waited, m.block) \in [Blocks -> NotWaiting..(ReaskAfter + 1)]
      BY <1>0, <2>2 DEF TypeOK, MarkFetched
    <2>4. backlog' \in SUBSET Blocks /\ CanAdvance(backlog') \in BOOLEAN
      BY <1>0, <2>1, <2>2 DEF TypeOK, CanAdvance
    <2>5. /\ MarkFetched(waited, m.block)[m.block] = NotWaiting
          /\ \A i \in Blocks : i # m.block => MarkFetched(waited, m.block)[i] = waited[i]
      BY <1>0, <2>2 DEF TypeOK, MarkFetched
    <2>6. WindowBefore(next_to_apply, backlog', MarkFetched(waited, m.block))
      <3>1. WindowBefore(next_to_apply, backlog, waited)
        BY <1>9, <1>11 DEF HandleAhead
      <3>2. next_to_apply \in Blocks /\ next_to_apply # m.block
        BY <1>0, <2>2 DEF Blocks
      <3> QED
        BY <2>1, <2>2, <2>5, <3>1, <3>2 DEF WindowBefore
    <2>7. tracking' = FALSE /\ next_to_apply' = next_to_apply /\ UNCHANGED <<handles, aborted>>
      BY <1>9, <1>11 DEF HandleAhead
    <2> QED
      BY <1>0, <1>8, <2>1, <2>2, <2>3, <2>4, <2>6, <2>7
  <1>12. CASE HandleLate
    <2>1. PICK m \in inbox :
            FindNextBestJob(m.from, next_to_apply, waited, CanAdvance(backlog), "fetch")
      BY <1>12 DEF HandleLate
    <2>2. m.from \in Workers /\ waited \in [Blocks -> NotWaiting..(ReaskAfter + 1)]
          /\ backlog \in SUBSET Blocks /\ CanAdvance(backlog) \in BOOLEAN
      BY <1>0, <2>1 DEF TypeOK, Messages, CanAdvance
    <2> QED
      BY <1>0, <1>8, <1>9, <1>12, <2>1, <2>2 DEF HandleLate
  <1>13. CASE HandleNeeded
    <2>1. mpc = "select" /\ tracking = FALSE /\ mpc' = "flush" /\ tracking' = TRUE
      BY <1>9, <1>13 DEF HandleNeeded
    <2> QED
      BY <1>2, <1>13, <2>1 DEF HandleNeeded, Alive, Window, Tracker, FirstWorker
  <1>14. CASE SendNeeded
    <2>1. /\ next_to_apply < next_never_asked_for /\ next_to_apply \notin backlog
          /\ mpc = "flush" /\ mpc' = "backlog" /\ next_to_apply' = next_to_apply + 1
          /\ UNCHANGED <<backlog, waited, next_never_asked_for>>
      BY <1>0, <1>2, <1>14 DEF SendNeeded, AskedFor, Window
    <2>2. Window'
      <3>1. \A i \in backlog : i \in Int
        BY <1>0 DEF TypeOK, Blocks
      <3> QED
        BY <1>0, <1>2, <2>1, <3>1 DEF Window, Blocks
    <2> QED
      BY <1>0, <1>2, <1>14, <2>1, <2>2 DEF SendNeeded, Alive, Tracker, FirstWorker, workerVars
  <1>15. CASE SendNeededFails \/ ApplyFromBacklogFails
    BY <1>1, <1>15 DEF SendNeededFails, ApplyFromBacklogFails
  <1>16. CASE ApplyFromBacklog
    <2>1. /\ next_to_apply \in backlog /\ next_to_apply < next_never_asked_for
          /\ mpc = "backlog" /\ mpc' = "backlog" /\ next_to_apply' = next_to_apply + 1
          /\ backlog' = backlog \ {next_to_apply}
          /\ UNCHANGED <<waited, next_never_asked_for>>
      BY <1>2, <1>16 DEF ApplyFromBacklog, BacklogHasNext, Window
    <2>2. Window'
      <3>1. \A i \in backlog : i \in Int
        BY <1>0 DEF TypeOK, Blocks
      <3> QED
        BY <1>0, <1>2, <2>1, <3>1 DEF Window, Blocks
    <2> QED
      BY <1>0, <1>2, <1>16, <2>1, <2>2 DEF ApplyFromBacklog, Alive, Tracker, FirstWorker, workerVars
  <1>17. CASE BacklogApplied
    <2>1. mpc = "backlog" /\ next_to_apply \notin backlog
          /\ FinishPush(next_to_apply, backlog)
      BY <1>17 DEF BacklogApplied, BacklogHasNext
    <2>2. WindowBefore(next_to_apply, backlog, waited)
      <3>1. \A i \in backlog : i \in Int /\ next_to_apply # i
        BY <1>0, <2>1 DEF TypeOK, Blocks
      <3> QED
        BY <1>0, <1>2, <2>1, <3>1 DEF Window, WindowBefore
    <2>3. serving \in Workers /\ waited \in [Blocks -> NotWaiting..(ReaskAfter + 1)]
          /\ backlog \in SUBSET Blocks /\ CanAdvance(backlog) \in BOOLEAN
      BY <1>0 DEF TypeOK, CanAdvance
    <2> QED
      BY <1>0, <1>8, <2>1, <2>2, <2>3 DEF FinishPush
  <1>18. ASSUME NEW w \in Workers, Worker(w)
         PROVE  Alive'
    <2>1. /\ wpc'[1] # "unborn"
          /\ next_to_apply < N => wpc'[1] \notin {"exit", "dead"}
      <3>1. CASE w # 1
        BY <1>0, <1>2, <1>18, <3>1 DEF Worker, WorkerPull, WorkerConnect, WorkerTimeout,
           WorkerReceives, WorkerPush, WorkerGivesUp, WorkerEnds, FirstWorker, TypeOK
      <3>2. CASE w = 1
        <4>1. WorkerGivesUp(1) => next_to_apply = N
          BY <1>0, <1>2 DEF WorkerGivesUp, MasterRunning, FirstWorker, Tracker, TypeOK, MasterPcs
        <4>2. WorkerEnds(1) => wpc[1] = "exit"
          BY <1>2 DEF WorkerEnds, FirstWorker
        <4> QED
          BY <1>0, <1>2, <1>18, <3>2, <4>1, <4>2 DEF Worker, WorkerPull, WorkerConnect,
             WorkerTimeout, WorkerReceives, WorkerPush, WorkerGivesUp, WorkerEnds,
             FirstWorker, TypeOK
      <3> QED
        BY <3>1, <3>2
    <2>2. UNCHANGED <<masterVars, aborted>>
      BY <1>18 DEF Worker, WorkerPull, WorkerConnect, WorkerTimeout, WorkerReceives,
                   WorkerPush, WorkerGivesUp, WorkerEnds
    <2> QED
      BY <1>2, <2>1, <2>2 DEF Alive, Window, Tracker, FirstWorker, masterVars
  <1>19. CASE WriterReceives \/ WriterFails \/ Terminated \/ UNCHANGED vars
    <2>1. UNCHANGED <<masterVars, workerVars>>
      BY <1>19 DEF WriterReceives, WriterFails, Terminated, vars
    <2> QED
      BY <1>2, <2>1 DEF masterVars, workerVars, Alive, Window, Tracker, FirstWorker
  <1>20. CASE Elapse
    <2>1. \A i \in Blocks : waited'[i] = NotWaiting <=> waited[i] = NotWaiting
      BY <1>0, <1>20 DEF Elapse, TypeOK
    <2>2. next_to_apply < next_never_asked_for => next_to_apply \in Blocks
      BY <1>0 DEF Blocks
    <2>3. UNCHANGED <<next_to_apply, next_never_asked_for, backlog, mpc, tracking,
                      handles, aborted, wpc>>
      BY <1>20 DEF Elapse, workerVars
    <2>4. Window'
      BY <1>2, <2>1, <2>2, <2>3 DEF Window
    <2> QED
      BY <1>2, <2>3, <2>4 DEF Alive, Tracker, FirstWorker
  <1> QED
    BY <1>3, <1>4, <1>5, <1>6, <1>7, <1>10, <1>11, <1>12, <1>13, <1>14, <1>15, <1>16,
       <1>17, <1>18, <1>19, <1>20 DEF Next, Master

-----------------------------------------------------------------------------
\* The order of what the writer received is preserved by every step.
LEMMA OrderStep ==
  ASSUME IInv, [Next]_vars
  PROVE  Order'
  <1>0. /\ N \in Nat /\ next_to_apply \in 0..N /\ received \in Seq(Blocks)
        /\ chan \in Blocks \cup {NoBlock} /\ writer \in {"alive", "dead"}
        /\ Order
    BY BlockSyncAssumption DEF IInv, TypeOK
  <1>1. CASE SendNeeded \/ ApplyFromBacklog
    <2>1. /\ chan = NoBlock /\ chan' = next_to_apply /\ writer = "alive"
          /\ next_to_apply' = next_to_apply + 1 /\ UNCHANGED <<writer, received>>
      BY <1>1 DEF SendNeeded, ApplyFromBacklog
    <2> QED
      BY <1>0, <2>1 DEF Order
  <1>2. CASE WriterReceives
    <2>1. /\ chan # NoBlock /\ chan' = NoBlock /\ received' = Append(received, chan)
          /\ UNCHANGED <<writer, next_to_apply>>
      BY <1>2 DEF WriterReceives, masterVars
    <2>2. chan \in Blocks /\ chan = Len(received)
      BY <1>0, <2>1 DEF Order
    <2>3. /\ Len(received') = Len(received) + 1
          /\ \A k \in 1..Len(received) : received'[k] = received[k]
          /\ received'[Len(received) + 1] = chan
      BY <1>0, <2>1, <2>2
    <2>4. Len(received) \in Nat
      BY <1>0
    <2>5. \A k \in 1..Len(received') : received'[k] = k - 1
      BY <1>0, <2>2, <2>3, <2>4 DEF Order
    <2> QED
      BY <1>0, <2>1, <2>2, <2>3, <2>4, <2>5 DEF Order
  <1>3. CASE WriterFails
    BY <1>0, <1>3 DEF WriterFails, Order
  <1>4. CASE SendNeededFails \/ ApplyFromBacklogFails
    <2>1. writer = "dead" /\ UNCHANGED <<chan, writer, received>>
      BY <1>4 DEF SendNeededFails, ApplyFromBacklogFails, FinishPush, writerVars
    <2> QED
      BY <1>0, <2>1 DEF Order
  <1>5. CASE MasterCheck \/ TickPanics \/ TickKeep \/ TickSpawn \/ TickKill
             \/ HandlePull \/ HandleAhead \/ HandleLate \/ HandleNeeded
             \/ BacklogApplied \/ (\E w \in Workers : Worker(w)) \/ Elapse
             \/ Terminated \/ UNCHANGED vars
    <2>1. UNCHANGED <<next_to_apply, chan, writer, received>>
      BY <1>5 DEF MasterCheck, TickPanics, TickKeep, TickSpawn, TickKill, HandlePull,
         HandleAhead, HandleLate, HandleNeeded, BacklogApplied, FinishPush, Worker,
         WorkerPull, WorkerConnect, WorkerTimeout, WorkerReceives, WorkerPush,
         WorkerGivesUp, WorkerEnds, Elapse, Terminated, vars, masterVars, writerVars
    <2> QED
      BY <1>0, <2>1 DEF Order
  <1> QED
    BY <1>1, <1>2, <1>3, <1>4, <1>5 DEF Next, Master

\* IInv is inductive.
LEMMA InductiveInvariant == Spec => []IInv
  <1>1. Init => IInv
    <2> SUFFICES ASSUME Init PROVE IInv
      OBVIOUS
    <2>0. /\ N \in Nat \ {0} /\ InitialWorkers \in Nat \ {0} /\ WorkerIds \in Nat
          /\ InitialWorkers <= WorkerIds /\ ReaskAfter \in Nat
      BY BlockSyncAssumption
    <2>1. 1 \in Workers /\ InitialWorkers \in Workers
      BY <2>0 DEF Workers
    <2>2. TypeOK
      <3>1. handles \in SUBSET (1..spawned)
        BY DEF Init
      <3>2. wpc \in [Workers -> WorkerPcs]
        BY DEF Init, WorkerPcs
      <3>3. waited \in [Blocks -> NotWaiting..(ReaskAfter + 1)]
        BY <2>0 DEF Init
      <3>4. received \in Seq(Blocks)
        BY DEF Init
      <3>5. job \in [Workers -> Blocks \cup {NoBlock}] /\ chan \in Blocks \cup {NoBlock}
        BY DEF Init
      <3>6. /\ next_to_apply \in 0..N /\ next_never_asked_for \in 0..N
            /\ serving \in Workers /\ spawned \in Workers
        BY <2>0, <2>1 DEF Init
      <3>7. /\ backlog \in SUBSET Blocks /\ inbox \in SUBSET Messages
            /\ aborted \in SUBSET Workers
        BY DEF Init
      <3>8. tracking \in BOOLEAN /\ mpc \in MasterPcs /\ writer \in {"alive", "dead"}
        BY DEF Init, MasterPcs
      <3> QED
        BY <3>1, <3>2, <3>3, <3>4, <3>5, <3>6, <3>7, <3>8 DEF TypeOK
    <2>3. AskedFor
      BY <2>0 DEF Init, AskedFor
    <2>4. Window /\ Tracker
      BY <2>0 DEF Init, Window, Tracker, Blocks
    <2>5. FirstWorker
      BY <2>0, <2>1 DEF Init, FirstWorker
    <2>6. Order
      BY <2>0 DEF Init, Order
    <2> QED
      BY <2>2, <2>3, <2>4, <2>5, <2>6 DEF IInv
  <1>2. IInv /\ [Next]_vars => IInv'
    <2> SUFFICES ASSUME IInv, [Next]_vars PROVE IInv'
      OBVIOUS
    <2>1. TypeOK' /\ AskedFor'
      BY TypeStep DEF IInv
    <2>2. writer' = "alive" => Window' /\ Tracker' /\ FirstWorker'
      BY AliveStep DEF Alive
    <2>3. Order'
      BY OrderStep
    <2> QED
      BY <2>1, <2>2, <2>3 DEF IInv
  <1> QED
    BY <1>1, <1>2, PTL DEF Spec

-----------------------------------------------------------------------------
\* Every reachable state of the master, its workers and the channel to the
\* writer is well typed.
THEOREM TypeCorrect == Spec => []TypeOK
  <1>1. IInv => TypeOK
    BY DEF IInv
  <1> QED
    BY <1>1, InductiveInvariant, PTL

\* While the writer lives, last_request_times and the backlog agree.
THEOREM BacklogCorrect == Spec => []BacklogMatchesRequests
  <1>1. IInv => BacklogMatchesRequests
    <2> SUFFICES ASSUME IInv, writer = "alive" PROVE BacklogMatchesRequests
      BY DEF BacklogMatchesRequests
    <2>0. /\ N \in Nat /\ next_to_apply \in 0..N /\ next_never_asked_for \in 0..N
          /\ backlog \in SUBSET Blocks /\ Window
      BY BlockSyncAssumption DEF IInv, TypeOK
    <2> DEFINE Skipped == {i \in (next_to_apply + 1)..(next_never_asked_for - 1) :
                             waited[i] = NotWaiting}
               Due == IF mpc = "backlog" /\ next_to_apply < next_never_asked_for
                         /\ waited[next_to_apply] = NotWaiting
                      THEN {next_to_apply} ELSE {}
    <2>1. ASSUME NEW i \in backlog PROVE i \in Skipped \cup Due
      <3>1. i \in Blocks /\ i \in Int /\ next_to_apply <= i /\ i < next_never_asked_for
        BY <2>0 DEF Window, Blocks
      <3>2. CASE i = next_to_apply
        BY <2>0, <2>1, <3>1, <3>2 DEF Window
      <3>3. CASE i # next_to_apply
        BY <2>0, <2>1, <3>1, <3>3 DEF Window
      <3> QED
        BY <3>2, <3>3
    <2>2. ASSUME NEW i \in Skipped \cup Due PROVE i \in backlog
      <3>1. CASE i \in Skipped
        BY <2>0, <3>1 DEF Window, Blocks
      <3>2. CASE i \in Due
        BY <2>0, <3>2 DEF Window
      <3> QED
        BY <2>2, <3>1, <3>2
    <2> QED
      BY <2>1, <2>2 DEF BacklogMatchesRequests
  <1> QED
    BY <1>1, InductiveInvariant, PTL

\* panic!("uhhh") and the time tracker's panics are unreachable while the
\* writer lives.
THEOREM MasterNeverPanics == Spec => []NoMasterPanic
  <1>1. IInv => NoMasterPanic
    BY DEF IInv, NoMasterPanic, Tracker
  <1> QED
    BY <1>1, InductiveInvariant, PTL

\* The master stops only after every block was handed to the writer.
THEOREM NeverStopsEarly == Spec => []NoEarlyStop
  <1>1. IInv => NoEarlyStop
    BY DEF IInv, NoEarlyStop, FirstWorker
  <1> QED
    BY <1>1, InductiveInvariant, PTL

\* The download implements the ordered delivery the block writer relies on.
THEOREM DeliversInOrder == Spec => ImplementsDelivery
  <1>1. Init => Delivery!Init
    BY DEF Init, Delivery!Init
  <1>2. IInv /\ IInv' /\ [Next]_vars => [Delivery!Next]_(Delivery!vars)
    <2> SUFFICES ASSUME IInv, IInv', [Next]_vars
                 PROVE  Delivery!Deliver \/ Delivery!Break \/ Delivery!Finish
                        \/ UNCHANGED Delivery!vars
      BY DEF Delivery!Next
    <2>0. /\ N \in Nat /\ received \in Seq(Blocks) /\ Len(received) \in Nat
          /\ chan \in Blocks \cup {NoBlock} /\ writer \in {"alive", "dead"} /\ Order
          /\ writer = "alive" /\ mpc = "done" => next_to_apply = N
      BY BlockSyncAssumption DEF IInv, TypeOK, FirstWorker
    <2>1. CASE WriterReceives
      <3>1. /\ chan # NoBlock /\ chan' = NoBlock /\ received' = Append(received, chan)
            /\ writer = "alive" /\ UNCHANGED <<writer, mpc>>
        BY <2>1 DEF WriterReceives, masterVars
      <3>2. chan = Len(received) /\ Len(received) < N
        BY <2>0, <3>1 DEF Order, Blocks
      <3>3. mpc = "done" => Len(received) + 1 = N
        BY <2>0, <3>1 DEF Order
      <3> QED
        BY <3>1, <3>2, <3>3 DEF Delivery!Deliver
    <2>2. CASE WriterFails
      BY <2>2 DEF WriterFails, Delivery!Break
    <2>3. CASE MasterCheck
      <3>1. mpc = "check" /\ UNCHANGED <<chan, writer, received>>
        BY <2>3 DEF MasterCheck, writerVars
      <3>2. CASE mpc' = "done" /\ chan = NoBlock
        <4>1. writer = "dead" \/ Len(received) = N
          <5>1. writer' = "alive" => next_to_apply' = N
            BY <3>2 DEF IInv, FirstWorker
          <5>2. next_to_apply' = next_to_apply
            BY <2>3 DEF MasterCheck
          <5> QED
            BY <2>0, <3>1, <3>2, <5>1, <5>2 DEF Order
        <4> QED
          BY <3>1, <3>2, <4>1 DEF Delivery!Finish
      <3>3. CASE ~(mpc' = "done" /\ chan = NoBlock)
        BY <3>1, <3>3 DEF Delivery!vars
      <3> QED
        BY <3>2, <3>3
    <2>4. CASE SendNeeded \/ ApplyFromBacklog
      BY <2>4 DEF SendNeeded, ApplyFromBacklog, Delivery!vars
    <2>5. ASSUME NEW w \in Workers, NEW nta, NEW wt, NEW can, NEW then,
                 FindNextBestJob(w, nta, wt, can, then)
          PROVE  mpc' # "done"
      BY <2>5 DEF FindNextBestJob
    <2>6. CASE HandlePull \/ HandleAhead \/ HandleLate \/ BacklogApplied
               \/ ApplyFromBacklogFails
      <3>1. mpc # "done" /\ mpc' # "done" /\ UNCHANGED <<chan, writer, received>>
        <4>1. \A m \in inbox : m.from \in Workers
          BY DEF IInv, TypeOK, Messages
        <4>2. serving \in Workers
          BY DEF IInv, TypeOK
        <4> QED
          BY <2>5, <2>6, <4>1, <4>2 DEF HandlePull, HandleAhead, HandleLate,
             BacklogApplied, ApplyFromBacklogFails, FinishPush, writerVars
      <3> QED
        BY <3>1 DEF Delivery!vars
    <2>7. CASE TickPanics \/ TickKeep \/ TickSpawn \/ TickKill \/ HandleNeeded
               \/ SendNeededFails
      <3>1. mpc # "done" /\ mpc' # "done" /\ UNCHANGED <<chan, writer, received>>
        BY <2>7 DEF TickPanics, TickKeep, TickSpawn, TickKill, HandleNeeded,
                    SendNeededFails, writerVars
      <3> QED
        BY <3>1 DEF Delivery!vars
    <2>8. CASE (\E w \in Workers : Worker(w)) \/ Elapse \/ Terminated \/ UNCHANGED vars
      <3>1. UNCHANGED <<mpc, chan, writer, received>>
        BY <2>8 DEF Worker, WorkerPull, WorkerConnect, WorkerTimeout, WorkerReceives,
           WorkerPush, WorkerGivesUp, WorkerEnds, Elapse, Terminated, vars,
           masterVars, writerVars
      <3> QED
        BY <3>1 DEF Delivery!vars
    <2> QED
      BY <2>1, <2>2, <2>3, <2>4, <2>6, <2>7, <2>8 DEF Next, Master
  <1> QED
    BY <1>1, <1>2, InductiveInvariant, PTL DEF Spec, ImplementsDelivery, Delivery!Spec
=============================================================================

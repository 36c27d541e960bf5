----------------------------- MODULE ArenaPool -----------------------------
(***************************************************************************)
(* The pool of deserialisation arenas (packets/arenapool.rs).  Every       *)
(* connection takes an arena for each packet it reads and gives it back    *)
(* when the packet is dropped.  The block download raises the limit when   *)
(* it starts and restores it when it ends (chainman/blocksync.rs), and the *)
(* users move the pool's size towards the limit with compare-and-swap      *)
(* loops: one who was handed an arena too many drops it, one who waited in *)
(* vain adds one.  The two atomics are read one after the other, so that   *)
(* the size and the limit a user compares may both be out of date.         *)
(*                                                                         *)
(* The queue of idle arenas is deadpool's unmanaged pool: external, a      *)
(* count here.  The contents of an arena are the business of Arena.tla.    *)
(***************************************************************************)
EXTENDS Integers, FiniteSets

CONSTANTS
    Users,          \* tasks that read packets
    InitialLimit,   \* INITIAL_*_DESERIALIZE_ARENAS_COUNT
    SyncLimit       \* *_DESERIALIZE_ARENAS_COUNT_BLOCKSYNC

ASSUME PoolAssumption ==
    /\ IsFiniteSet(Users)
    /\ InitialLimit \in Nat
    /\ SyncLimit \in Nat

VARIABLES
    idle,       \* arenas waiting in the pool
    current_size,
    current_limit,
    at,         \* where each user is in get_arena
    seenSize,   \* its local current_size
    seenLimit   \* its local limit

poolVars == <<idle, current_size, current_limit, at, seenSize, seenLimit>>

\* A user is outside, waits for the pool, or is at one of the loads and swaps;
\* "drop" and "add" are between a successful swap and Object::take, try_add.
Places == {"out", "wait", "gotSize", "gotLimit", "shrink", "drop",
           "lateSize", "lateLimit", "grow", "add", "hold"}

PoolInit ==
    /\ idle = InitialLimit
    /\ current_size = InitialLimit
    /\ current_limit = InitialLimit
    /\ at = [u \in Users |-> "out"]
    /\ seenSize = [u \in Users |-> 0]
    /\ seenLimit = [u \in Users |-> 0]

\* blocksync: the limit is raised before the download and restored after it.
SetLimit ==
    /\ current_limit' \in {InitialLimit, SyncLimit}
    /\ UNCHANGED <<idle, current_size, at, seenSize, seenLimit>>

Call(u) ==
    /\ at[u] = "out"
    /\ at' = [at EXCEPT ![u] = "wait"]
    /\ UNCHANGED <<idle, current_size, current_limit, seenSize, seenLimit>>

\* self.pool.get() hands out an arena.
Obtain(u) ==
    /\ at[u] = "wait"
    /\ idle > 0
    /\ idle' = idle - 1
    /\ at' = [at EXCEPT ![u] = "gotSize"]
    /\ UNCHANGED <<current_size, current_limit, seenSize, seenLimit>>

\* self.pool.get() gives up after DESERIALIZE_POOL_TIMEOUT.
TimeOut(u) ==
    /\ at[u] = "wait"
    /\ idle = 0
    /\ at' = [at EXCEPT ![u] = "lateSize"]
    /\ UNCHANGED <<idle, current_size, current_limit, seenSize, seenLimit>>

LoadSize(u) ==
    /\ at[u] \in {"gotSize", "lateSize"}
    /\ seenSize' = [seenSize EXCEPT ![u] = current_size]
    /\ at' = [at EXCEPT ![u] = IF @ = "gotSize" THEN "gotLimit" ELSE "lateLimit"]
    /\ UNCHANGED <<idle, current_size, current_limit, seenLimit>>

\* With an arena in hand: keep it unless the pool is over its limit.
LoadLimitToKeep(u) ==
    /\ at[u] = "gotLimit"
    /\ seenLimit' = [seenLimit EXCEPT ![u] = current_limit]
    /\ at' = [at EXCEPT ![u] = IF seenSize[u] <= current_limit THEN "hold" ELSE "shrink"]
    /\ UNCHANGED <<idle, current_size, current_limit, seenSize>>

\* Without one: go and wait again unless the pool is below its limit.
LoadLimitToAdd(u) ==
    /\ at[u] = "lateLimit"
    /\ seenLimit' = [seenLimit EXCEPT ![u] = current_limit]
    /\ at' = [at EXCEPT ![u] = IF seenSize[u] < current_limit THEN "grow" ELSE "wait"]
    /\ UNCHANGED <<idle, current_size, current_limit, seenSize>>

ShrinkOk_NoSwap(u) ==
    /\ at[u] = "shrink"
    /\ current_size' = current_size - 1
    /\ at' = [at EXCEPT ![u] = "drop"]
    /\ UNCHANGED <<idle, current_limit, seenSize, seenLimit>>

ShrinkOk(u) ==
    /\ at[u] = "shrink"
    /\ current_size = seenSize[u]
    /\ current_size' = current_size - 1
    /\ at' = [at EXCEPT ![u] = "drop"]
    /\ UNCHANGED <<idle, current_limit, seenSize, seenLimit>>

\* The swap fails (or fails spuriously): the loop ends when the size read now
\* is within the limit read before, and the arena goes back to the pool.
ShrinkFail(u) ==
    /\ at[u] = "shrink"
    /\ seenSize' = [seenSize EXCEPT ![u] = current_size]
    /\ IF current_size > seenLimit[u]
       THEN UNCHANGED <<at, idle>>
       ELSE /\ at' = [at EXCEPT ![u] = "wait"]
            /\ idle' = idle + 1
    /\ UNCHANGED <<current_size, current_limit, seenLimit>>

\* Object::take: the arena leaves the pool and is freed.
DropArena(u) ==
    /\ at[u] = "drop"
    /\ at' = [at EXCEPT ![u] = "wait"]
    /\ UNCHANGED <<idle, current_size, current_limit, seenSize, seenLimit>>

GrowOk(u) ==
    /\ at[u] = "grow"
    /\ current_size = seenSize[u]
    /\ current_size' = current_size + 1
    /\ at' = [at EXCEPT ![u] = "add"]
    /\ UNCHANGED <<idle, current_limit, seenSize, seenLimit>>

GrowFail(u) ==
    /\ at[u] = "grow"
    /\ seenSize' = [seenSize EXCEPT ![u] = current_size]
    /\ at' = [at EXCEPT ![u] = IF current_size < seenLimit[u] THEN "grow" ELSE "wait"]
    /\ UNCHANGED <<idle, current_size, current_limit, seenLimit>>

\* try_add: the new arena joins the idle ones, and its maker queues again.
AddArena(u) ==
    /\ at[u] = "add"
    /\ at' = [at EXCEPT ![u] = "wait"]
    /\ idle' = idle + 1
    /\ UNCHANGED <<current_size, current_limit, seenSize, seenLimit>>

\* The packet is dropped, and the arena with it: Object's drop returns it.
GiveBack(u) ==
    /\ at[u] = "hold"
    /\ at' = [at EXCEPT ![u] = "out"]
    /\ idle' = idle + 1
    /\ UNCHANGED <<current_size, current_limit, seenSize, seenLimit>>

PoolNext ==
    \/ SetLimit
    \/ \E u \in Users :
          \/ Call(u) \/ Obtain(u) \/ TimeOut(u) \/ LoadSize(u)
          \/ LoadLimitToKeep(u) \/ LoadLimitToAdd(u)
          \/ ShrinkOk(u) \/ ShrinkFail(u) \/ DropArena(u)
          \/ GrowOk(u) \/ GrowFail(u) \/ AddArena(u) \/ GiveBack(u)

PoolSpec == PoolInit /\ [][PoolNext]_poolVars

(***************************************************************************)
(* Properties.                                                             *)
(***************************************************************************)
\* Users with an arena in hand, and users who owe the pool one.
Holding == {u \in Users : at[u] \in {"gotSize", "gotLimit", "shrink", "hold"}}
Adding == {u \in Users : at[u] = "add"}

LowLimit == IF InitialLimit < SyncLimit THEN InitialLimit ELSE SyncLimit
HighLimit == IF InitialLimit < SyncLimit THEN SyncLimit ELSE InitialLimit

\* However the swaps of get_arena and the moves of the limit interleave,
\* current_size counts exactly the arenas there are (idle, in someone's
\* hands, or about to be added: none is lost, none is counted twice), and it
\* never leaves the range between the two limits although every user works
\* with a size and a limit it read earlier.
PoolAccounted ==
    /\ current_size = idle + Cardinality(Holding) + Cardinality(Adding)
    /\ LowLimit <= current_size
    /\ current_size <= HighLimit
=============================================================================

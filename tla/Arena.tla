------------------------------- MODULE Arena -------------------------------
(***************************************************************************)
(* The bump allocator (util/arena.rs).  Threads that analyse the blocks of *)
(* a batch share one arena: each reads `consumed`, computes the padding    *)
(* its type needs and moves `consumed` with a compare-and-swap, starting   *)
(* over with the value it found when another thread was faster.  An arena  *)
(* that is full panics.  The memory itself is allocated with alignment 1,  *)
(* so its address is arbitrary.                                            *)
(***************************************************************************)
EXTENDS Integers

CONSTANTS
    Threads,    \* threads that allocate from the arena
    Capacity,   \* its size in bytes
    Addresses,  \* addresses the memory may start at
    Requests    \* what is asked for: [size, align, kind]

ASSUME ArenaAssumption ==
    /\ Capacity \in Nat
    /\ Addresses \subseteq Nat
    /\ Requests \subseteq [size : Nat, align : {1, 2, 4, 8}, kind : {"value", "array"}]
    /\ Requests # {}

VARIABLES
    data,       \* the address of the arena
    consumed,
    stage,      \* what each thread does: nothing, swap, or dead by the panic
    asked,      \* the request it serves
    seen,       \* its currently_consumed
    allocs      \* the allocations handed out since the last reset

arenaVars == <<data, consumed, stage, asked, seen, allocs>>

\* The bytes skipped so that an object at `offset` is aligned.
Padding(offset, align) == (align - ((data + offset) % align)) % align

Needed(offset, r) == offset + Padding(offset, r.align) + r.size

\* try_alloc writes at currently_consumed, the array allocators after the
\* padding, although all of them reserve it.
Location(offset, r) ==
    IF r.kind = "value" THEN offset ELSE offset + Padding(offset, r.align)

ArenaInit ==
    /\ data \in Addresses
    /\ consumed = 0
    /\ stage = [t \in Threads |-> "idle"]
    /\ asked = [t \in Threads |-> CHOOSE r \in Requests : TRUE]
    /\ seen = [t \in Threads |-> 0]
    /\ allocs = {}

\* Loading `consumed`, on entry or from a failed swap, and the loop's test.
Reload(t, r) ==
    /\ seen' = [seen EXCEPT ![t] = consumed]
    /\ stage' = [stage EXCEPT ![t] = IF Needed(consumed, r) <= Capacity
                                     THEN "swap" ELSE "dead"]
    /\ UNCHANGED <<data, consumed, allocs>>

Request(t, r) ==
    /\ stage[t] = "idle"
    /\ asked' = [asked EXCEPT ![t] = r]
    /\ Reload(t, r)

SwapFails(t) ==
    /\ stage[t] = "swap"
    /\ Reload(t, asked[t])
    /\ UNCHANGED asked

Swap_Store(t) ==
    /\ stage[t] = "swap"
    /\ consumed' = Needed(seen[t], asked[t])
    /\ allocs' = allocs \cup {[by |-> t, for |-> asked[t],
                               start |-> Location(seen[t], asked[t])]}
    /\ stage' = [stage EXCEPT ![t] = "idle"]
    /\ UNCHANGED <<data, asked, seen>>

Swap(t) ==
    /\ stage[t] = "swap"
    /\ consumed = seen[t]
    /\ consumed' = Needed(seen[t], asked[t])
    /\ allocs' = allocs \cup {[by |-> t, for |-> asked[t],
                               start |-> Location(seen[t], asked[t])]}
    /\ stage' = [stage EXCEPT ![t] = "idle"]
    /\ UNCHANGED <<data, asked, seen>>

\* The owner resets the arena when nobody borrows from it any more.
Reset ==
    /\ \A t \in Threads : stage[t] # "swap"
    /\ consumed' = 0
    /\ allocs' = {}
    /\ UNCHANGED <<data, stage, asked, seen>>

ArenaNext ==
    \/ Reset
    \/ \E t \in Threads : SwapFails(t) \/ Swap(t) \/ \E r \in Requests : Request(t, r)

ArenaSpec == ArenaInit /\ [][ArenaNext]_arenaVars

(***************************************************************************)
(* Properties.                                                             *)
(***************************************************************************)
Apart(a, b) == a.start + a.for.size <= b.start \/ b.start + b.for.size <= a.start

\* Whatever threads race for the arena, the objects they are handed lie inside
\* it, no two overlap, and every array is aligned for its type.  (A single
\* value is not, see Location: try_alloc forgets the padding it reserved.)
AllocationsSound ==
    /\ consumed <= Capacity
    /\ \A a \in allocs :
          /\ a.start + a.for.size <= consumed
          /\ a.for.kind = "array" => (data + a.start) % a.for.align = 0
          /\ \A b \in allocs : a = b \/ Apart(a, b)
=============================================================================

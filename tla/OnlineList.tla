----------------------------- MODULE OnlineList -----------------------------
(***************************************************************************)
(* The list of peers seen online lately (util/online_list.rs), from which  *)
(* header sync, block download and the chain watcher draw the peers they   *)
(* connect to.  It is a ring buffer that grows: new peers enter at `end`,  *)
(* trim moves `start` over the entries older than the threshold, and when  *)
(* `end` meets `start` the ring is unrolled into one twice as long.        *)
(*                                                                         *)
(* A slot holds a peer, whether its services satisfy the requirement the   *)
(* callers ask for, and when it was online; slots never written hold the   *)
(* default entry, whose time is the Unix epoch.                            *)
(***************************************************************************)
EXTENDS Integers, Sequences

CONSTANTS
    Apns,          \* addresses of peers
    Serving,        \* those whose services satisfy the callers' requirement
    Unset,          \* the address of the default entry
    InitialSlots,   \* 32 in OnlineList::new
    Threshold,      \* how long a peer counts as online
    MaxSlots,       \* bound: the ring grows no further
    MaxTime         \* bound on the clock

ASSUME ListAssumption ==
    /\ Unset \notin Apns
    /\ Serving \subseteq Apns
    /\ InitialSlots \in Nat \ {0}
    /\ Threshold \in Nat

VARIABLES
    slots,      \* self.peers, with slot i at slots[i + 1]
    start, end,
    known,
    clock,      \* SystemTime::now()
    listed      \* history: <<peer, time>> of every entry ever made

listVars == <<slots, start, end, known, clock, listed>>

Empty == [apn |-> Unset, serves |-> FALSE, last_online |-> -1]

Slot(i) == slots[(i % Len(slots)) + 1]

Expired(item) == item.last_online = -1 \/ item.last_online < clock - Threshold

length == IF end < start THEN end + Len(slots) - start ELSE end - start

ListInit ==
    /\ slots = [i \in 1 .. InitialSlots |-> Empty]
    /\ start = 0 /\ end = 0
    /\ known = {}
    /\ clock = 0
    /\ listed = {}

\* How many slots from `start` on trim steps over: all of them when there is
\* no entry young enough, which brings `start` back to where it was.
Trimmed ==
    CHOOSE n \in 0 .. Len(slots) :
        /\ \A i \in 0 .. n - 1 : Expired(Slot(start + i))
        /\ n < Len(slots) => ~Expired(Slot(start + n))

Grown_KeepStart(ring, s, e) ==
    IF e # s THEN [slots |-> ring, start |-> s, end |-> e]
    ELSE [slots |-> ring \o [i \in 1 .. Len(ring) |-> Empty],
          start |-> s, end |-> Len(ring)]

\* The ring is full: its older half first, then the newer, then as many
\* empty slots.
Grown(ring, s, e) ==
    IF e # s THEN [slots |-> ring, start |-> s, end |-> e]
    ELSE [slots |-> SubSeq(ring, e + 1, Len(ring)) \o SubSeq(ring, 1, e)
                      \o [i \in 1 .. Len(ring) |-> Empty],
          start |-> 0, end |-> Len(ring)]

peer_online(peer) ==
    LET kept == (start + Trimmed) % Len(slots)
        left == known \ {Slot(start + i).apn : i \in 0 .. Trimmed - 1}
        entry == [apn |-> peer, serves |-> peer \in Serving, last_online |-> clock]
        next == Grown([slots EXCEPT ![end + 1] = entry], kept, (end + 1) % Len(slots))
    IN  IF peer \in left
        THEN /\ start' = kept
             /\ known' = left
             /\ UNCHANGED <<slots, end, clock, listed>>
        ELSE /\ Len(next.slots) <= MaxSlots
             /\ slots' = next.slots
             /\ start' = next.start
             /\ end' = next.end
             /\ known' = left \cup {peer}
             /\ listed' = listed \cup {<<peer, clock>>}
             /\ UNCHANGED clock

Tick ==
    /\ clock < MaxTime
    /\ clock' = clock + 1
    /\ UNCHANGED <<slots, start, end, known, listed>>

ListNext == Tick \/ \E p \in Apns : peer_online(p)

ListSpec == ListInit /\ [][ListNext]_listVars

\* random: the slot chosen when the generator gives `index`, with and without
\* a requirement on the services; the ring is indexed from slot 0, not from
\* `start`.
random_any(index) == Slot(index)

random_serving(index) ==
    {Slot(i) : i \in {j \in index .. index + length - 1 :
                        /\ Slot(j).serves
                        /\ \A k \in index .. j - 1 : ~Slot(k).serves}}

(***************************************************************************)
(* Properties.                                                             *)
(***************************************************************************)
Window == {Slot(start + i) : i \in 0 .. length - 1}

\* Through any order of reports, lulls long enough for every entry to expire,
\* wrap-arounds and growth: an entry young enough to count is never lost from
\* the window, `known` names only peers of the window (otherwise a peer would
\* be refused for ever), and random, which counts its slots from 0 instead of
\* from `start`, still never hands out a slot nobody wrote or a peer without
\* the services that were asked for.
ListSound ==
    /\ \A l \in listed : l[2] >= clock - Threshold =>
          \E e \in Window : e.apn = l[1] /\ e.last_online = l[2]
    /\ \A p \in known : \E e \in Window : e.apn = p
    /\ \A index \in 0 .. length - 1 :
          /\ random_any(index).apn \in Apns
          /\ \A e \in random_serving(index) : e.apn \in Apns /\ e.serves
=============================================================================

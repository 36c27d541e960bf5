--------------------------- MODULE OrderedDelivery ---------------------------
(***************************************************************************)
(* What the download of the missing blocks promises its consumer, the      *)
(* block writer: the N missing blocks arrive one at a time, each exactly   *)
(* once and in chain order, and the source reports that it is finished     *)
(* only after the last of them, unless the consumer itself broke down.     *)
(***************************************************************************)
EXTENDS Integers, Sequences

CONSTANT N        \* how many blocks there are to deliver: 0 .. N-1

VARIABLES
  delivered,      \* the blocks delivered so far, in order
  broken,         \* the consumer has failed
  finished        \* the source has ended normally

vars == <<delivered, broken, finished>>

Init ==
  /\ delivered = <<>>
  /\ broken = FALSE
  /\ finished = FALSE

\* The next block in order; the source may be finished right after the last.
Deliver ==
  /\ ~broken /\ Len(delivered) < N
  /\ delivered' = Append(delivered, Len(delivered))
  /\ finished' => (finished \/ Len(delivered) + 1 = N)
  /\ finished' \in BOOLEAN
  /\ UNCHANGED broken

Break ==
  /\ ~broken
  /\ broken' = TRUE
  /\ finished' \in BOOLEAN
  /\ UNCHANGED delivered

Finish ==
  /\ ~finished
  /\ broken \/ Len(delivered) = N
  /\ finished' = TRUE
  /\ UNCHANGED <<delivered, broken>>

Next == Deliver \/ Break \/ Finish

Spec == Init /\ [][Next]_vars
=============================================================================

------------------------------ MODULE BlockTree ------------------------------
(***************************************************************************)
(* The tree of block headers as the modules see it that follow blocks      *)
(* through the stores (Explorer, TxIndex): every header but the genesis    *)
(* block's names its parent, and total_work grows along every chain.  How  *)
(* headers enter the tree is the business of HeaderChain, and so is the    *)
(* walk that panics on a new top whose parent is higher than the old top:  *)
(* here two chains are cut where they part.                                *)
(***************************************************************************)
EXTENDS Integers, Sequences, SequencesExt, FiniteSets

CONSTANTS
  Blocks,        \* the block hashes, Genesis among them
  Genesis,
  Parent,        \* Parent[b], for every block but Genesis
  Work           \* Work[b], the total work of the chain up to it

ASSUME TreeAssumption ==
  /\ IsFiniteSet(Blocks)
  /\ Genesis \in Blocks
  /\ \A b \in Blocks \ {Genesis} :
       /\ Parent[b] \in Blocks
       /\ Work[b] \in Nat /\ Work[b] > Work[Parent[b]]
  /\ Work[Genesis] \in Nat

\* The chain from Genesis to b, oldest first.
PathTo[b \in Blocks] ==
  IF b = Genesis THEN <<b>> ELSE Append(PathTo[Parent[b]], b)

\* What a loop over a list keeps of it: the elements of S, in order.
Filtering(list, S) ==
  LET F[i \in 0..Len(list)] ==
        IF i = 0 THEN <<>>
        ELSE IF list[i] \in S THEN Append(F[i - 1], list[i])
                              ELSE F[i - 1]
  IN  F
Filtered(list, S) == Filtering(list, S)[Len(list)]
=============================================================================

------------------------------ MODULE MCExplorer ------------------------------
(***************************************************************************)
(* Module Explorer for TLC: the chain 1-2 and the fork 1-3-4, whose first  *)
(* block has less work than 2 and whose second has more, with timestamps   *)
(* that go back, two configs and one named miner.                          *)
(***************************************************************************)
EXTENDS Explorer, TLC

CONSTANTS m1

\* No table of rocksdb is told from another.
TableSymmetry == Permutations(Tables)

MCParent == [b \in 2..4 |-> IF b = 4 THEN 3 ELSE 1]
MCWork   == <<1, 3, 2, 4>>
MCTime   == <<3, 6, 1, 5>>
MCUnreadable == {{}, {3}}
MCTxs    == <<1, 2, 1, 3>>
MCOwner  == <<[b \in 1..4 |-> IF b \in {1, 2} THEN m1 ELSE Unknown],
              [b \in 1..4 |-> IF b \in {2, 4} THEN m1 ELSE Unknown]>>

\* In which order rows come to sqlite only matters to a later start.
MCMaxPending == [stopped \in 0..1 |-> IF stopped = 0 THEN 2 ELSE 1]
=============================================================================

------------------------------- MODULE MCKeepUp -------------------------------
(***************************************************************************)
(* Two trees of headers.  On the first one every kind of reorganisation    *)
(* can happen: equal forks of one and of two blocks, a longer chain taking *)
(* over, two chains overtaking each other; 7 alone has the work of five    *)
(* blocks, so that 6, two blocks longer, can overtake it; and 8 does not   *)
(* have the difficulty bits it should have.                                *)
(*                                                                         *)
(*          0 --- 1 --- 2 --- 3                                            *)
(*                |                                                        *)
(*                +---- 4 --- 5 --- 6                                      *)
(*                |                                                        *)
(*                +---- 7                                                  *)
(*                |                                                        *)
(*                +---- 8                                                  *)
(*                                                                         *)
(* The second is the part 0 to 5 of the first, for liveness.               *)
(***************************************************************************)
EXTENDS KeepUp

MCHeaders   == 0..8
MCParent    == [h \in MCHeaders |-> CASE h \in {0, 1} -> 0
                                      [] h \in {2, 4, 7, 8} -> 1
                                      [] OTHER -> h - 1]
MCNumber    == [h \in MCHeaders |-> CASE h <= 3 -> h
                                      [] h \in {7, 8} -> 2
                                      [] OTHER -> h - 2]
MCTotalWork == [h \in MCHeaders |-> IF h = 7 THEN 5 ELSE MCNumber[h] + 1]
MCRecent    == MCHeaders \ {0, 1, 4}

SmallHeaders   == 0..5
SmallParent    == [h \in SmallHeaders |-> MCParent[h]]
SmallNumber    == [h \in SmallHeaders |-> MCNumber[h]]
SmallTotalWork == [h \in SmallHeaders |-> MCTotalWork[h]]
SmallRecent    == MCRecent \cap SmallHeaders
=============================================================================

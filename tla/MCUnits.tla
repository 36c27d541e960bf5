------------------------------ MODULE MCUnits ------------------------------
(***************************************************************************)
(* The small components that share no state, checked side by side: a       *)
(* behaviour picks one of them in its first state and runs it alone, so    *)
(* that the state space is the sum of theirs and not the product.          *)
(***************************************************************************)
EXTENDS ArenaPool, Arena, OnlineList, Locks, TxIndex, Codec, BlockBody, HeaderExchange

---------------------------------------------------------------------------
(* Arena: sizes and alignments of what is allocated, in small. *)

ArenaRequests ==
    {[size |-> 1, align |-> 1, kind |-> "array"], [size |-> 3, align |-> 1, kind |-> "value"],
     [size |-> 2, align |-> 2, kind |-> "array"], [size |-> 4, align |-> 4, kind |-> "value"]}

---------------------------------------------------------------------------
(* TxIndex: two branches that hold the same transactions in blocks of      *)
(* their own, with equal timestamps for one, and two that spend the same   *)
(* output.                                                                 *)

TreeParent == [A1 |-> "G", A2 |-> "A1", A3 |-> "A2", B1 |-> "G", B2 |-> "B1"]
TreeWork == [G |-> 0, A1 |-> 1, A2 |-> 2, A3 |-> 3, B1 |-> 1, B2 |-> 2]
TreeTime == [G |-> 0, A1 |-> 1, A2 |-> 2, A3 |-> 3, B1 |-> 1, B2 |-> 3]
TreeTxs == [G |-> {}, A1 |-> {1}, A2 |-> {2}, A3 |-> {3, 4}, B1 |-> {1}, B2 |-> {4, 5}]
TxSpends == <<{"o1"}, {"o2"}, {}, {"o3"}, {"o2"}>>
TxPays == <<<< <<"p", 1>> >>, << <<"p", -1>>, <<"q", 1>>, <<"p", 2>> >>, << <<"p", 2>> >>,
            << <<"p", 3>> >>, << <<"p", 4>> >> >>

---------------------------------------------------------------------------
(* Codec: lengths around the limits of one and of three bytes. *)

SomeBytes(n) == [i \in 1 .. n |-> i % 3]
TxIn(n) == [prevout_hash |-> SomeBytes(32), prevout_index |-> 5,
            sig_script |-> SomeBytes(n), sequence |-> 2400]
TxOut(n) == [value |-> 3, script |-> SomeBytes(n)]
Tx(ins, outs, w) == [version |-> 2, locktime |-> 9, txins |-> ins, txouts |-> outs, witness |-> w]
Witnesses(n) ==
    {NoWitness, [i \in 1 .. n |-> <<>>],
     [i \in 1 .. n |-> IF i = 1 THEN << <<6>>, SomeBytes(48)>> ELSE <<>>]}

Lengths == {0, 3, 4, 47, 48, 49}

SampleTxs ==
    UNION {{Tx(<<TxIn(a)>>, <<TxOut(b)>>, w) : w \in Witnesses(1)} : a \in Lengths, b \in Lengths}
      \cup UNION {{Tx(<<TxIn(a), TxIn(0)>>, [i \in 1 .. n |-> TxOut(0)], w) : w \in Witnesses(2)} :
                     a \in {0, 4}, n \in {0, 3, 4, 47, 48}}

SampleBlock == [i \in 1 .. 32 |-> 6]

---------------------------------------------------------------------------
VARIABLE unit       \* the component that runs

Units == {"pool", "arena", "list", "locks", "index", "codec", "body", "exchange"}

Init ==
    /\ unit \in Units
    /\ PoolInit /\ ArenaInit /\ ListInit /\ LocksInit
    /\ IndexInit /\ CodecInit /\ BodyInit /\ ExchangeInit
    /\ unit # "arena" => data = CHOOSE a \in Addresses : TRUE

Rest(v1, v2, v3, v4, v5, v6, v7) == UNCHANGED <<v1, v2, v3, v4, v5, v6, v7>>

Next ==
    /\ UNCHANGED unit
    /\ \/ /\ unit = "pool" /\ PoolNext
          /\ Rest(arenaVars, listVars, lockVars, indexVars, codecVars, bodyVars, exchangeVars)
       \/ /\ unit = "arena" /\ ArenaNext
          /\ Rest(poolVars, listVars, lockVars, indexVars, codecVars, bodyVars, exchangeVars)
       \/ /\ unit = "list" /\ ListNext
          /\ Rest(poolVars, arenaVars, lockVars, indexVars, codecVars, bodyVars, exchangeVars)
       \/ /\ unit = "locks" /\ LocksNext
          /\ Rest(poolVars, arenaVars, listVars, indexVars, codecVars, bodyVars, exchangeVars)
       \/ /\ unit = "index" /\ IndexNext
          /\ Rest(poolVars, arenaVars, listVars, lockVars, codecVars, bodyVars, exchangeVars)
       \/ /\ unit = "codec" /\ CodecNext
          /\ Rest(poolVars, arenaVars, listVars, lockVars, indexVars, bodyVars, exchangeVars)
       \/ /\ unit = "body" /\ BodyNext
          /\ Rest(poolVars, arenaVars, listVars, lockVars, indexVars, codecVars, exchangeVars)
       \/ /\ unit = "exchange" /\ ExchangeNext
          /\ Rest(poolVars, arenaVars, listVars, lockVars, indexVars, codecVars, bodyVars)

Spec ==
    Init /\ [][Next]_<<unit, poolVars, arenaVars, listVars, lockVars, indexVars, codecVars,
                       bodyVars, exchangeVars>>
=============================================================================

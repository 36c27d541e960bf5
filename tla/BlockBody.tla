------------------------------ MODULE BlockBody ------------------------------
(***************************************************************************)
(* Whether the transactions of a block that arrived are those its header   *)
(* commits to: the Merkle root over the transaction hashes (packets/       *)
(* block.rs, util/merkle.rs), checked while the block is parsed, and the   *)
(* witness commitment in the coinbase transaction, checked by the block    *)
(* download and the chain watcher before the block is used.  An odd level  *)
(* of the tree repeats its last hash, so that lists of different length    *)
(* can have the same root; the code refuses a list in which two            *)
(* neighbours on a level are equal.                                        *)
(*                                                                         *)
(* SHA-256 is injective: the hash of a pair is the pair.  A transaction is *)
(* <<id, witness>>; ids tell transactions apart, the witness is a number,  *)
(* 0 for none.                                                             *)
(***************************************************************************)
EXTENDS Integers, Sequences, SequencesExt

CONSTANTS
    MaxTxs,         \* bound: transactions of an authentic block
    FewIds, MaxAny  \* bounds: every list of these ids up to this length arrives

ASSUME BodyAssumption == MaxTxs \in Nat /\ FewIds \in Nat /\ MaxAny \in Nat

VARIABLES
    authentic,      \* the block its miner made: transactions, commitment or not
    arrived,        \* the body that a peer sent under its header
    verdict         \* "none", "refused", or "used"

bodyVars == <<authentic, arrived, verdict>>

---------------------------------------------------------------------------
(* util/merkle.rs *)

\* EMPTY_HASH is a leaf of its own.
EmptyHash == <<-1>>

SameNeighbours_ButLast(level) == \E i \in 1 .. Len(level) - 2 : level[i] = level[i + 1]

SameNeighbours(level) == \E i \in 1 .. Len(level) - 1 : level[i] = level[i + 1]

Padded(level) == IF Len(level) % 2 = 1 THEN Append(level, Last(level)) ELSE level

collapse(level) == [i \in 1 .. Len(level) \div 2 |-> <<level[2 * i - 1], level[2 * i]>>]

\* A round of the loop of into_root, which ends with one hash.
Above(level) == IF Len(level) > 1 THEN collapse(Padded(level)) ELSE level

\* The levels of the tree; every round but those after the end leaves fewer
\* hashes.
Levels(leaves) ==
    LET at[i \in 0 .. Len(leaves)] == IF i = 0 THEN leaves ELSE Above(at[i - 1])
    IN  at

into_root(leaves) ==
    IF leaves = <<>> THEN [hash |-> EmptyHash, mutated |-> FALSE]
    ELSE LET levels == Levels(leaves)
         IN  [hash |-> levels[Len(leaves)][1],
              mutated |-> \E i \in 0 .. Len(leaves) : SameNeighbours(levels[i])]

---------------------------------------------------------------------------
(* packets/block.rs *)

TxHash(t) == <<t[1]>>
WitnessHash(t) == <<10 * t[1] + t[2]>>

TxLeaves(body) == [i \in DOMAIN body |-> TxHash(body[i])]

WitnessLeaves(body) ==
    [i \in DOMAIN body |-> IF i = 1 THEN EmptyHash ELSE WitnessHash(body[i])]

\* BlockBorrowed::deserialize_borrowed.
Parses(body, merkle_root) ==
    LET root == into_root(TxLeaves(body))
    IN  ~root.mutated /\ root.hash = merkle_root

\* verify_witness_commitment.  A coinbase with a commitment carries the
\* reserved value as its witness.
WitnessVerified(body, committed, commitment) ==
    committed =>
        LET root == into_root(WitnessLeaves(body))
        IN  /\ body[1][2] # 0
            /\ ~root.mutated
            /\ <<root.hash, body[1][2]>> = commitment

BodyInit ==
    /\ authentic = [txs |-> <<>>, committed |-> FALSE]
    /\ arrived = <<>>
    /\ verdict = "none"

\* External: a miner makes a block of distinct transactions; one with witness
\* data needs a commitment.
Mine(n, committed) ==
    /\ authentic.txs = <<>>
    /\ authentic' = [txs |-> [i \in 1 .. n |-> <<i, IF committed THEN i % 2 ELSE 0>>],
                     committed |-> committed]
    /\ UNCHANGED <<arrived, verdict>>

\* External: the body as sent, or with the witness of one transaction changed.
Receive(body) ==
    \/ arrived' = body
    \/ \E j \in DOMAIN body, w \in {0, 2} : arrived' = [body EXCEPT ![j] = <<@[1], w>>]

\* External: bodies that a peer may send: any short list of the first few
\* transactions, and the authentic list with a part repeated.
Deliver ==
    LET txs == authentic.txs
        few == {i \in DOMAIN txs : i <= FewIds}
    IN  /\ txs # <<>> /\ arrived = <<>>
        /\ \/ \E k \in 1 .. MaxAny : \E body \in [1 .. k -> {txs[i] : i \in few}] : Receive(body)
           \/ \E k \in DOMAIN txs, a \in DOMAIN txs, b \in 0 .. Len(txs) :
                 Receive(SubSeq(txs, 1, k) \o SubSeq(txs, a, b))
        /\ UNCHANGED <<authentic, verdict>>

Check ==
    /\ arrived # <<>> /\ verdict = "none"
    /\ verdict' =
         IF /\ Parses(arrived, into_root(TxLeaves(authentic.txs)).hash)
            /\ WitnessVerified(arrived, authentic.committed,
                  <<into_root(WitnessLeaves(authentic.txs)).hash, authentic.txs[1][2]>>)
         THEN "used" ELSE "refused"
    /\ UNCHANGED <<authentic, arrived>>

BodyNext ==
    \/ Deliver \/ Check
    \/ \E n \in 1 .. MaxTxs, committed \in BOOLEAN : Mine(n, committed)

BodySpec == BodyInit /\ [][BodyNext]_bodyVars

(***************************************************************************)
(* Properties.                                                             *)
(***************************************************************************)
\* A body is used only if it is the authentic one: the same transactions in
\* the same order and number, whatever repetitions a peer makes up to reach
\* the same Merkle root, and, in a block with a witness commitment, with the
\* same witnesses.  The authentic body is never refused.
BodyAuthentic ==
    /\ verdict = "used" =>
          /\ TxLeaves(arrived) = TxLeaves(authentic.txs)
          /\ authentic.committed => arrived = authentic.txs
    /\ verdict = "refused" => arrived # authentic.txs
=============================================================================

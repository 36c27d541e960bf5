-------------------------------- MODULE Codec --------------------------------
(***************************************************************************)
(* The life of a transaction's bytes: received in a block or tx packet     *)
(* (packets/tx.rs, packets/varint.rs, packets/varstr.rs), written to the   *)
(* transaction store without its outputs, which have a store of their own  *)
(* (tx/mod.rs), and put together again for the transaction page            *)
(* (api/tx.rs), which also recomputes the witness hash from the parts, and *)
(* for a peer that asks for the block (chainman/mod.rs, get_block).        *)
(*                                                                         *)
(* A byte has Base values instead of 256, everything else has the width    *)
(* and the offset it has in the code: a u32 is four bytes, a hash 32.      *)
(* The sentinels 0xFD, 0xFE, 0xFF are the three highest bytes.  SHA-256    *)
(* is injective: a hash is what was hashed.  The sigop cost is a number.   *)
(***************************************************************************)
EXTENDS Integers, Sequences, SequencesExt

CONSTANTS
    Base,           \* values of a byte
    Received,       \* transactions that peers send
    Cuts,           \* how many bytes of the encoding may be missing
    SpentValue,     \* value of every output spent
    InBlock         \* hash of the block the transactions are in

VARIABLES
    message,        \* the transaction sent and the bytes that arrived
    parsed,         \* what deserialize_borrowed made of them
    stored,         \* the values in TXS_DB and TXOUTS_DB
    page,           \* what txdata shows
    served          \* its bytes in a block sent to a peer that asked for it

codecVars == <<message, parsed, stored, page, served>>

Nothing == [none |-> TRUE]
\* None; with witness data there is a stack for every input, and an input.
NoWitness == <<>>

---------------------------------------------------------------------------
(* Integers.  A reader takes the buffer and an offset and returns the      *)
(* value and the offset behind it, which is -1 when it fails.              *)

Fail == [val |-> 0, at |-> -1]
Failed(r) == r.at = -1

Byte == 0 .. Base - 1

Power[n \in 0 .. 8] == IF n = 0 THEN 1 ELSE Base * Power[n - 1]

LE(v, width) == [i \in 1 .. width |-> (v \div Power[i - 1]) % Base]

FromLE(bytes) ==
    LET last[n \in 0 .. Len(bytes)] ==
          IF n = 0 THEN 0 ELSE bytes[Len(bytes) - n + 1] + Base * last[n - 1]
    IN  last[Len(bytes)]

Take(buf, at, n) ==
    IF at = -1 \/ at + n > Len(buf) THEN Fail
    ELSE [val |-> SubSeq(buf, at + 1, at + n), at |-> at + n]

get_le(buf, at, width) ==
    LET t == Take(buf, at, width)
    IN  IF Failed(t) THEN Fail ELSE [val |-> FromLE(t.val), at |-> t.at]

length_varint(v) ==
    IF v < Base - 3 THEN 1
    ELSE IF v < Power[2] - 1 THEN 3
    ELSE IF v < Power[4] - 1 THEN 5
    ELSE 9

\* serialize_varint and serialize_varint_into_slice.
serialize_varint(v) ==
    IF v < Base - 3 THEN <<v>>
    ELSE IF v < Power[2] - 1 THEN <<Base - 3>> \o LE(v, 2)
    ELSE IF v < Power[4] - 1 THEN <<Base - 2>> \o LE(v, 4)
    ELSE <<Base - 1>> \o LE(v, 8)

deserialize_varint(buf, at) ==
    LET leader == Take(buf, at, 1)
        byte == leader.val[1]
    IN  IF Failed(leader) THEN Fail
        ELSE IF byte < Base - 3 THEN [val |-> byte, at |-> at + 1]
        ELSE get_le(buf, at + 1, IF byte = Base - 3 THEN 2 ELSE IF byte = Base - 2 THEN 4 ELSE 8)

serialize_varstr(s) == serialize_varint(Len(s)) \o s

deserialize_varstr(buf, at) ==
    LET n == deserialize_varint(buf, at)
    IN  IF Failed(n) THEN Fail ELSE Take(buf, n.at, n.val)

\* deserialize_array and deserialize_array_owned (packets/mod.rs).  An item is
\* read by a function of its offset.
Extended(sofar, item) ==
    IF Failed(sofar) THEN sofar
    ELSE [val |-> Append(sofar.val, item[sofar.at].val), at |-> item[sofar.at].at]

Repeat(count, at, item) ==
    LET after[n \in 0 .. count] ==
          IF n = 0 THEN [val |-> <<>>, at |-> at] ELSE Extended(after[n - 1], item)
    IN  after[count]

deserialize_array(buf, at, item) ==
    LET n == deserialize_varint(buf, at)
    IN  IF Failed(n) THEN Fail ELSE Repeat(n.val, n.at, item)

serialize_array(items) == serialize_varint(Len(items)) \o FlattenSeq(items)

Offsets(buf) == 0 .. Len(buf)

\* The stack of one input: its extent is found and the bytes are kept as
\* they are.
deserialize_array_of_varstr_as_varstr(buf, at) ==
    LET stack == deserialize_array(buf, at, [o \in Offsets(buf) |-> deserialize_varstr(buf, o)])
    IN  IF Failed(stack) THEN Fail ELSE Take(buf, at, stack.at - at)

---------------------------------------------------------------------------
(* Transactions. *)

deserialize_txin(buf, at) ==
    LET hash == Take(buf, at, 32)
        index == get_le(buf, hash.at, 4)
        script == deserialize_varstr(buf, index.at)
        sequence == get_le(buf, script.at, 4)
    IN  [val |-> [prevout_hash |-> hash.val, prevout_index |-> index.val,
                  sig_script |-> script.val, sequence |-> sequence.val],
         at |-> sequence.at]

serialize_txin(i) ==
    i.prevout_hash \o LE(i.prevout_index, 4) \o serialize_varstr(i.sig_script) \o LE(i.sequence, 4)

\* serialize_array of the inputs, and of the outputs.
InsBytes(txins) == serialize_array([i \in DOMAIN txins |-> serialize_txin(txins[i])])

deserialize_txout(buf, at) ==
    LET value == get_le(buf, at, 8)
        script == deserialize_varstr(buf, value.at)
    IN  [val |-> [value |-> value.val, script |-> script.val], at |-> script.at]

deserialize_txouts(buf, at) ==
    deserialize_array(buf, at, [o \in Offsets(buf) |-> deserialize_txout(buf, o)])

\* TxOutOwned::serialize and TxOutRef::flat_serialize.
serialize_txout(o) == LE(o.value, 8) \o serialize_varstr(o.script)

OutsBytes(txouts) == serialize_array([i \in DOMAIN txouts |-> serialize_txout(txouts[i])])

has_witness_data(buf) == Take(buf, 4, 2).val = <<0, 1>>

Marker(witness) == IF witness = NoWitness THEN <<>> ELSE <<0, 1>>
Stacks(witness) == IF witness = NoWitness THEN <<>> ELSE FlattenSeq(witness)

\* A transaction with or without its outputs, from deserialize_borrowed and
\* deserialize_without_txouts: its parts one after the other.
Whole(buf, start, txins, txouts, witness) ==
    LET locktime == get_le(buf, witness.at, 4)
    IN  IF Failed(Take(buf, 4, 2)) \/ Failed(txins) \/ txins.val = <<>> \/ Failed(txouts)
           \/ Failed(witness) \/ Failed(locktime)
        THEN Fail
        ELSE [val |-> [version |-> get_le(buf, 0, 4).val, txins |-> txins.val,
                       txouts |-> txouts.val, witness |-> witness.val,
                       locktime |-> locktime.val],
              at |-> locktime.at, inputs |-> start, stacks |-> txouts.at]

AfterOuts(buf, start, txins, txouts) ==
    Whole(buf, start, txins, txouts,
          IF has_witness_data(buf)
          THEN Repeat(Len(txins.val), txouts.at,
                      [o \in Offsets(buf) |-> deserialize_array_of_varstr_as_varstr(buf, o)])
          ELSE [val |-> NoWitness, at |-> txouts.at])

AfterIns(buf, start, txins, withOuts) ==
    AfterOuts(buf, start, txins,
              IF withOuts THEN deserialize_txouts(buf, txins.at)
              ELSE [val |-> <<>>, at |-> txins.at])

Transaction(buf, withOuts) ==
    LET start == IF has_witness_data(buf) THEN 6 ELSE 4
    IN  AfterIns(buf, start,
                 deserialize_array(buf, start, [o \in Offsets(buf) |-> deserialize_txin(buf, o)]),
                 withOuts)

AllEmpty_Any(witness) == witness = NoWitness \/ \E i \in DOMAIN witness : Len(witness[i]) = 1

\* Every stack is a single byte: no witness, whatever the marker says.
AllEmpty(witness) == witness = NoWitness \/ \A i \in DOMAIN witness : Len(witness[i]) = 1

\* TxBorrowed::deserialize_borrowed: the hashes are taken over the received
\* bytes, without the marker and the witness for the first.
Hashed(buf, t) ==
    LET hash == SubSeq(buf, 1, 4) \o SubSeq(buf, t.inputs + 1, t.stacks) \o SubSeq(buf, t.at - 3, t.at)
    IN  IF Failed(t) THEN Fail
        ELSE [val |-> t.val, at |-> t.at, hash |-> hash,
              witness_hash |-> IF AllEmpty(t.val.witness) THEN hash ELSE SubSeq(buf, 1, t.at)]

deserialize_borrowed(buf) == Hashed(buf, Transaction(buf, TRUE))

\* TxOwned::serialize.
serialize_tx(t) ==
    LE(t.version, 4) \o Marker(t.witness) \o InsBytes(t.txins)
        \o OutsBytes(t.txouts) \o Stacks(t.witness) \o LE(t.locktime, 4)

serialize_without_txouts(t) ==
    LE(t.version, 4) \o Marker(t.witness) \o InsBytes(t.txins)
        \o Stacks(t.witness) \o LE(t.locktime, 4)

Total(numbers) ==
    LET upto[n \in 0 .. Len(numbers)] == IF n = 0 THEN 0 ELSE upto[n - 1] + numbers[n]
    IN  upto[Len(numbers)]

InsSize(t) ==
    length_varint(Len(t.txins))
        + Total([i \in DOMAIN t.txins |->
                   40 + length_varint(Len(t.txins[i].sig_script)) + Len(t.txins[i].sig_script)])

\* TxOutRef::serialized_length.
OutsSize(t) ==
    length_varint(Len(t.txouts))
        + Total([i \in DOMAIN t.txouts |->
                   8 + length_varint(Len(t.txouts[i].script)) + Len(t.txouts[i].script)])

WitnessSize(t) == Len(Marker(t.witness)) + Len(Stacks(t.witness))

serialized_without_txouts_size(t) == 4 + WitnessSize(t) + InsSize(t) + 4

calculate_tx_size_wus(t) == 16 + 16 + 4 * InsSize(t) + 4 * OutsSize(t) + WitnessSize(t)

\* TxOwned::compute_witness_hash.
compute_witness_hash(t, hash) == IF AllEmpty(t.witness) THEN hash ELSE serialize_tx(t)

---------------------------------------------------------------------------
(* The stores and the page. *)

Zeros(n) == [i \in 1 .. n |-> 0]

\* Copying into a slice at an offset.
Put(buf, at, bytes) ==
    [i \in DOMAIN buf |-> IF i - at \in DOMAIN bytes THEN bytes[i - at] ELSE buf[i]]

txouts_sum(t) == Total([i \in DOMAIN t.txouts |-> t.txouts[i].value])

\* calculate_fee, of a transaction that is not a coinbase.
calculate_fee(t, values) == Total(values) - txouts_sum(t)

\* analyze_tx: the value of TXS_DB.
Analyzed(t, values, sigops) ==
    LET size == serialized_without_txouts_size(t)
        counted == serialize_array([i \in DOMAIN values |-> LE(values[i], 8)])
        room == Zeros(size + 8 + 8 + 4 + 4 + 8 + 32 + length_varint(Len(values)) + Len(values) * 8)
        head == LE(calculate_fee(t, values), 8) \o LE(txouts_sum(t), 8)
                  \o LE(calculate_tx_size_wus(t), 4) \o LE(sigops, 4) \o InBlock
        body == Put(Put(room, 0, head), 56, serialize_without_txouts(t))
    IN  Put(body, 56 + size, counted)

serialize_txouts(t) ==
    Put(Zeros(OutsSize(t)), 0, OutsBytes(t.txouts))

deserialize_analyzed_tx(data) ==
    LET rest == SubSeq(data, 57, Len(data))
        t == Transaction(rest, FALSE)
    IN  [fee |-> get_le(data, 0, 8).val, txouts_sum |-> get_le(data, 8, 8).val,
         size_wus |-> get_le(data, 16, 4).val, sigops |-> get_le(data, 20, 4).val,
         block_hash |-> Take(data, 24, 32).val, tx |-> t.val,
         txin_values |-> deserialize_array(rest, t.at, [o \in Offsets(rest) |-> get_le(rest, o, 8)]).val]

---------------------------------------------------------------------------
(* Actions. *)

\* The peers' encoding of lengths, strings and lists.  External: the Bitcoin
\* protocol.
Canonical(v) ==
    IF v < Base - 3 THEN <<v>>
    ELSE IF v < Power[2] THEN <<Base - 3>> \o LE(v, 2)
    ELSE <<Base - 2>> \o LE(v, 4)

CanonicalStr(s) == Canonical(Len(s)) \o s

CanonicalList(items) == Canonical(Len(items)) \o FlattenSeq(items)

CanonicalIns(txins) ==
    CanonicalList([i \in DOMAIN txins |->
        txins[i].prevout_hash \o LE(txins[i].prevout_index, 4)
          \o CanonicalStr(txins[i].sig_script) \o LE(txins[i].sequence, 4)])

CanonicalOuts(txouts) ==
    CanonicalList([i \in DOMAIN txouts |-> LE(txouts[i].value, 8) \o CanonicalStr(txouts[i].script)])

Stripped(t) ==
    LE(t.version, 4) \o CanonicalIns(t.txins) \o CanonicalOuts(t.txouts) \o LE(t.locktime, 4)

Wire(t) ==
    LE(t.version, 4) \o Marker(t.witness) \o CanonicalIns(t.txins) \o CanonicalOuts(t.txouts)
        \o Stacks(t.witness) \o LE(t.locktime, 4)

\* A peer's transaction has its stacks as lists of items; the parser keeps
\* each as one string.
Stack(items) == CanonicalList([i \in DOMAIN items |-> CanonicalStr(items[i])])
AsKept(t) == [t EXCEPT !.witness = [i \in DOMAIN @ |-> Stack(@[i])]]

\* What peers send: numbers that fit their fields, lengths that fit four bytes,
\* one stack per input or none at all, and outputs that are paid for.
U32 == 0 .. Power[4] - 1
Short(S) == {s \in Seq(S) : Len(s) < Power[4] - 1}
TxIns == [prevout_hash : [1 .. 32 -> Byte], prevout_index : U32,
          sig_script : Short(Byte), sequence : U32]
TxOuts == [value : 0 .. Power[8] - 1, script : Short(Byte)]
Txs == [version : U32, txins : Short(TxIns) \ {<<>>}, txouts : Short(TxOuts),
        witness : Seq(Short(Short(Byte))), locktime : U32]

ASSUME CodecAssumption ==
    /\ Base \in Nat /\ Base > 4
    /\ Cuts \subseteq Nat
    /\ SpentValue \in 0 .. Power[8] - 1
    /\ InBlock \in [1 .. 32 -> Byte]
    /\ \A t \in Received :
          /\ t \in Txs
          /\ t.witness # NoWitness => Len(t.witness) = Len(t.txins)
          /\ txouts_sum(t) <= SpentValue * Len(t.txins)
          /\ SpentValue * Len(t.txins) < Power[8]
          /\ calculate_tx_size_wus(AsKept(t)) < Power[4]

CodecInit == message = Nothing /\ parsed = Nothing /\ stored = Nothing /\ page = Nothing
             /\ served = Nothing

\* External: a peer sends a transaction, not all of which may arrive.
Send(t, cut) ==
    /\ message = Nothing
    /\ LET wire == Wire(AsKept(t))
       IN  message' = [tx |-> AsKept(t), bytes |-> SubSeq(wire, 1, Len(wire) - cut), cut |-> cut]
    /\ UNCHANGED <<parsed, stored, page, served>>

Parse ==
    /\ message # Nothing /\ parsed = Nothing
    /\ parsed' = deserialize_borrowed(message.bytes)
    /\ UNCHANGED <<message, stored, page, served>>

Store ==
    /\ parsed # Nothing /\ stored = Nothing
    /\ ~Failed(parsed)
    /\ stored' = [tx |-> Analyzed(parsed.val, [i \in DOMAIN parsed.val.txins |-> SpentValue],
                                  Len(parsed.val.txouts)),
                  txouts |-> serialize_txouts(parsed.val)]
    /\ UNCHANGED <<message, parsed, page, served>>

\* txdata: get_analyzed_tx, get_transaction_outputs, compute_witness_hash.
PageOf(a, txouts) ==
    LET t == [a.tx EXCEPT !.txouts = txouts]
    IN  [analyzed |-> a, tx |-> t, witness_hash |-> compute_witness_hash(t, parsed.hash)]

Show ==
    /\ stored # Nothing /\ page = Nothing
    /\ page' = PageOf(deserialize_analyzed_tx(stored.tx),
                      deserialize_txouts(stored.txouts, 0).val)
    /\ UNCHANGED <<message, parsed, stored, served>>

\* get_block, which reads the transactions of the block and not their outputs.
Serve(include_witness_data) ==
    /\ stored # Nothing /\ served = Nothing
    /\ LET t == deserialize_analyzed_tx(stored.tx).tx
           sent == IF include_witness_data THEN t ELSE [t EXCEPT !.witness = NoWitness]
       IN  served' = [witness |-> include_witness_data, bytes |-> serialize_tx(sent)]
    /\ UNCHANGED <<message, parsed, stored, page>>

CodecNext ==
    \/ Parse \/ Store \/ Show
    \/ \E with \in BOOLEAN : Serve(with)
    \/ \E t \in Received, cut \in Cuts : Send(t, cut)

CodecSpec == CodecInit /\ [][CodecNext]_codecVars

(***************************************************************************)
(* Properties.                                                             *)
(***************************************************************************)
\* A count or length for which the code and the protocol disagree: the
\* highest one that fits into two bytes.
AtBoundary(t) ==
    LET lengths == {Len(t.txins), Len(t.txouts)}
                     \cup {Len(t.txins[i].sig_script) : i \in DOMAIN t.txins}
                     \cup {Len(t.txouts[i].script) : i \in DOMAIN t.txouts}
    IN  Power[2] - 1 \in lengths

\* A transaction survives being parsed, stored in two parts at computed
\* offsets and put together again, whatever its shape: the page shows what
\* was sent, its fee, and the block and input values stored with it.  Its hash
\* is the one of the encoding without witness, its witness hash the one of the
\* bytes received if any input has a witness.  The page computes the latter
\* from the parts and arrives at the same, and the weight follows from the
\* number of bytes, except for a length of exactly 0xFFFF, which length_varint
\* and serialize_varint take to need five bytes.
\* An encoding that misses bytes at its end is refused.  What a peer is served
\* is well formed, but it is the transaction without any of its outputs:
\* get_block takes it from TXS_DB alone.
CodecFaithful ==
    /\ parsed # Nothing =>
          IF message.cut > 0 THEN Failed(parsed)
          ELSE /\ parsed.at = Len(message.bytes)
               /\ parsed.val = message.tx
               /\ parsed.hash = Stripped(message.tx)
               /\ parsed.witness_hash = IF \E i \in DOMAIN message.tx.witness :
                                              message.tx.witness[i] # <<0>>
                                        THEN message.bytes ELSE parsed.hash
    /\ page # Nothing =>
          LET weight == 3 * Len(parsed.hash) + Len(message.bytes)
          IN  /\ page.tx = message.tx
              /\ page.analyzed.txin_values = [i \in DOMAIN page.tx.txins |-> SpentValue]
              /\ page.analyzed.fee + page.analyzed.txouts_sum = SpentValue * Len(page.tx.txins)
              /\ page.analyzed.txouts_sum = txouts_sum(message.tx)
              /\ page.analyzed.sigops = Len(page.tx.txouts)
              /\ page.analyzed.block_hash = InBlock
              /\ ~AtBoundary(page.tx) => page.witness_hash = parsed.witness_hash
              /\ (page.analyzed.size_wus = weight) <=> ~AtBoundary(page.tx)
    /\ served # Nothing =>
          LET again == deserialize_borrowed(served.bytes)
          IN  /\ again.at = Len(served.bytes)
              /\ again.val = [message.tx EXCEPT
                                !.txouts = <<>>,
                                !.witness = IF served.witness THEN @ ELSE NoWitness]
=============================================================================

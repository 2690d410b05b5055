--------------------------- MODULE IndexerChains ---------------------------
(***************************************************************************)
(* The node states a model-checked call of ParseBlock may meet: two        *)
(* transaction hashes t1, t2 (a block may hold both, and either may spend  *)
(* the other's outputs), the null coinbase outpoint, and outputs paying    *)
(* the watched address, another address, a non-standard script or a       *)
(* script without an address.                                              *)
(***************************************************************************)
EXTENDS BitcoinData
LOCAL INSTANCE SequencesExt

CONSTANTS
    t1, t2,          \* the two transaction hashes
    MaxOuts1,        \* outputs of the transaction of a one-transaction block
    MaxIns1,         \* its inputs
    MaxOuts2,        \* outputs of each transaction of a two-transaction block
    MaxIns2,         \* their inputs
    MaxIndex         \* largest previous-output index an input names

ASSUME TxIds = {t1, t2}

MCOutPoint == [hash : TxIds, index : 0..MaxIndex] \cup {CoinbaseIn}

Txs(values, maxIns, maxOuts) ==
    [txIn : SeqOf(MCOutPoint, maxIns),
     txOut : SeqOf([value : values, pkScript : Script], maxOuts)]

\* A transaction outside the block is only read for its output scripts:
\* its inputs and output values are never looked at.
UnreadValue == CHOOSE v \in Values : TRUE
PrevTxs(maxOuts) == Txs({UnreadValue}, 0, maxOuts)

NoTx == [txIn |-> <<>>, txOut |-> <<>>]

\* The block at the height: none, empty, one transaction, or two.  The
\* hashes are interchangeable (the indexer only compares them), so
\* <<t2>> and <<t2, t1>> would repeat <<t1>> and <<t1, t2>>.
RawChains ==
    [tx : {[id \in TxIds |-> NoTx]}, block : {NoBlock, <<>>}]
      \cup {[tx |-> (t1 :> a) @@ (t2 :> b), block |-> <<t1>>] :
              a \in Txs(Values, MaxIns1, MaxOuts1), b \in PrevTxs(MaxOuts1)}
      \cup [tx : [TxIds -> Txs(Values, MaxIns2, MaxOuts2)],
            block : {<<t1, t2>>}]

\* The same set; written as a set-builder, TLC enumerates it once instead
\* of normalising the union, which takes minutes.
AllChains == {c \in RawChains : TRUE}

\* The blocks a reorganisation may put at the height: none, an empty one,
\* or one or two of the transactions the node stores, in either order.
ForkBlocks == {NoBlock, <<>>} \cup {<<t>> : t \in TxIds}
                \cup {<<t1, t2>>, <<t2, t1>>}

=============================================================================

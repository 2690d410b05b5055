---------------------------- MODULE BitcoinData ----------------------------
(***************************************************************************)
(* The data the bitcoin indexer (src/bitcoin/indexer.go) reads from a full *)
(* node, abstracted to what its control flow tells apart.                  *)
(*                                                                         *)
(* A locking script is abstracted to how parseAddress treats it: an        *)
(* address (ParsePkScript and Address both succeed, the address is its     *)
(* encoded form), NonStandard (ParsePkScript fails, wrapped as             *)
(* ErrParsePkScript and skipped by the callers) or NoAddress (the script   *)
(* parses but Address fails; that error is not ErrParsePkScript and        *)
(* aborts the call).  Transaction hashes and output values are model       *)
(* values: the indexer only compares and copies them.                      *)
(***************************************************************************)
EXTENDS Naturals, Sequences

CONSTANTS
    Addr,         \* encoded addresses a standard script can resolve to
    Watched,      \* the decoded listenAddress, EncodeAddress'ed
    TxIds,        \* hashes of the transactions the node stores
    NullHash,     \* the all-zero hash a coinbase input points to
    Values,       \* output values (only ever copied)
    NonStandard,  \* a pkScript txscript.ParsePkScript rejects
    NoAddress,    \* a pkScript that parses but has no address
    NoBlock,      \* GetBlockHash finds no block at the height
    Nil           \* Go's nil

\* The watched address is one a standard script resolves to.  This holds
\* when listenAddress belongs to chainParams; IndexerConfig shows that
\* NewBitcoinIndexer also accepts a bech32 address of another network, for
\* which no output ever matches.
ASSUME Watched \in Addr
ASSUME NullHash \notin TxIds

Script == Addr \cup {NonStandard, NoAddress}
Hash == TxIds \cup {NullHash}

\* wire.OutPoint.Index is a uint32; a coinbase input carries its maximum,
\* 2^32 - 1.  The indexer only compares it with output counts, so any
\* index past every output list stands for it; TLC's integers stop at
\* 2^31 - 1.
CoinbaseIndex == 2147483647

OutPoint == [hash : Hash, index : Nat]
TxOut == [value : Values, pkScript : Script]

\* What GetRawTransaction and GetBlock report: the transactions the node
\* stores (by hash) and the block at the requested height.
Node == [tx : [TxIds -> [txIn : Seq(OutPoint), txOut : Seq(TxOut)]],
         block : Seq(TxIds) \cup {NoBlock}]

\* types.BitcoinTxParseResult
ParseResult == [Value : Values, From : Seq(Addr), To : Addr]

\* parseAddress: the encoded address of a pkScript, or the error it
\* returns.  Only "ParsePkScript" wraps ErrParsePkScript.
parseAddress(pkScript) ==
    CASE pkScript \in Addr     -> [addr |-> pkScript, err |-> Nil]
      [] pkScript = NonStandard -> [addr |-> Nil, err |-> "ParsePkScript"]
      [] pkScript = NoAddress   -> [addr |-> Nil, err |-> "PkScriptToAddress"]

\* The input of a coinbase transaction: it spends no earlier output.
CoinbaseIn == [hash |-> NullHash, index |-> CoinbaseIndex]

\* The node's block is one consensus rules accept, as far as the indexer
\* looks: it starts with a coinbase transaction whose only input is
\* CoinbaseIn, and every input of the other transactions spends an
\* existing output of another transaction.  No script is NoAddress: btcd's
\* PkScript.Address succeeds on every script ParsePkScript accepts, so that
\* branch of parseAddress only guards against a changed txscript.
ConsensusValid(n) ==
    /\ n.block \notin {NoBlock, <<>>}
    /\ n.tx[n.block[1]].txIn = <<CoinbaseIn>>
    /\ \A k \in 2..Len(n.block) :
         \A in \in {n.tx[n.block[k]].txIn[j] : j \in DOMAIN n.tx[n.block[k]].txIn} :
            /\ in.hash \in TxIds \ {n.block[k]}
            /\ in.index < Len(n.tx[in.hash].txOut)
    /\ \A id \in TxIds : \A j \in DOMAIN n.tx[id].txOut :
         n.tx[id].txOut[j].pkScript # NoAddress

=============================================================================

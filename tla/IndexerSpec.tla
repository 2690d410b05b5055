---------------------------- MODULE IndexerSpec ----------------------------
(***************************************************************************)
(* What BitcoinIndexer.ParseBlock promises, as one atomic step: given the  *)
(* node's data, a call returns either the whole list of payments to the    *)
(* watched address (block order, then output order, each with the         *)
(* addresses its inputs spend, in input order) and no error, or an error   *)
(* and no list.  A transport failure may end any call.  Non-standard       *)
(* scripts are skipped, every other failure aborts the call.               *)
(*                                                                         *)
(* The result is defined by folds over the block, the outputs and the      *)
(* inputs; the first error met in that order wins.  Against the code, the  *)
(* one strengthening is the bounds check spec.md 4.4 asks for: an input    *)
(* whose index is past the previous transaction's outputs is               *)
(* MalformedPrevTx, like an empty output list.  The node may reorganise    *)
(* until the call returns; the call answers for the node as it is then.    *)
(***************************************************************************)
EXTENDS BitcoinData
LOCAL INSTANCE SequencesExt

VARIABLES
    node,     \* the full node's data, fixed during a call
    outcome   \* Running, or what ParseBlock returned

vars == <<node, outcome>>

\* Not returned yet.
Running == [results |-> Nil, err |-> Nil]

SpecError == {"ChainUnavailable", "HeightNotFound", "PrevTxFetchError",
              "MalformedPrevTx", "ResolverError"}

Outcome == [results : Seq(ParseResult), err : {Nil}]
             \cup [results : {Nil}, err : SpecError]

Ok(results) == [results |-> results, err |-> Nil]
Err(kind) == [results |-> Nil, err |-> kind]

\* One input of parseFromAddress: the address of the output it spends.
TraceStep(acc, in) ==
    IF acc.err # Nil THEN acc
    ELSE IF in.hash \notin DOMAIN node.tx THEN Err("PrevTxFetchError")
    ELSE LET prevOuts == node.tx[in.hash].txOut IN
         IF in.index >= Len(prevOuts) THEN Err("MalformedPrevTx")
         ELSE LET r == parseAddress(prevOuts[in.index + 1].pkScript) IN
              CASE r.err = Nil             -> Ok(Append(acc.results, r.addr))
                [] r.err = "ParsePkScript" -> acc
                [] OTHER                   -> Err("ResolverError")

\* parseFromAddress: the from-addresses of a whole transaction.
TraceFrom(tx) == FoldLeft(TraceStep, Ok(<<>>), tx.txIn)

\* One output of parseTx: a ParseResult when it pays the watched address.
OutputStep(tx, acc, out) ==
    IF acc.err # Nil THEN acc
    ELSE LET r == parseAddress(out.pkScript) IN
         CASE r.err = "ParsePkScript" -> acc
           [] r.err # Nil             -> Err("ResolverError")
           [] r.addr # Watched        -> acc
           [] OTHER ->
                LET from == TraceFrom(tx) IN
                IF from.err # Nil THEN from
                ELSE Ok(Append(acc.results,
                        [Value |-> out.value, From |-> from.results,
                         To |-> r.addr]))

\* parseTx: the results of one transaction, in output order.
ParseTxSpec(id) ==
    LET tx == node.tx[id] IN
    FoldLeft(LAMBDA acc, out : OutputStep(tx, acc, out), Ok(<<>>), tx.txOut)

\* One transaction of ParseBlock's loop.
BlockStep(acc, id) ==
    IF acc.err # Nil THEN acc
    ELSE LET r == ParseTxSpec(id) IN
         IF r.err # Nil THEN r ELSE Ok(acc.results \o r.results)

\* What ParseBlock returns when no RPC fails in transit.
Expected ==
    IF node.block = NoBlock THEN Err("HeightNotFound")
    ELSE FoldLeft(BlockStep, Ok(<<>>), node.block)

-----------------------------------------------------------------------------
CONSTANT Chains   \* the node states a call may meet

Init ==
    /\ node \in Chains
    /\ outcome = Running

\* A call returns the expected outcome, or fails in transit.
Return ==
    /\ outcome = Running
    /\ outcome' \in {Expected, Err("ChainUnavailable")}
    /\ UNCHANGED node

\* The node reorganises while the call runs: another block, or none, is at
\* the height; the transactions it stores stay as they are.
Reorg ==
    /\ outcome = Running
    /\ node' \in [tx : {node.tx}, block : Seq(TxIds) \cup {NoBlock}]
    /\ UNCHANGED outcome

Next == Return \/ Reorg

\* The caller's goroutine keeps running until ParseBlock returns.
Spec == Init /\ [][Next]_vars /\ WF_vars(Return)

TypeOK ==
    /\ node \in Node
    /\ outcome \in Outcome \cup {Running}

=============================================================================

------------------------------ MODULE Indexer ------------------------------
(***************************************************************************)
(* BitcoinIndexer.ParseBlock (src/bitcoin/indexer.go), one step per RPC    *)
(* round trip or loop iteration.  The call is single-threaded: ParseBlock  *)
(* loops over the block's transactions calling parseTx, parseTx loops over *)
(* the outputs and, for every output paying the watched address, calls     *)
(* parseFromAddress, which loops over the inputs fetching each previous    *)
(* transaction.  Each of GetBlockHash, GetBlock and GetRawTransaction may  *)
(* fail in transit.  Any error unwinds the whole call at once with a nil   *)
(* result; an out-of-range previous-output index panics.                   *)
(*                                                                         *)
(* The node may reorganise while a call runs: Reorg replaces the block at *)
(* the height, at most MaxReorgs times.  getBlockByHeight resolves the     *)
(* height to a hash and then fetches the block by that hash, which the     *)
(* node still serves after the block left the best chain; ParseBlock then  *)
(* ranges over the block it fetched.  A block is named by its contents, so *)
(* the hash GetBlockHash returns is the block it stands for.               *)
(***************************************************************************)
EXTENDS BitcoinData

CONSTANTS
    Chains,     \* the node states a call may meet
    Forks,      \* the blocks a reorganisation may put at the height
    MaxReorgs   \* how many reorganisations a call may meet

ASSUME Forks \subseteq Seq(TxIds) \cup {NoBlock} /\ MaxReorgs \in Nat

VARIABLES
    node,              \* the full node's data
    reorgs,            \* reorganisations so far
    pc,                \* where ParseBlock is
    ti,                \* ParseBlock: index into the block's transactions
    oi,                \* parseTx: index into txResult's outputs
    ii,                \* parseFromAddress: index into txResult's inputs
    blockParsedResult, \* ParseBlock's accumulator
    parsedResult,      \* parseTx's named result
    toAddress,         \* parseFromAddress's named result
    blockhash,         \* getBlockByHeight: what GetBlockHash returned, or Nil
    blockResult,       \* ParseBlock: the block getBlockByHeight returned
    ret                \* Nil, or what ParseBlock returned

vars == <<node, reorgs, pc, blockhash, blockResult, ti, oi, ii, blockParsedResult, parsedResult, toAddress,
          ret>>

Terminal == {"returned", "panicked"}

\* The wrap site of an error and whether the node lacked the data
\* ("NotFound") or could not be reached ("Unavailable").
RpcError == [at : {"GetBlockHash", "GetBlock", "GetRawTransaction",
                   "VinGetRawTransaction"},
             cause : {"NotFound", "Unavailable"}]
DataError == [at : {"VinTxOutNull", "PkScriptToAddress"}, cause : {"Data"}]

\* The transaction parseTx fetched, and the output it is at.
txResult == node.tx[blockResult[ti]]
txOut == txResult.txOut[oi]

\* Any error: every caller up to ParseBlock returns nil and the error.
Fail(at, cause) ==
    /\ pc' = "returned"
    /\ ret' = [results |-> Nil, err |-> [at |-> at, cause |-> cause]]
    /\ UNCHANGED <<node, reorgs, blockhash, blockResult, ti, oi, ii,
                   blockParsedResult, parsedResult, toAddress>>

-----------------------------------------------------------------------------
Init ==
    /\ node \in Chains
    /\ reorgs = 0
    /\ pc = "getBlockHash"
    /\ blockhash = Nil
    /\ blockResult = <<>>
    /\ ti = 1 /\ oi = 1 /\ ii = 1
    /\ blockParsedResult = <<>>
    /\ parsedResult = <<>>
    /\ toAddress = <<>>
    /\ ret = Nil

\* getBlockByHeight: client.GetBlockHash(height).
GetBlockHash ==
    /\ pc = "getBlockHash"
    /\ \/ /\ node.block # NoBlock
          /\ pc' = "getBlock"
          /\ blockhash' = node.block
          /\ UNCHANGED <<node, reorgs, blockResult, ti, oi, ii,
                         blockParsedResult, parsedResult, toAddress, ret>>
       \/ node.block = NoBlock /\ Fail("GetBlockHash", "NotFound")
       \/ Fail("GetBlockHash", "Unavailable")

\* ParseBlock once getBlockByHeight returned the block: the result list
\* made and the loop over the block's transactions begun.
BeginParse(block) ==
    /\ pc' = "parseTx"
    /\ ti' = 1
    /\ blockParsedResult' = <<>>
    /\ blockResult' = block
    /\ UNCHANGED <<node, reorgs, blockhash, oi, ii, parsedResult, toAddress,
                   ret>>

\* Mutation: the block fetched again at the height rather than by the hash
\* (the hash kept only when the height has gone).
GetBlockAtHeight ==
    /\ pc = "getBlock"
    /\ \/ BeginParse(IF node.block = NoBlock THEN blockhash ELSE node.block)
       \/ Fail("GetBlock", "Unavailable")

\* getBlockByHeight: client.GetBlock(blockhash), which returns the block
\* the hash names or fails in transit.
GetBlock ==
    /\ pc = "getBlock"
    /\ \/ BeginParse(blockhash)
       \/ Fail("GetBlock", "Unavailable")

\* ParseBlock's loop: parseTx(v.TxHash()) starts with GetRawTransaction.
GetRawTransaction ==
    /\ pc = "parseTx"
    /\ ti <= Len(blockResult)
    /\ \/ /\ pc' = "parseOutput"
          /\ oi' = 1
          /\ parsedResult' = <<>>
          /\ UNCHANGED <<node, reorgs, blockhash, blockResult, ti, ii,
                         blockParsedResult, toAddress, ret>>
       \/ Fail("GetRawTransaction", "Unavailable")

\* ParseBlock's loop is over: it returns the accumulated results.
ParseBlockReturn ==
    /\ pc = "parseTx"
    /\ ti > Len(blockResult)
    /\ pc' = "returned"
    /\ ret' = [results |-> blockParsedResult, err |-> Nil]
    /\ UNCHANGED <<node, reorgs, blockhash, blockResult, ti, oi, ii,
                   blockParsedResult, parsedResult, toAddress>>

\* Mutation: the from-addresses are collected once per transaction instead
\* of afresh for each payment (toAddress not reset).
ParseTxOutSharedFrom ==
    /\ pc = "parseOutput"
    /\ oi <= Len(txResult.txOut)
    /\ LET r == parseAddress(txOut.pkScript) IN
       \/ /\ r.err = "ParsePkScript" \/ (r.err = Nil /\ r.addr # Watched)
          /\ oi' = oi + 1
          /\ UNCHANGED <<node, reorgs, blockhash, blockResult, pc, ti, ii,
                         blockParsedResult, parsedResult, toAddress, ret>>
       \/ r.err \notin {Nil, "ParsePkScript"} /\ Fail("PkScriptToAddress", "Data")
       \/ /\ r.err = Nil /\ r.addr = Watched
          /\ pc' = "parseFromAddress" /\ ii' = 1
          /\ UNCHANGED <<node, reorgs, blockhash, blockResult, ti, oi,
                         blockParsedResult, parsedResult, toAddress, ret>>

\* parseTx's loop body: parseAddress(v.PkScript), then skip, abort, or
\* call parseFromAddress on a payment to the watched address.
ParseTxOut ==
    /\ pc = "parseOutput"
    /\ oi <= Len(txResult.txOut)
    /\ LET r == parseAddress(txOut.pkScript) IN
       \/ /\ \/ r.err = "ParsePkScript"
             \/ r.err = Nil /\ r.addr # Watched
          /\ oi' = oi + 1
          /\ UNCHANGED <<node, reorgs, blockhash, blockResult, pc, ti, ii,
                         blockParsedResult, parsedResult, toAddress, ret>>
       \/ /\ r.err \notin {Nil, "ParsePkScript"}
          /\ Fail("PkScriptToAddress", "Data")
       \/ /\ r.err = Nil /\ r.addr = Watched
          /\ pc' = "parseFromAddress"
          /\ ii' = 1
          /\ toAddress' = <<>>
          /\ UNCHANGED <<node, reorgs, blockhash, blockResult, ti, oi,
                         blockParsedResult, parsedResult, ret>>

\* parseTx returns; ParseBlock appends its results and moves on.
ParseTxReturn ==
    /\ pc = "parseOutput"
    /\ oi > Len(txResult.txOut)
    /\ blockParsedResult' = blockParsedResult \o parsedResult
    /\ ti' = ti + 1
    /\ pc' = "parseTx"
    /\ UNCHANGED <<node, reorgs, blockhash, blockResult, oi, ii,
                   parsedResult, toAddress, ret>>

\* Mutation: no continue after ErrParsePkScript, so the empty address of a
\* non-standard script is appended.
ParseFromAddressInNoContinue ==
    /\ pc = "parseFromAddress"
    /\ ii <= Len(txResult.txIn)
    /\ LET vin == txResult.txIn[ii] IN
       \/ Fail("VinGetRawTransaction", "Unavailable")
       \/ vin.hash \notin DOMAIN node.tx /\ Fail("VinGetRawTransaction", "NotFound")
       \/ /\ vin.hash \in DOMAIN node.tx
          /\ LET vinOuts == node.tx[vin.hash].txOut IN
             \/ Len(vinOuts) = 0 /\ Fail("VinTxOutNull", "Data")
             \/ /\ 0 < Len(vinOuts) /\ vin.index >= Len(vinOuts)
                /\ pc' = "panicked"
                /\ UNCHANGED <<node, reorgs, blockhash, blockResult, ti, oi,
                               ii, blockParsedResult, parsedResult,
                               toAddress, ret>>
             \/ /\ vin.index < Len(vinOuts)
                /\ LET r == parseAddress(vinOuts[vin.index + 1].pkScript) IN
                   \/ /\ r.err \in {Nil, "ParsePkScript"}
                      /\ ii' = ii + 1
                      /\ toAddress' = Append(toAddress, IF r.err = Nil
                                                        THEN r.addr ELSE "")
                      /\ UNCHANGED <<node, reorgs, blockhash, blockResult,
                                     pc, ti, oi, blockParsedResult,
                                     parsedResult, ret>>
                   \/ /\ r.err \notin {Nil, "ParsePkScript"}
                      /\ Fail("PkScriptToAddress", "Data")

\* parseFromAddress's loop body: fetch the previous transaction, check its
\* outputs, index TxOut[vin.PreviousOutPoint.Index], parse its address.
ParseFromAddressIn ==
    /\ pc = "parseFromAddress"
    /\ ii <= Len(txResult.txIn)
    /\ LET vin == txResult.txIn[ii] IN
       \/ Fail("VinGetRawTransaction", "Unavailable")
       \/ vin.hash \notin DOMAIN node.tx
          /\ Fail("VinGetRawTransaction", "NotFound")
       \/ /\ vin.hash \in DOMAIN node.tx
          /\ LET vinOuts == node.tx[vin.hash].txOut IN
             \/ Len(vinOuts) = 0 /\ Fail("VinTxOutNull", "Data")
             \* index out of range: the goroutine panics
             \/ /\ 0 < Len(vinOuts) /\ vin.index >= Len(vinOuts)
                /\ pc' = "panicked"
                /\ UNCHANGED <<node, reorgs, blockhash, blockResult, ti, oi,
                               ii, blockParsedResult, parsedResult,
                               toAddress, ret>>
             \/ /\ vin.index < Len(vinOuts)
                /\ LET r == parseAddress(vinOuts[vin.index + 1].pkScript) IN
                   \/ /\ r.err \in {Nil, "ParsePkScript"}
                      /\ ii' = ii + 1
                      /\ toAddress' = IF r.err = Nil
                                      THEN Append(toAddress, r.addr)
                                      ELSE toAddress
                      /\ UNCHANGED <<node, reorgs, blockhash, blockResult,
                                     pc, ti, oi, blockParsedResult,
                                     parsedResult, ret>>
                   \/ /\ r.err \notin {Nil, "ParsePkScript"}
                      /\ Fail("PkScriptToAddress", "Data")

\* parseFromAddress returns; parseTx appends one result for the output.
ParseFromAddressReturn ==
    /\ pc = "parseFromAddress"
    /\ ii > Len(txResult.txIn)
    /\ parsedResult' = Append(parsedResult,
                              [Value |-> txOut.value, From |-> toAddress,
                               To |-> txOut.pkScript])
    /\ oi' = oi + 1
    /\ pc' = "parseOutput"
    /\ UNCHANGED <<node, reorgs, blockhash, blockResult, ti, ii,
                   blockParsedResult, toAddress, ret>>

\* The node's best chain changes: another block, or none, is at the height.
\* The transactions the node stores stay as they are.
Reorg ==
    /\ pc \notin Terminal
    /\ reorgs < MaxReorgs
    /\ \E b \in Forks \ {node.block} : node' = [node EXCEPT !.block = b]
    /\ reorgs' = reorgs + 1
    /\ UNCHANGED <<pc, blockhash, blockResult, ti, oi, ii, blockParsedResult,
                   parsedResult, toAddress, ret>>

Next ==
    \/ Reorg
    \/ GetBlockHash
    \/ GetBlock
    \/ GetRawTransaction
    \/ ParseBlockReturn
    \/ ParseTxOut
    \/ ParseTxReturn
    \/ ParseFromAddressIn
    \/ ParseFromAddressReturn

\* ParseBlock runs on the caller's goroutine, which is scheduled until the
\* call returns: weak fairness on the whole next-state relation.
Spec == Init /\ [][Next]_vars /\ WF_vars(Next)

-----------------------------------------------------------------------------
TypeOK ==
    /\ node \in Node
    /\ reorgs \in 0..MaxReorgs
    /\ blockhash \in Seq(TxIds) \cup {Nil}
    /\ blockResult \in Seq(TxIds)
    /\ pc \in {"getBlockHash", "getBlock", "parseTx", "parseOutput",
               "parseFromAddress"} \cup Terminal
    /\ {ti, oi, ii} \subseteq Nat \ {0}
    /\ blockParsedResult \in Seq(ParseResult)
    /\ parsedResult \in Seq(ParseResult)
    /\ toAddress \in Seq(Addr)
    /\ ret \in {Nil}
              \cup [results : Seq(ParseResult), err : {Nil}]
              \cup [results : {Nil}, err : RpcError \cup DataError]

\* The error kind spec.md 7 gives each error the code can return.
SpecErrorOf(e) ==
    CASE e.cause = "Unavailable"      -> "ChainUnavailable"
      [] e.at = "GetBlockHash"        -> "HeightNotFound"
      [] e.at = "VinGetRawTransaction" -> "PrevTxFetchError"
      [] e.at = "VinTxOutNull"        -> "MalformedPrevTx"
      [] e.at = "PkScriptToAddress"   -> "ResolverError"

\* Refinement mapping: what the caller has seen of the call.  The panic on
\* an out-of-range index ends the call without a result where the promise
\* reports MalformedPrevTx; NoPanic shows the difference.
outcomeBar ==
    CASE pc = "panicked"                 -> [results |-> Nil,
                                              err |-> "MalformedPrevTx"]
      [] pc = "returned" /\ ret.err = Nil -> ret
      [] pc = "returned"                  -> [results |-> Nil,
                                              err |-> SpecErrorOf(ret.err)]
      [] OTHER                            -> [results |-> Nil, err |-> Nil]

\* The node as the call sees it: once GetBlockHash has answered, the block
\* at the height is the one it named, whatever the node reorganises later.
nodeBar == IF blockhash = Nil THEN node
           ELSE [node EXCEPT !.block = blockhash]

Abstract == INSTANCE IndexerSpec WITH outcome <- outcomeBar, node <- nodeBar

\* ParseBlock implements its promise: every call returns, and what it
\* returns is the expected list of payments in block, output and input
\* order with no error, or a transit failure, or the first data error met
\* in that order, never with a partial list (indexer.go ParseBlock,
\* parseTx, parseFromAddress).
IndexerImplementsSpec == Abstract!Spec

\* spec.md 4.4: an input whose index is past the previous transaction's
\* outputs is a data-integrity error (MalformedPrevTx) like an empty output
\* list.  parseFromAddress only checks for an empty list and then indexes
\* TxOut[vin.PreviousOutPoint.Index], so ParseBlock never panics only if
\* the node never reports such an input.
NoPanic == pc # "panicked"

\* A block consensus rules accept is indexed: unless an RPC fails in
\* transit, ParseBlock returns its payments rather than an error
\* (spec.md 1 and 4.5: errors mean data that does not exist or cannot be
\* fetched, and the caller retries the same height).
ConsensusBlocksIndexed ==
    (pc \in Terminal /\ ConsensusValid(node))
        => pc = "returned" /\ (ret.err # Nil => ret.err.cause = "Unavailable")

=============================================================================

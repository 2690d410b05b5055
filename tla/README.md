# TLA+ models of b2-node's bitcoin indexer and bridge types

This directory holds TLA+ modules, TLC configurations and the project file
(`PROJECT.json`) for the code under `src/`. The main subject is the bitcoin
indexer in `src/bitcoin/indexer.go`. It turns a block height into the list of
payments to one watched address, and it traces each payment's senders through
a chain of RPC calls to a full node.

## 1. Inventory

### Components

| Component | Source | State | Operations |
|---|---|---|---|
| Bitcoin indexer | `src/bitcoin/indexer.go` | Fixed configuration: RPC client, chain params, `listenAddress`. Per call: `blockParsedResult`, `parsedResult`, `toAddress` and the three loop positions. | `NewBitcoinIndexer`, `ParseBlock`, `getBlockByHeight`, `parseTx`, `parseFromAddress`, `parseAddress` |
| Full node (external) | reached through `rpcclient` | Blocks by height and hash, transactions by hash | `GetBlockHash`, `GetBlock`, `GetRawTransaction`. Any of them can fail in transit. |
| Indexer interface | `src/types/bitcoin_indexer.go` | none | Declares `ParseBlock(from, to)` and `LatestBlock`. Nothing in `src/` implements it. |
| Event codec | `src/x/bridge/types/events.pb.go` | none (pure) | `Marshal`, `MarshalToSizedBuffer`, `MarshalTo`, `Size`, `encodeVarintEvents`, `sovEvents`, `Unmarshal`, `skipEvents`, and the runtime's `Reset`, `XXX_Size`, `XXX_Marshal` and `XXX_Unmarshal`. These cover seven events, each with one string field. |
| Deposit messages | `src/x/bridge/types/messages_deposit.go` | none (pure) | Constructors, `ValidateBasic`, `GetSigners` (which panics on a bad creator), `GetSignBytes` |
| CLI query command | `src/x/bridge/client/cli/query.go` | none | Registers subcommands |
| Tests | `src/x/bridge/keeper/*_test.go`, `src/x/bridge/client/cli/*_test.go` | – | Test a keeper and a CLI that are not in this tree |

### How the parts interact

`ParseBlock` runs synchronously on its caller's goroutine. It makes these calls
in order:

1. `GetBlockHash(height)`, then `GetBlock(hash)`.
2. For each transaction of the block, in block order: `parseTx`.
   - `parseTx` re-fetches the transaction with `GetRawTransaction`.
   - It calls `parseAddress` on each output.
   - For each output that pays the watched address, it calls
     `parseFromAddress`.
3. `parseFromAddress` visits every input, in input order:
   - It fetches the previous transaction (`GetRawTransaction`).
   - It rejects an empty output list.
   - It indexes `TxOut[Index]` and parses that output's address.

`parseAddress` errors come in two kinds:

- A script that `ParsePkScript` rejects is wrapped as `ErrParsePkScript`. Both
  loops skip such scripts.
- Every other error goes straight up to `ParseBlock`. `ParseBlock` then
  returns `nil` and the error.

The results go to the bridge module, which is not part of `src/`.

### What is hard

There is no concurrency inside a call. The hard parts are these:

- **Partial failure.** Any of the many RPCs can fail at any point. The call
  must still be all-or-nothing: two accumulators hold earlier results, and
  neither may leak out.
- **Error classification.** Skipping and aborting are told apart only by
  `errors.Is(err, ErrParsePkScript)`.
- **Ordering.** Three nested loops must produce block order, then output
  order, then input order.
- **Node data the code trusts.** This includes the output index and the
  coinbase's null outpoint.
- **Reorganisations.** The node may change the block at a height between
  `GetBlockHash` and `GetBlock`, or while the block is being walked.
- **Configuration across networks.** The watched address is decoded once,
  under `chainParams`. Every output is then encoded under the same
  parameters and compared as a string. An address that decodes but belongs
  to another network is never equal to any output's address.
- **Codec edges.** Varints can overflow, and a length can turn negative when
  converted to `int`.

`PROJECT.json` `hazards` lists each hazard at its source line.

### What makes each component correct

- **Indexer.** A call returns. On success it returns exactly the payments
  spec.md section 4 describes, in order, with `To` equal to the watched
  address. Otherwise it returns one error and no list. Only non-standard
  scripts are skipped. It never panics on node data. A block that consensus
  rules accept can be indexed.
- **Indexer construction.** `NewBitcoinIndexer` builds an indexer only for
  an address that some output of its network can pay (spec.md 3 and 7).
- **Event codec.** `Unmarshal(Marshal(m)) = m`, and `Size(m)` equals the length
  of `Marshal(m)`. `Unmarshal` rejects truncated, overflowing and malformed
  input with the documented errors and never reads past the buffer.
- **Deposit messages.** `GetSigners` cannot panic on a message that
  `ValidateBasic` accepted. `MsgUpdateDeposit` needs a rollup hash and an AA
  address.

## 2. Plan

The work is ordered by importance:

1. **Indexer (done).**
   - `BitcoinData` holds the data and `parseAddress`.
   - `IndexerSpec` is the atomic promise.
   - `Indexer` is the step-by-step code, shown to implement `IndexerSpec`.
   - `IndexerChains` and `MC_Indexer` hold the node states TLC checks.
   - `IndexerConfig` models `NewBitcoinIndexer` and the address comparison
     across networks.
2. **Event codec (done).** `Word64`, `EventsCodec`, `WireFormat` and
   `MC_EventsCodec` model the generated protobuf code. They check it against
   the wire-format rules.
3. **Deposit messages (done).** `DepositMsgs` and `MC_DepositMsgs` cover the
   constructors, `ValidateBasic` and `GetSigners`.
4. **Polling caller (not planned).** The loop that calls `ParseBlock` for
   successive heights is outside the repository: spec.md 6 calls the indexer a
   "library invoked by an external polling loop". A model of it would be a
   model of no code here.

## 3. Modules

### `BitcoinData`

This module holds the constants and data shapes.

- **Scripts** are abstracted to how `parseAddress` treats them:
  - an address: its encoded form (a model value);
  - `NonStandard`: `ParsePkScript` fails, and the error is skipped;
  - `NoAddress`: `Address` fails, and the call aborts.
- **Hashes and values** are model values, because the indexer only compares
  and copies them.
- **`CoinbaseIn`** is the input of a coinbase transaction.
- **`ConsensusValid`** describes a block that consensus rules accept, as far as
  the indexer can tell.

### `IndexerSpec`

This module is the abstract specification of `ParseBlock`, as one `Return`
step.

- `Expected` is defined by `FoldLeft` (from SequencesExt) over the block's
  transactions, each transaction's outputs and each input. The first error in
  that order wins.
- `Return` produces either `Expected` or a `ChainUnavailable` transit failure.
- `WF_vars(Return)` makes the call return.
- It differs from the code in one place. Following spec.md 4.4 and 9, an
  out-of-range index is `MalformedPrevTx`.

### `Indexer`

This module is the code, with one action per RPC round trip or loop
iteration.

| Action | Code |
|---|---|
| `GetBlockHash` | `getBlockByHeight`: `GetBlockHash` (`NotFound` when the height is past the tip) |
| `GetBlock` | `client.GetBlock(blockhash)` (line 70); on success `BeginParse`: `ParseBlock` makes its result list and starts its loop (lines 48–53) |
| `GetRawTransaction` | `parseTx`'s fetch |
| `ParseBlockReturn` | `ParseBlock`'s loop ends and it returns |
| `ParseTxOut` | One output: skip, abort, or call `parseFromAddress` |
| `ParseTxReturn` | `ParseBlock` appends `parsedResult` |
| `ParseFromAddressIn` | One input: fetch, empty-list guard, panic on out-of-range index, skip/append/abort |
| `ParseFromAddressReturn` | `parseTx` appends one `BitcoinTxParseResult` |

- `Reorg` is the node, not the code: while the call runs, the block at
  the height may be replaced by another block from `Forks`, or by none, at
  most `MaxReorgs` times. The transactions the node stores do not change.
  `GetBlockHash` records the block it named in `blockhash`. `GetBlock`
  copies that block into `blockResult`, because the node serves a block by
  hash even after it has left the best chain. The loops range over
  `blockResult`, which is the code's local `blockResult`.
- Every RPC action also has a transit-failure disjunct (`cause` is
  `"Unavailable"`).
- `Fail` unwinds the whole call in one step, returning `nil` and the error, as
  the chain of `return nil, err` statements does.
- The node's data is the variable `node`. It is chosen in `Init` and never
  changes.
- The refinement maps the node through `nodeBar`. Before `GetBlockHash`
  answers, `nodeBar` is the node. After that, it is the node with the block
  `GetBlockHash` named. A history variable (`blockhash`) makes this mapping
  possible. `IndexerSpec` has its own `Reorg` step, which changes the node
  only while the call has not returned.
- The refinement mapping `outcomeBar` translates the code's errors into the
  error kinds of spec.md section 7. It maps the panic to `MalformedPrevTx`;
  `NoPanic` shows that difference separately.

### `IndexerChains` and `MC_Indexer`

`IndexerChains` defines `AllChains`, the node states TLC checks:

- There are two transaction hashes `t1` and `t2`, and the block is one of:
  - no block at the height;
  - an empty block;
  - `<<t1>>`, with up to 2 outputs and 2 inputs, where `t2` is a previous
    transaction with up to 2 outputs;
  - `<<t1, t2>>`, with one output and one input each.
- Inputs name `t1`, `t2` (index 0 or 1) or the coinbase outpoint.
- Output scripts are `W` (watched), `A`, `NonStandard` or `NoAddress`.
- Output values are `v1` or `v2`.

This gives 50,441 initial states. The following cases all occur:

- two payments in one transaction, each traced;
- from-lists with a skipped input between two addresses;
- a transaction spending another in the same block;
- an error in the second transaction after the first produced results;
- an error in the second output after the first was traced;
- every error path, and the panic.

`<<t2>>` and `<<t2, t1>>` are left out because renaming the hashes maps them
onto `<<t1>>` and `<<t1, t2>>`. For a previous transaction outside the block,
the inputs and output values are fixed, because the code never reads them.

### `IndexerConfig`

This module models `NewBitcoinIndexer` and the comparison at line 90 of
`parseTx` (`pkAddress == b.listenAddress.EncodeAddress()`), which
`BitcoinData` takes as given (`ASSUME Watched \in Addr`).

- `Params` holds the address parameters of the four networks chaincfg
  registers: mainnet, testnet3, regtest and simnet.
- An address string is a record of its encoding (base58, bech32, hex public
  key or junk), version byte or witness version, prefix and payload.
  `ListenAddresses` holds 47 of them. They cover every version byte of the
  four networks plus one unknown, every registered prefix plus one unknown,
  witness versions 0 and 2, and payloads of 20 bytes, 32 bytes and a wrong
  length.
- `DecodeAddress`, `EncodeAddress` and `ScriptAddress` model btcutil and
  txscript:
  - a bech32 string is taken under any registered prefix;
  - a base58 string is taken only with one of `defaultNet`'s version bytes;
  - a hex public key takes `defaultNet`'s version byte, and it is encoded as
    its P2PKH address.
- `parseAddress(pkScript, chainParams)` and `Watches(b)` are the code.
  `Watches(b)` is the set of output scripts that `parseTx` takes as payments.

| Action | Code |
|---|---|
| `NewBitcoinIndexer` | `indexer.go` 31–42: decode under `chainParams`; on an error, return `ErrDecodeListenAddress` and no indexer |
| `ParseTxOut` | `parseTx` 80–90 for one output script: `parseAddress`, then the comparison |

### `Word64`

TLC's integers stop at 2^31 - 1. The generated code computes in Go's 64-bit
`uint64` and `int`, and its overflow checks matter exactly where values pass
2^63. So a word is four 16-bit limbs, least significant first. Every operation
wraps modulo 2^64, and the word reads as negative when bit 63 is set.

Each operator is one expression of `Unmarshal`:

| Operator | Code |
|---|---|
| `OrShift7` | `wire \|= uint64(b&0x7F) << shift` (bits past 63 are dropped) |
| `Int32Shr3` | `int32(wire >> 3)` |
| `Low3` | `int(wire & 0x7)` |
| `IsNeg` | `intStringLen < 0` |
| `AddW` | `iNdEx + intStringLen` |
| `GtNat`, `LtNat` | `postIndex > l` and the skip loop's `iNdEx < l` |

### `EventsCodec`

`events.pb.go` holds seven generated copies of the same code, one per event.
Each has one string field: `TxHash` for the deposit events and `TxId` for the
withdraw events. `EventsCodec` models the code once, parameterised by the
field name, and gives each event its own `<Event>_Marshal`, `_Size`,
`_MarshalToSizedBuffer` and `_Unmarshal`, together with the methods the
runtime calls: `_Reset`, `_MarshalTo`, `_XXX_Size`, `_XXX_Marshal` and
`_XXX_Unmarshal`. Each event also gets its nil-safe getter, `_GetTxHash` or
`_GetTxId`. `MC_EventsCodec` calls all of these through dispatchers keyed
by the event's name, and `RoundTrip` reads the decoded field through the
getter.

- **Encoding.** `MarshalToSizedBufferOf` writes back to front into a buffer
  of `Size` bytes:
  1. It copies the string.
  2. `encodeVarintEvents` steps back `sovEvents(len)` bytes and writes the
     length forward.
  3. It writes the tag `0xa`.
  An index outside the buffer is a Go panic, recorded as `Panicked`.
- **Decoding.** `UnmarshalLoop` is the `for iNdEx < l` loop, one recursion
  per field, with the code's checks in the code's order:
  - the tag varint (`VarintLoop`, with the `shift >= 64` overflow check);
  - `wireType == 4`, then `fieldNum <= 0`;
  - the length varint;
  - `intStringLen < 0`, `postIndex < 0` and `postIndex > l`;
  - the slice.
  Unknown fields go to `skipEvents`. Its loop is `SkipLoop` (the loop
  condition), `SkipTag` (the tag varint), `SkipWire` (a `CASE` on the wire
  type that tracks group depth) and `SkipNext` (the checks after the
  switch). The caller checks its result. `UnmarshalLoop` is the loop
  condition and `UnmarshalField` one field. A tag is passed from step to
  step as an argument, not bound with `LET`. TLC then builds its coverage
  cost model in seconds rather than minutes; the meaning is the same.
  `UnmarshalOf` starts from the message `Unmarshal` is called on, not from
  an empty one.
- **Errors.** Every error is a named value (`IntOverflow`, `UnexpectedEOF`,
  `InvalidLength`, …). A slice outside the buffer is `Panic`. On an error,
  the message keeps whatever was decoded before the error, as it does in Go.
- **The runtime's entry points.** These are modelled once, on the
  `EventCreateDeposit` copy:
  - `ResetOf`: `*m = E{}`.
  - `XXXSizeOf` and `XXXUnmarshalOf`: they delegate to `Size` and
    `Unmarshal`.
  - `XXXMarshalOf`: `b[:cap(b)]`, then `MarshalToSizedBuffer`, then
    `b[:n]`.
  - `MarshalToOf`: `MarshalToSizedBuffer` on `dAtA[:Size()]`, which panics
    when `dAtA` is shorter than that.

### `WireFormat`

This module is the reference. It is written from the protobuf encoding rules,
not from the code:

- `Varint`, `Tag` and `Encode` build the bytes of a list of fields of any wire
  type, groups included.
- `MergeString(fs, old)` says what decoding `fs` into a message holding
  `old` must give: the last occurrence of field 1, or `old` when there is
  none.

### `MC_EventsCodec`

A behaviour picks one event and one case. It then encodes and decodes, or
only decodes. A case names the encoder (`Marshal`, `proto.Marshal`, or
`MarshalTo` with 0 or 1 spare bytes). It also names the decoder: `Unmarshal`
into an empty message or one holding `0a`, or `proto.Unmarshal`. The inputs
are:

| Kind | Inputs |
|---|---|
| `message` | Strings of length 0–2 over `{0, 10, 128}`, and strings of 127, 128, 16383 and 16384 bytes (the edges of a one- and a two-byte length varint) |
| `wellformed` | Encodings of up to two fields, or string/unknown/string. Unknown fields cover every wire type: a varint of 300, fixed64, fixed32 at fields 15 and 16 (one- and two-byte tags), field number 2^20, an empty group, a group holding field 1, and nested groups. |
| `malformed` | Every cut of those encodings that falls inside a field; field 1 with each other wire type; and the 64-bit edges: an 11-byte tag, lengths 2^64 - 1, 2^63 - 1 and 2^62, an unknown field of length 2^63 - 1, a skip that lands at 2^63 - 1, end-group and illegal wire types, and field number -2^31 |
| `overlong` | The three inputs of the finding below |
| `bytes` | All strings of up to 3 bytes over 16 tag-, length- and continuation-like bytes, and of 4 bytes over 7 |

That is 118,202 distinct states.

### `DepositMsgs` and `MC_DepositMsgs`

- A message is a record of its kind and fields. The strings are model values.
- `sdk.AccAddressFromBech32` is abstracted to membership in
  `Bech32Accounts`.
- Each message has its own `Type`, `GetSigners` and `ValidateBasic`, as in
  the code. Their shared bodies are `SignersOf`, `ValidateCreator` and
  `ValidateUpdate`.
- `MC_DepositMsgs` builds each message its constructors can build, over:
  - a creator that is a valid account, an invalid string, or empty;
  - an empty or non-empty rollup hash and AA address.
  It then calls `ValidateBasic` and, for accepted messages, `GetSigners`, in
  that order, as the Cosmos SDK's baseapp does before its ante handler reads the signers.

## 4. Runs

| Run | cfg | Expect | Properties | What it shows |
|---|---|---|---|---|
| `indexer_refines_spec` | `MC_Indexer.cfg` | pass | `TypeOK`, `IndexerImplementsSpec` | See below. |
| `indexer_reorg_snapshot` | `MC_Indexer_reorg.cfg` | pass | `IndexerImplementsSpec` | See below. |
| `indexer_index_panic` | `MC_Indexer_panic.cfg` | violation | `NoPanic` | An input naming index 1 of a one-output transaction panics in `parseFromAddress`. spec.md 4.4 expects `MalformedPrevTx`. |
| `indexer_coinbase_to_watched` | `MC_Indexer_coinbase.cfg` | violation | `ConsensusBlocksIndexed` | See below. |
| `indexer_config_own_network` | `MC_IndexerConfig.cfg` | pass | `TypeOK`, `OwnAddressesWatched`, `OnlyForeignPrefixUndetectable` | See below. |
| `indexer_config_foreign_prefix` | `MC_IndexerConfig_foreign.cfg` | violation | `WatchedAddressDetectable` | See below. |
| `codec_roundtrip_and_decode` | `MC_EventsCodec.cfg` | pass | `RoundTrip`, `DecodesWellFormed`, `RejectsMalformed`, `NeverPanics` | See below. |
| `codec_overlong_tags` | `MC_EventsCodec_overlong.cfg` | violation | `RejectsOverlongTags` | `Unmarshal` accepts tags that the wire format does not have. |
| `deposit_signers_after_validate` | `MC_DepositMsgs.cfg` | pass | `SignersAfterValidate` | `GetSigners` never panics after `ValidateBasic` accepted, and it returns the creator. |

**`indexer_refines_spec`** covers every node state and every pattern of
transit failures. In all of them, `ParseBlock` returns, and it returns what
`IndexerSpec` promises: no partial list, the right order, the right skips,
and from-lists that start empty for each payment. This takes 544,266 states
and about 1.5 minutes.

**`indexer_reorg_snapshot`** allows one reorganisation at any point of
the call. It may install any block over `t1` and `t2`, or remove the block
at the height. The bounds are smaller: one output and one input per
transaction. Every call still returns the payments of exactly the block
that `GetBlockHash` named, or an error. Its transactions are never mixed with
those of the block that replaced it. The run takes 316,559 states and about
40 seconds. Its mutant `GetBlockAtHeight` fetches the block at the height a
second time, and TLC catches it. spec.md does not ask the indexer to detect
reorganisations, and the model confirms it does not: a block that has left
the best chain is still reported.

**`indexer_coinbase_to_watched`** uses a consensus-valid block whose coinbase
pays the watched address, on a node that never fails. `ParseBlock` fails,
because tracing the coinbase input fetches the null hash. A caller retrying
the height never gets past it.

The two passing-run properties each have a mutant in `PROJECT.json`. TLC
catches both:

- `ParseTxOutSharedFrom` does not reset the from-list between payments.
- `ParseFromAddressInNoContinue` appends `""` for a non-standard input.

`CHECK_DEADLOCK FALSE`: each behaviour is one call, which ends by returning or
panicking. Nothing runs after that.

**`indexer_config_own_network`** runs `NewBitcoinIndexer` on every
network and every listen-address string, then runs `parseTx` on one output
of each script template. It takes 1,553 states. It shows two things:

- An address of the indexer's own network is accepted. `parseTx` then
  matches exactly the outputs whose scripts resolve to that address. A
  P2SH output with the watched P2PKH hash does not match, and neither does
  a segwit output with the same program.
- Only one kind of accepted address can never match a payment: a bech32
  address with another network's prefix. Base58 addresses of other networks
  are refused. Testnet3 and regtest share their version bytes and encode the
  same way.

Its mutants:

- `NewBitcoinIndexerNoCheck` ignores the decode error. It breaks `TypeOK`.
- `parseAddressMainnet` encodes for mainnet whatever `chainParams` says. It
  breaks the other two properties.

**`indexer_config_foreign_prefix`** finds a testnet3 indexer given a
`bc1q...` address. `NewBitcoinIndexer` returns no error, because
`DecodeAddress` takes any registered bech32 prefix and the code never calls
`IsForNet(chainParams)`. `parseAddress` encodes every output as `tb1q...`, so
no output ever matches. The indexer runs and reports no deposits.
spec.md 3 and 7 say the address is validated against the network
parameters, and construction fails with `InvalidWatchedAddress` if it is
not.

**`codec_roundtrip_and_decode`** checks all seven events. It shows:

- `Marshal` yields exactly the wire-format bytes, in `Size` bytes, with no
  zero byte left over at the 127/128 and 16383/16384 length edges.
- `Unmarshal` returns the message.
- Unknown fields of every wire type are skipped, and the last field 1 wins.
- Every cut inside a field and every 64-bit edge input is rejected with an
  error.
- No input makes `Unmarshal` slice past its buffer.

Each message is encoded through each entry point:

- `Marshal`;
- `proto.Marshal`, which calls `XXX_Size` and then `XXX_Marshal` into
  `make([]byte, 0, size)`;
- `MarshalTo`, into a buffer of `Size` or `Size + 1` bytes of `0xff`.

All three write exactly the encoding at the front of the buffer. `MarshalTo`
leaves the spare byte alone.

Well-formed inputs are decoded two ways. `Unmarshal` is called on a message
that is empty or already holds `0a`. `proto.Unmarshal` calls `Reset` and then
`XXX_Unmarshal`. `Unmarshal` merges: when the input has no field 1, the old
string stays. That is the wire format's rule, and `DecodesWellFormed`
checks it against `WireFormat`'s `MergeString`.

The run takes 118,202 states and about a minute.

**`codec_overlong_tags`** finds three inputs that the wire format rejects and
the generated decoder accepts:

- `8a 80 80 80 80 01 01 0a`: the field number is 2^32 + 1, and
  `int32(wire >> 3)` truncates it to 1, so `TxHash` becomes `0a`.
- `13 1c`: a group opened by field 2 is closed by field 3's end-group tag.
  `skipEvents` counts depth only.
- A tag whose tenth byte carries bits past bit 63. The bits are dropped.

`google.golang.org/protobuf`'s `protowire` rejects all three, so the two
decoders read the same bytes differently. TLC reports the group case first.

The new mutants in `PROJECT.json` are:

- `EncodeVarintLoopGt` loops on `v > 128`.
- `SkipWireFixedSwapped` swaps the fixed64 and fixed32 widths.
- `VarintLoopNoOverflow` drops the `shift >= 64` check.
- `UnmarshalFieldNoBound` drops `postIndex > l`.
- `ValidateUpdateNoAddress` checks the creator only for emptiness.

TLC catches each one under its run's own cfg.

The codec and deposit runs also use `CHECK_DEADLOCK FALSE`: a behaviour is
one call, or a few calls, on one input, and it stops there.

### Fairness

`ParseBlock` runs on its caller's goroutine and blocks on each RPC. The RPC
client returns either a reply or an error: spec.md 5 says there is no timeout
contract, and the model assumes each RPC finishes. On that assumption,
`WF_vars(Next)` is justified, and the abstract `WF_vars(Return)` follows from
it.

## 5. Not modelled, and why

- **Reorganisations.** They are modelled within one call (see
  `indexer_reorg_snapshot`). Three things are not modelled:
  - reorganisations between calls, because a call has no state to carry
    across them;
  - a pruned node that no longer serves a stale block by hash;
  - a reorganised transaction dropping out of the node's index.
- **Nodes without a transaction index.** A deterministic `NotFound` for a
  block transaction would come from a node without `-txindex`. That is a
  deployment error and is not modelled; transit failures cover the control
  path.
- **`NoAddress` in valid blocks.** btcd's `PkScript.Address` succeeds for every
  script `ParsePkScript` accepts. The branch is modelled, but
  `ConsensusValid` excludes it.
- **Address formats left out of `IndexerConfig`.** Taproot (witness
  version 1) is left out, because which btcd release's `ParsePkScript`
  accepts it depends on the release. Signet is left out too, because chaincfg
  does not register it at init. P2PK scripts are covered by `NonStandard`,
  because `ParsePkScript` rejects them.
- **`BITCOINTxIndexer`, the CLI and the tests.** See `PROJECT.json`
  `components`.
- **`TxOut.Value`.** It is an `int64` that is only copied, so it is a model
  value.
- **The coinbase `Index`.** It is `2^32 - 1` in Go. The model uses
  `2^31 - 1`, because the indexer only compares it with output counts.
- **Codec glue.** These call the protobuf runtime's table-driven code,
  which is not in the repository, so they are not modelled:
  - `XXX_Marshal`'s deterministic path;
  - `XXX_Merge` and `XXX_DiscardUnknown`.

  `sozEvents` is not modelled, because no field is signed. Also not
  modelled: `String`, `Descriptor`, and the `init` registration. The
  getters' nil branch is modelled, but no run exercises it, because the
  runtime never decodes into a nil message.
- **`XXX_Marshal`'s buffer.** `XXX_Marshal` is checked only on the buffer
  the runtime passes: length 0 and capacity `Size()`. With spare capacity it
  would return the front of the buffer while the encoding sits at the end.
  No caller passes such a buffer.
- **Unreachable check.** `skipEvents`' end-group check at `depth == 0`
  (`events.pb.go:1331`) cannot be reached from `Unmarshal`, because
  `Unmarshal` rejects wire type 4 before calling it. The model keeps the
  branch.
- **Deposit messages.** `GetSignBytes` is not modelled: it is JSON produced
  by the SDK codec. `Route` is not modelled: it returns `RouterKey`, which is
  not defined under `src/`.
- **The polling loop.** It is external to the repository. See section 2.

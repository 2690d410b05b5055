---------------------------- MODULE DepositMsgs ----------------------------
(***************************************************************************)
(* The deposit messages of the bridge module                               *)
(* (src/x/bridge/types/messages_deposit.go): their constructors, Type,     *)
(* GetSigners and ValidateBasic.  A message is a record with its kind and  *)
(* its fields; strings are model values, the empty string one of them.     *)
(*                                                                         *)
(* sdk.AccAddressFromBech32 belongs to the Cosmos SDK: it accepts exactly  *)
(* the strings of Bech32Accounts (non-empty, the account prefix, a valid   *)
(* checksum) and fails on every other.                                     *)
(***************************************************************************)
EXTENDS Naturals, Sequences

CONSTANTS
    Strings,          \* the strings a field may hold
    Empty,            \* "" (a member of Strings)
    Bech32Accounts,   \* the strings AccAddressFromBech32 decodes
    CoinTypes,        \* CoinType values
    Statuses,         \* DepositStatus values
    Values            \* int64 values (only ever copied)

ASSUME Empty \in Strings /\ Bech32Accounts \subseteq Strings \ {Empty}

NoErr == "nil"

AccAddressFromBech32(s) ==
    IF s \in Bech32Accounts THEN [addr |-> s, err |-> NoErr]
    ELSE [addr |-> Empty, err |-> "InvalidBech32"]

\* The fields no method of this file reads are kept as they were given.
NewMsgCreateDeposit(creator, txHash, from, to, coinType, value, data) ==
    [kind |-> "create_deposit", Creator |-> creator, TxHash |-> txHash,
     From |-> from, To |-> to, CoinType |-> coinType, Value |-> value,
     Data |-> data]

NewMsgUpdateDeposit(creator, txHash, status, rollupTxHash, fromAa) ==
    [kind |-> "update_deposit", Creator |-> creator, TxHash |-> txHash,
     Status |-> status, RollupTxHash |-> rollupTxHash, FromAa |-> fromAa]

NewMsgDeleteDeposit(creator, txHash) ==
    [kind |-> "delete_deposit", Creator |-> creator, TxHash |-> txHash]

\* Type() of each message: its TypeMsg constant.
MsgCreateDeposit_Type(msg) == "create_deposit"
MsgUpdateDeposit_Type(msg) == "update_deposit"
MsgDeleteDeposit_Type(msg) == "delete_deposit"

\* The body of GetSigners, the same in the three messages: the decoded
\* creator, or a panic when it does not decode.
SignersOf(creator) ==
    LET c == AccAddressFromBech32(creator)
    IN IF c.err # NoErr THEN [panic |-> TRUE, signers |-> <<>>]
       ELSE [panic |-> FALSE, signers |-> <<c.addr>>]

MsgCreateDeposit_GetSigners(msg) == SignersOf(msg.Creator)
MsgUpdateDeposit_GetSigners(msg) == SignersOf(msg.Creator)
MsgDeleteDeposit_GetSigners(msg) == SignersOf(msg.Creator)

\* The body of ValidateBasic of MsgCreateDeposit and MsgDeleteDeposit.
ValidateCreator(msg) ==
    IF AccAddressFromBech32(msg.Creator).err # NoErr THEN "ErrInvalidAddress"
    ELSE NoErr

\* Mutation: the emptiness check of MsgUpdateDeposit done first, on the
\* creator instead of the creator's address.
ValidateUpdateNoAddress(msg) ==
    IF msg.RollupTxHash = Empty \/ msg.FromAa = Empty \/ msg.Creator = Empty
    THEN "ErrInvalidRequest"
    ELSE NoErr

\* ValidateBasic of MsgUpdateDeposit: the creator, then both the rollup
\* transaction hash and the AA address non-empty.
ValidateUpdate(msg) ==
    IF AccAddressFromBech32(msg.Creator).err # NoErr THEN "ErrInvalidAddress"
    ELSE IF msg.RollupTxHash = Empty \/ msg.FromAa = Empty
         THEN "ErrInvalidRequest"
    ELSE NoErr

MsgCreateDeposit_ValidateBasic(msg) == ValidateCreator(msg)
MsgUpdateDeposit_ValidateBasic(msg) == ValidateUpdate(msg)
MsgDeleteDeposit_ValidateBasic(msg) == ValidateCreator(msg)

\* The methods of sdk.Msg by the message's kind.
Type(msg) ==
    CASE msg.kind = "create_deposit" -> MsgCreateDeposit_Type(msg)
      [] msg.kind = "update_deposit" -> MsgUpdateDeposit_Type(msg)
      [] msg.kind = "delete_deposit" -> MsgDeleteDeposit_Type(msg)

GetSigners(msg) ==
    CASE msg.kind = "create_deposit" -> MsgCreateDeposit_GetSigners(msg)
      [] msg.kind = "update_deposit" -> MsgUpdateDeposit_GetSigners(msg)
      [] msg.kind = "delete_deposit" -> MsgDeleteDeposit_GetSigners(msg)

ValidateBasic(msg) ==
    CASE msg.kind = "create_deposit" -> MsgCreateDeposit_ValidateBasic(msg)
      [] msg.kind = "update_deposit" -> MsgUpdateDeposit_ValidateBasic(msg)
      [] msg.kind = "delete_deposit" -> MsgDeleteDeposit_ValidateBasic(msg)

=============================================================================

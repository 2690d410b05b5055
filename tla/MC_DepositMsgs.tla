--------------------------- MODULE MC_DepositMsgs ---------------------------
(***************************************************************************)
(* A caller of the deposit messages in the order the Cosmos SDK uses them  *)
(* when it checks a transaction: the message is built, ValidateBasic runs, *)
(* and only a message it accepts has its signers read.                     *)
(***************************************************************************)
EXTENDS DepositMsgs

VARIABLES
    msg,      \* the message, once built
    phase,    \* "new", "built", "valid", "rejected" or "signed"
    vb,       \* what ValidateBasic returned
    signers   \* what GetSigners returned

vars == <<msg, phase, vb, signers>>

Msg ==
    [kind : {"create_deposit"}, Creator : Strings, TxHash : Strings,
     From : Strings, To : Strings, CoinType : CoinTypes, Value : Values,
     Data : Strings]
      \cup [kind : {"update_deposit"}, Creator : Strings, TxHash : Strings,
            Status : Statuses, RollupTxHash : Strings, FromAa : Strings]
      \cup [kind : {"delete_deposit"}, Creator : Strings, TxHash : Strings]

Init ==
    /\ msg = [kind |-> "none"]
    /\ phase = "new"
    /\ vb = NoErr
    /\ signers = [panic |-> FALSE, signers |-> <<>>]

Build(m) == phase = "new" /\ msg' = m /\ phase' = "built" /\ UNCHANGED <<vb, signers>>

CreateDeposit ==
    \E c, h, f, t, d \in Strings, ct \in CoinTypes, v \in Values :
        Build(NewMsgCreateDeposit(c, h, f, t, ct, v, d))

UpdateDeposit ==
    \E c, h, r, a \in Strings, st \in Statuses :
        Build(NewMsgUpdateDeposit(c, h, st, r, a))

DeleteDeposit == \E c, h \in Strings : Build(NewMsgDeleteDeposit(c, h))

CallValidateBasic ==
    /\ phase = "built"
    /\ vb' = ValidateBasic(msg)
    /\ phase' = IF vb' = NoErr THEN "valid" ELSE "rejected"
    /\ UNCHANGED <<msg, signers>>

CallGetSigners ==
    /\ phase = "valid"
    /\ signers' = GetSigners(msg)
    /\ phase' = "signed"
    /\ UNCHANGED <<msg, vb>>

Next == CreateDeposit \/ UpdateDeposit \/ DeleteDeposit
          \/ CallValidateBasic \/ CallGetSigners

Spec == Init /\ [][Next]_vars

-----------------------------------------------------------------------------
\* GetSigners panics on a creator that is not a bech32 account address;
\* ValidateBasic must reject every such message of each of the three
\* kinds, so that a message it accepted yields its creator as signer.
SignersAfterValidate ==
    phase = "signed" =>
        /\ ~signers.panic
        /\ signers.signers = <<msg.Creator>>

=============================================================================

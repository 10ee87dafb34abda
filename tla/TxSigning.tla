------------------------------ MODULE TxSigning ------------------------------
(***************************************************************************)
(* One transaction on its way through the SDK: a caller fills it in (also  *)
(* after it was signed: Builder.Build hands out the builder's own pointer  *)
(* and every field of Tx is exported), keys sign it in any role and order, *)
(* it is cloned, and it travels: it is serialized and read back by another *)
(* process, which goes on with the copy.                                   *)
(*                                                                         *)
(* approvals is a history variable: what each key was asked to sign, in    *)
(* the terms of its owner.                                                 *)
(***************************************************************************)
EXTENDS TempoTx, FiniteSets

CONSTANT MaxSignings  \* bound on the calls that sign something new

ASSUME MaxSigningsAssumption == MaxSignings \in Nat

VARIABLES
    tx,        \* the transaction the caller holds
    approvals  \* what was approved, by which key, in which role

vars == <<tx, approvals>>

-----------------------------------------------------------------------------
\* What every approval is about. for is the account that is debited or whose
\* fees are paid: the sender itself, the root account, the sponsored sender.
Approval(role, key, for, t) ==
    [role |-> role, by |-> key, for |-> for, sponsored |-> Sponsored(t),
     chainID |-> t.chainID, body |-> t.body, keyAuth |-> t.keyAuth,
     feeToken |-> t.feeToken]

Approvals ==
    [role : {"sender", "accessKey", "feePayer"}, by : Keys, for : Addresses,
     sponsored : BOOLEAN, chainID : ChainIds, body : Bodies,
     keyAuth : KeyAuthFields, feeToken : FeeTokens]

\* The bound on signing: an approval given before may be given again.
Approve(a) ==
    /\ a \in approvals \/ Cardinality(approvals) < MaxSignings
    /\ approvals' = approvals \cup {a}

-----------------------------------------------------------------------------
Init == tx = New /\ approvals = {}

\* SetGas ... AddAccessListEntry, or assignments to the same fields.
SetBody(b) ==
    /\ tx' = [tx EXCEPT !.body = b]
    /\ UNCHANGED approvals

\* NewBuilder(chainID), NewDefault, or an assignment to tx.ChainID.
SetChainId(c) ==
    /\ tx' = [tx EXCEPT !.chainID = c]
    /\ UNCHANGED approvals

SetFeeToken(t) ==
    /\ tx' = [tx EXCEPT !.feeToken = t]
    /\ UNCHANGED approvals

SetSponsored(b) ==
    /\ tx' = [tx EXCEPT !.awaiting = b]
    /\ UNCHANGED approvals

\* KeyAuthorization.SignAndAttach.
SignAndAttach(ka) ==
    /\ tx.sig = NoSig /\ tx.feePayerSig = NoSig
    /\ tx' = [tx EXCEPT !.keyAuth = ka]
    /\ UNCHANGED approvals

\* tx.KeyAuthorization = signed, with the value Sign or BuildSigned returned.
AssignKeyAuthorization(ka) ==
    /\ tx' = [tx EXCEPT !.keyAuth = ka]
    /\ UNCHANGED approvals

SenderSigns(key) ==
    /\ Validate(tx)
    /\ tx' = SignTransaction(tx, key)
    /\ Approve(Approval("sender", key, key, tx))

AccessKeySigns(key, root) ==
    /\ Validate(tx)
    /\ tx' = SignWithAccessKey(tx, key, root)
    /\ Approve(Approval("accessKey", key, root, tx))

\* An error leaves everything as it is: no sender signature, or a keychain
\* signature whose transaction has no From.
FeePayerSigns(key) ==
    /\ tx.sig # NoSig
    /\ FeePayerSender(tx) # ZeroAddr
    /\ tx' = AddFeePayerSignature(tx, key)
    /\ Approve(Approval("feePayer", key, FeePayerSender(tx), tx))

CloneTx ==
    /\ tx' = Clone(tx)
    /\ UNCHANGED approvals

\* Serialize(tx, nil) here and Deserialize elsewhere. Nothing is validated and
\* unsigned transactions travel too. The copy that stays behind takes the same
\* steps as any other transaction, and approvals are never revoked, so following
\* one copy is enough.
Transfer ==
    /\ tx' = Deserialize(Serialize(tx, NormalOpts))
    /\ UNCHANGED approvals

Edit ==
    \/ \E b \in Bodies : SetBody(b)
    \/ \E c \in ChainIds : SetChainId(c)
    \/ \E t \in FeeTokens : SetFeeToken(t)
    \/ \E b \in BOOLEAN : SetSponsored(b)
    \/ \E ka \in KeyAuths : SignAndAttach(ka) \/ AssignKeyAuthorization(ka)

Next ==
    \/ Edit
    \/ \E k \in Keys : SenderSigns(k) \/ FeePayerSigns(k)
    \/ \E k, root \in Keys : AccessKeySigns(k, root)
    \/ CloneTx
    \/ Transfer

Spec == Init /\ [][Next]_vars

-----------------------------------------------------------------------------
(* Properties.                                                             *)

\* The transaction, and every approval, is well formed.
TypeOK == tx \in Txs /\ approvals \subseteq Approvals

\* The approval a is about what t now says.
SameContent(a, t) ==
    a.chainID = t.chainID /\ a.body = t.body /\ a.keyAuth = t.keyAuth

\* An approval in this role, by this key for this account, of t as it now is
\* and with the same answer to who pays the fee; whoever pays it chose the token.
ApprovedBySender(role, key, for, t) ==
    \E a \in approvals :
        /\ a.role = role /\ a.by = key /\ a.for = for
        /\ SameContent(a, t)
        /\ a.sponsored = Sponsored(t)
        /\ ~a.sponsored => a.feeToken = t.feeToken

\* When VerifySignature names an account, that account signed this content, and
\* knew whether it pays the fee itself: a self-paid transaction never verifies
\* as a sponsored one or the other way round, nor with a fee token the sender
\* who pays it did not choose, whatever was edited, cloned, re-signed or sent
\* in between (SerializeForSigning, encodeFeePayerField, skipFeeToken).
SenderConsent ==
    VerifySignature(tx) \in Keys =>
        ApprovedBySender("sender", VerifySignature(tx), VerifySignature(tx), tx)

\* When VerifyFeePayerSignature names a fee payer for a sender, that fee payer
\* agreed to pay for this sender, this content and this fee token, although
\* AddFeePayerSignature takes From on trust and stays on the transaction while
\* it is edited or signed again.
FeePayerConsent ==
    \A s \in Keys :
        VerifyFeePayerSignature(tx, s) \in Keys =>
            \E a \in approvals :
                /\ a.role = "feePayer" /\ a.by = VerifyFeePayerSignature(tx, s)
                /\ a.for = s
                /\ SameContent(a, tx)
                /\ a.feeToken = tx.feeToken

\* The fee payer's new signature is for the account that the sender's signature
\* names, although AddFeePayerSignature asks From first: whoever signed before,
\* was cloned or read back, From is not left over from another sender. (The address
\* recovered from a signature that did not fit may be: nothing clears From.)
CountersignatureFits ==
    [][\A k \in Keys :
         FeePayerSigns(k) /\ VerifySignature(tx) \in Keys /\ tx.from # StrayAddr
         => VerifyFeePayerSignature(tx', VerifySignature(tx)) = k]_vars

\* When VerifyAccessKeySignature names an access key and a root account, the
\* key signed this content for this root: neither its own account's signature
\* nor one for another root is taken for it (the 0x04 domain).
AccessKeyConsent ==
    LET v == VerifyAccessKeySignature(tx)
    IN  v.accessKey \in Keys =>
            ApprovedBySender("accessKey", v.accessKey, v.root, tx)

\* A sender who signed a transaction marked as sponsored is still its sender
\* after the fee payer chose a fee token, signed, and sent it on
\* (signing_test.go:263-265: the sender's signature remains valid).
SponsorshipKeepsSender ==
    [][/\ tx.awaiting /\ tx.chainID # 0
       /\ \/ \E k \in Keys : FeePayerSigns(k)
          \/ \E t \in FeeTokens : SetFeeToken(t)
          \/ Transfer
       => VerifySignature(tx') = VerifySignature(tx)]_vars

\* A transaction that is sent on says the same: the receiver's verdicts on both
\* signatures and on an access key are the sender's own, and what it sends on
\* in turn is the same string. (A chain id of 0 is read back as the mainnet's.)
TransferIsFaithful ==
    LET received == Deserialize(Serialize(tx, NormalOpts))
    IN  tx.chainID # 0 =>
            /\ VerifySignature(received) = VerifySignature(tx)
            /\ \A s \in Keys : VerifyFeePayerSignature(received, s)
                                 = VerifyFeePayerSignature(tx, s)
            /\ VerifyAccessKeySignature(received) = VerifyAccessKeySignature(tx)
            /\ Serialize(received, NormalOpts) = Serialize(tx, NormalOpts)

-----------------------------------------------------------------------------
(* What the documentation says and the code does not do.                   *)

\* doc.go:37-50 and README.md show a fee payer adding its signature to any
\* signed transaction; the sender's signature should survive it.
FeePayerKeepsSender ==
    [][(\E k \in Keys : FeePayerSigns(k)) /\ VerifySignature(tx) \in Keys
       => VerifySignature(tx') = VerifySignature(tx)]_vars
=============================================================================

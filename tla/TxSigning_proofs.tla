-------------------------- MODULE TxSigning_proofs --------------------------
(***************************************************************************)
(* Proofs about TxSigning, for every set of keys, bodies, tokens and       *)
(* authorizations and every number of signings.                            *)
(*                                                                         *)
(* The consent invariants are not inductive: they speak of signatures that *)
(* verify now, and an edit may make an old signature verify again. What is *)
(* inductive is that each signature on the transaction, whether it         *)
(* verifies or not, is over the payload of an approval (Backed). Consent   *)
(* follows because a payload determines the content it was computed from.  *)
(***************************************************************************)
EXTENDS TxSigning, TempoTx_proofs

-----------------------------------------------------------------------------
(* The inductive invariant.                                                *)

\* The digest the approval a allows its key to sign.
DigestOf(a) ==
    CASE a.role = "sender" ->
            SenderPayloadOf(a.chainID, a.body, a.keyAuth, a.feeToken, a.sponsored)
      [] a.role = "accessKey" ->
            KeychainDigest(
                SenderPayloadOf(a.chainID, a.body, a.keyAuth, a.feeToken,
                                a.sponsored), a.for)
      [] a.role = "feePayer" ->
            FeePayerPayloadOf(a.chainID, a.body, a.keyAuth, a.feeToken, a.for)

\* The key made the signature sig in this role for this account, on an approval.
Backed(role, sig, for) ==
    \E a \in approvals : /\ a.role = role /\ a.by = sig.by /\ a.for = for
                         /\ DigestOf(a) = sig.digest

\* Every signature on the transaction is backed, whether it verifies or not.
SigsBacked ==
    /\ tx.sig.type = "secp256k1" => Backed("sender", tx.sig, tx.sig.by)
    /\ tx.sig.type = "keychain" => Backed("accessKey", tx.sig, tx.sig.root)
    /\ tx.feePayerSig # NoSig =>
          \E s \in Addresses : Backed("feePayer", tx.feePayerSig, s)

IInv == TypeOK /\ SigsBacked

\* An approval that is given allows the digest that its key then signs.
LEMMA ApprovalDigests ==
    ASSUME NEW t \in Txs, NEW key \in Keys, NEW for \in Addresses
    PROVE  /\ \A role \in {"sender", "accessKey", "feePayer"} :
                Approval(role, key, for, t) \in Approvals
           /\ DigestOf(Approval("sender", key, for, t)) = GetSignPayload(t)
           /\ DigestOf(Approval("accessKey", key, for, t)) =
                KeychainDigest(GetSignPayload(t), for)
           /\ DigestOf(Approval("feePayer", key, for, t)) =
                GetFeePayerSignPayload(t, for)
<1>1. /\ t.chainID \in ChainIds /\ t.body \in Bodies /\ t.feeToken \in FeeTokens
      /\ t.keyAuth \in KeyAuthFields /\ Sponsored(t) \in BOOLEAN
  BY DEF Txs, Sponsored
<1>2. \A role \in {"sender", "accessKey", "feePayer"} :
        Approval(role, key, for, t) \in Approvals
  <2> DEFINE sp == Sponsored(t)
  <2>1. sp \in BOOLEAN
    BY <1>1
  <2>2. \A role : Approval(role, key, for, t) =
           [role |-> role, by |-> key, for |-> for, sponsored |-> sp,
            chainID |-> t.chainID, body |-> t.body, keyAuth |-> t.keyAuth,
            feeToken |-> t.feeToken]
    BY DEF Approval
  <2>. HIDE DEF sp
  <2>. QED
    BY <1>1, <2>1, <2>2 DEF Approvals
<1>3. DigestOf(Approval("sender", key, for, t)) = GetSignPayload(t)
  BY SignPayloadForm DEF DigestOf, Approval
<1>4. DigestOf(Approval("accessKey", key, for, t)) =
        KeychainDigest(GetSignPayload(t), for)
  BY SignPayloadForm DEF DigestOf, Approval
<1>5. DigestOf(Approval("feePayer", key, for, t)) = GetFeePayerSignPayload(t, for)
  BY FeePayerPayloadForm DEF DigestOf, Approval
<1>. QED
  BY <1>2, <1>3, <1>4, <1>5

\* Approvals are never revoked: a signature that stays on stays backed.
LEMMA KeptSignaturesBacked ==
    ASSUME SigsBacked, approvals \subseteq approvals'
    PROVE  /\ tx'.sig = tx.sig =>
                /\ tx'.sig.type = "secp256k1" =>
                      Backed("sender", tx.sig, tx.sig.by)'
                /\ tx'.sig.type = "keychain" =>
                      Backed("accessKey", tx.sig, tx.sig.root)'
           /\ tx'.feePayerSig = tx.feePayerSig =>
                (tx.feePayerSig # NoSig =>
                    \E s \in Addresses : Backed("feePayer", tx.feePayerSig, s))'
<1>1. tx'.sig = tx.sig =>
        /\ tx'.sig.type = "secp256k1" => Backed("sender", tx.sig, tx.sig.by)'
        /\ tx'.sig.type = "keychain" => Backed("accessKey", tx.sig, tx.sig.root)'
  BY DEF SigsBacked, Backed
<1>2. tx'.feePayerSig = tx.feePayerSig =>
        (tx.feePayerSig # NoSig =>
            \E s \in Addresses : Backed("feePayer", tx.feePayerSig, s))'
  BY DEF SigsBacked, Backed
<1>. QED
  BY <1>1, <1>2

\* The actions that sign nothing and keep what is signed.
LEMMA EditStep ==
    ASSUME IInv, Edit
    PROVE  /\ tx' \in Txs /\ approvals' = approvals
           /\ tx'.sig = tx.sig /\ tx'.feePayerSig = tx.feePayerSig
<1>1. CASE \E b \in Bodies : SetBody(b)
  BY <1>1 DEF IInv, TypeOK, SetBody, Txs
<1>2. CASE \E c \in ChainIds : SetChainId(c)
  BY <1>2 DEF IInv, TypeOK, SetChainId, Txs
<1>3. CASE \E t \in FeeTokens : SetFeeToken(t)
  BY <1>3 DEF IInv, TypeOK, SetFeeToken, Txs
<1>4. CASE \E b \in BOOLEAN : SetSponsored(b)
  BY <1>4 DEF IInv, TypeOK, SetSponsored, Txs
<1>5. CASE \E ka \in KeyAuths : SignAndAttach(ka) \/ AssignKeyAuthorization(ka)
  BY <1>5 DEF IInv, TypeOK, SignAndAttach, AssignKeyAuthorization, Txs,
              KeyAuthFields
<1>. QED
  BY <1>1, <1>2, <1>3, <1>4, <1>5 DEF Edit

LEMMA InitIInv == Init => IInv
<1>. SUFFICES ASSUME Init PROVE IInv
  OBVIOUS
<1>1. New \in Txs
  BY BodyAssumption, ChainAssumption
     DEF New, Txs, FeeTokens, KeyAuthFields, Envelopes, Addresses
<1>. QED
  BY <1>1 DEF Init, IInv, TypeOK, SigsBacked, New, NoSig

LEMMA NextIInv == IInv /\ [Next]_vars => IInv'
<1>. SUFFICES ASSUME IInv, [Next]_vars PROVE IInv'
  OBVIOUS
<1>. USE DEF IInv, TypeOK
<1>1. CASE Edit
  <2>1. TypeOK'
    BY <1>1, EditStep
  <2>. QED
    BY <1>1, <2>1, EditStep, KeptSignaturesBacked DEF SigsBacked
<1>2. ASSUME NEW key \in Keys, SenderSigns(key)
      PROVE  IInv'
  <2> DEFINE a == Approval("sender", key, key, tx)
  <2>1. tx' = SignTransaction(tx, key) /\ approvals' = approvals \cup {a}
    BY <1>2 DEF SenderSigns, Approve
  <2>2. a \in Approvals /\ DigestOf(a) = GetSignPayload(tx)
    BY ApprovalDigests DEF Addresses
  <2>3. TypeOK'
    BY <2>1, <2>2, SenderSignsType
  <2>4. /\ tx'.sig = [type |-> "secp256k1", by |-> key, digest |-> GetSignPayload(tx)]
        /\ tx'.feePayerSig = tx.feePayerSig
    BY <2>1 DEF SignTransaction, Sign, Txs
  <2>5. a.role = "sender" /\ a.by = key /\ a.for = key
    BY DEF Approval
  <2>6. Backed("sender", tx.sig, tx.sig.by)'
    BY <2>1, <2>2, <2>4, <2>5 DEF Backed
  <2>. QED
    BY <2>1, <2>3, <2>4, <2>6, KeptSignaturesBacked DEF SigsBacked
<1>3. ASSUME NEW key \in Keys, FeePayerSigns(key)
      PROVE  IInv'
  <2>1. PICK s \in Addresses : s = FeePayerSender(tx)
    BY VerifySignatureType
  <2> DEFINE a == Approval("feePayer", key, s, tx)
  <2>2. tx' = AddFeePayerSignature(tx, key) /\ approvals' = approvals \cup {a}
    BY <1>3, <2>1 DEF FeePayerSigns, Approve
  <2>3. a \in Approvals /\ DigestOf(a) = GetFeePayerSignPayload(tx, s)
    BY ApprovalDigests
  <2>4. TypeOK'
    BY <2>2, <2>3, FeePayerSignsType
  <2>5. /\ tx'.sig = tx.sig
        /\ tx'.feePayerSig = [type |-> "secp256k1", by |-> key,
                              digest |-> GetFeePayerSignPayload(tx, s)]
    BY <2>1, <2>2 DEF AddFeePayerSignature, Sign, Txs
  <2>6. a.role = "feePayer" /\ a.by = key /\ a.for = s
    BY DEF Approval
  <2>7. Backed("feePayer", tx.feePayerSig, s)'
    BY <2>2, <2>3, <2>5, <2>6 DEF Backed
  <2>. QED
    BY <2>2, <2>4, <2>5, <2>7, KeptSignaturesBacked DEF SigsBacked
<1>4. ASSUME NEW key \in Keys, NEW root \in Keys, AccessKeySigns(key, root)
      PROVE  IInv'
  <2> DEFINE a == Approval("accessKey", key, root, tx)
             r == [tx EXCEPT !.from = root]
  <2>1. tx' = SignWithAccessKey(tx, key, root) /\ approvals' = approvals \cup {a}
    BY <1>4 DEF AccessKeySigns, Approve
  <2>2. a \in Approvals /\ DigestOf(a) = KeychainDigest(GetSignPayload(tx), root)
    BY ApprovalDigests DEF Addresses
  <2>3. TypeOK'
    BY <2>1, <2>2, AccessKeySignsType
  <2>4. r \in Txs /\ GetSignPayload(r) = GetSignPayload(tx)
    <3>1. r \in Txs
      BY DEF Txs, Addresses
    <3>2. /\ r.chainID = tx.chainID /\ r.body = tx.body /\ r.keyAuth = tx.keyAuth
          /\ r.feeToken = tx.feeToken /\ Sponsored(r) = Sponsored(tx)
      BY DEF Txs, Sponsored
    <3>. QED
      BY <3>1, <3>2, SignPayloadForm
  <2>5. /\ tx'.sig = [type |-> "keychain", by |-> key, root |-> root,
                      digest |-> KeychainDigest(GetSignPayload(r), root)]
        /\ tx'.feePayerSig = tx.feePayerSig
    BY <2>1 DEF SignWithAccessKey, Txs
  <2>6. a.role = "accessKey" /\ a.by = key /\ a.for = root
    BY DEF Approval
  <2>7. Backed("accessKey", tx.sig, tx.sig.root)'
    BY <2>1, <2>2, <2>4, <2>5, <2>6 DEF Backed
  <2>. QED
    BY <2>1, <2>3, <2>5, <2>7, KeptSignaturesBacked DEF SigsBacked
<1>5. CASE CloneTx
  <2>1. /\ tx' \in Txs /\ approvals' = approvals
        /\ tx'.sig = NoSig /\ tx'.feePayerSig = NoSig
    BY <1>5, CloneType DEF CloneTx, Clone, Txs
  <2>. QED
    BY <2>1 DEF SigsBacked, NoSig
<1>6. CASE Transfer
  <2>1. /\ tx' \in Txs /\ approvals' = approvals
        /\ tx'.sig = tx.sig /\ tx'.feePayerSig = tx.feePayerSig
    BY <1>6, TransferType, TransferForm DEF Transfer
  <2>. QED
    BY <2>1, KeptSignaturesBacked DEF SigsBacked
<1>7. CASE UNCHANGED vars
  BY <1>7 DEF vars, SigsBacked, Backed
<1>. QED
  BY <1>1, <1>2, <1>3, <1>4, <1>5, <1>6, <1>7 DEF Next

LEMMA SpecIInv == Spec => []IInv
  BY InitIInv, NextIInv, PTL DEF Spec

-----------------------------------------------------------------------------
(* The theorems.                                                           *)

\* The transaction and the approvals stay well formed.
THEOREM TypeCorrect == Spec => []TypeOK
  BY SpecIInv, PTL DEF IInv

\* An approval whose digest is the sender payload of t is an approval of t.
LEMMA ApprovalOfPayload ==
    ASSUME NEW t \in Txs, NEW a \in Approvals,
           SenderPayloadOf(a.chainID, a.body, a.keyAuth, a.feeToken, a.sponsored)
               = GetSignPayload(t)
    PROVE  /\ SameContent(a, t)
           /\ a.sponsored = Sponsored(t)
           /\ ~a.sponsored => a.feeToken = t.feeToken
<1>1. a.sponsored \in BOOLEAN /\ Sponsored(t) \in BOOLEAN
  BY DEF Approvals, Sponsored, Txs
<1>2. SenderPayloadOf(a.chainID, a.body, a.keyAuth, a.feeToken, a.sponsored)
        = SenderPayloadOf(t.chainID, t.body, t.keyAuth, t.feeToken, Sponsored(t))
  BY SignPayloadForm
<1>3. /\ a.chainID = t.chainID /\ a.body = t.body /\ a.keyAuth = t.keyAuth
      /\ a.sponsored = Sponsored(t)
      /\ ~a.sponsored => a.feeToken = t.feeToken
  <2> DEFINE sp == Sponsored(t)
  <2>. HIDE DEF sp
  <2>1. sp \in BOOLEAN
    BY <1>1 DEF sp
  <2>2. SenderPayloadOf(a.chainID, a.body, a.keyAuth, a.feeToken, a.sponsored)
          = SenderPayloadOf(t.chainID, t.body, t.keyAuth, t.feeToken, sp)
    BY <1>2 DEF sp
  <2>3. /\ a.chainID = t.chainID /\ a.body = t.body /\ a.keyAuth = t.keyAuth
        /\ a.sponsored = sp
        /\ ~a.sponsored => a.feeToken = t.feeToken
    BY <1>1, <2>1, <2>2, SenderPayloadInjective
  <2>. QED
    BY <2>3 DEF sp
<1>. QED
  BY <1>3 DEF SameContent

\* A sender that verifies signed this content, sponsored or not as it now is,
\* and a sender that pays chose the fee token.
THEOREM SenderConsentHolds == Spec => []SenderConsent
<1>1. IInv => SenderConsent
  <2>. SUFFICES ASSUME IInv, VerifySignature(tx) \in Keys
                PROVE  ApprovedBySender("sender", VerifySignature(tx),
                                        VerifySignature(tx), tx)
    BY DEF SenderConsent
  <2>1. /\ tx.sig.type = "secp256k1" /\ tx.sig.digest = GetSignPayload(tx)
        /\ VerifySignature(tx) = tx.sig.by
    BY AddressAssumption DEF VerifySignature, RecoverAddress
  <2>2. PICK a \in approvals : /\ a.role = "sender" /\ a.by = tx.sig.by
                               /\ a.for = tx.sig.by /\ DigestOf(a) = tx.sig.digest
    BY <2>1 DEF IInv, SigsBacked, Backed
  <2>3. tx \in Txs /\ a \in Approvals
    BY DEF IInv, TypeOK
  <2>4. SenderPayloadOf(a.chainID, a.body, a.keyAuth, a.feeToken, a.sponsored)
          = GetSignPayload(tx)
    BY <2>1, <2>2 DEF DigestOf
  <2>5. /\ SameContent(a, tx) /\ a.sponsored = Sponsored(tx)
        /\ ~a.sponsored => a.feeToken = tx.feeToken
    BY <2>3, <2>4, ApprovalOfPayload
  <2>. QED
    BY <2>1, <2>2, <2>5 DEF ApprovedBySender
<1>. QED
  BY <1>1, SpecIInv, PTL

\* An access key that verifies signed this content for this root account.
THEOREM AccessKeyConsentHolds == Spec => []AccessKeyConsent
<1>1. IInv => AccessKeyConsent
  <2> DEFINE v == VerifyAccessKeySignature(tx)
             r == [tx EXCEPT !.from = tx.sig.root, !.sig = NoSig]
  <2>. SUFFICES ASSUME IInv, v.accessKey \in Keys
                PROVE  ApprovedBySender("accessKey", v.accessKey, v.root, tx)
    BY DEF AccessKeyConsent
  <2>1. tx \in Txs
    BY DEF IInv, TypeOK
  <2>2. tx.sig.type = "keychain"
    BY AddressAssumption DEF VerifyAccessKeySignature
  <2>3. tx.sig \in KeychainSignatures
    BY <2>1, <2>2 DEF Txs, Envelopes, NoSig, Secp256k1Signatures
  <2>4. r \in Txs /\ GetSignPayload(r) = GetSignPayload(tx)
    <3>1. r \in Txs
      BY <2>1, <2>3 DEF Txs, Addresses, Envelopes, KeychainSignatures
    <3>2. /\ r.chainID = tx.chainID /\ r.body = tx.body /\ r.keyAuth = tx.keyAuth
          /\ r.feeToken = tx.feeToken /\ Sponsored(r) = Sponsored(tx)
      BY <2>1 DEF Txs, Sponsored
    <3>. QED
      BY <2>1, <3>1, <3>2, SignPayloadForm
  <2>5. /\ tx.sig.digest = KeychainDigest(GetSignPayload(tx), tx.sig.root)
        /\ v.accessKey = tx.sig.by /\ v.root = tx.sig.root
    BY <2>2, <2>4, AddressAssumption
       DEF VerifyAccessKeySignature, RecoverAddress
  <2>6. PICK a \in approvals : /\ a.role = "accessKey" /\ a.by = tx.sig.by
                               /\ a.for = tx.sig.root
                               /\ DigestOf(a) = tx.sig.digest
    BY <2>2 DEF IInv, SigsBacked, Backed
  <2>7. KeychainDigest(
          SenderPayloadOf(a.chainID, a.body, a.keyAuth, a.feeToken, a.sponsored),
          a.for) = KeychainDigest(GetSignPayload(tx), tx.sig.root)
    BY <2>5, <2>6 DEF DigestOf
  <2>8. SenderPayloadOf(a.chainID, a.body, a.keyAuth, a.feeToken, a.sponsored)
          = GetSignPayload(tx)
    BY <2>7 DEF KeychainDigest
  <2>9. /\ SameContent(a, tx) /\ a.sponsored = Sponsored(tx)
        /\ ~a.sponsored => a.feeToken = tx.feeToken
    BY <2>1, <2>8, ApprovalOfPayload DEF IInv, TypeOK
  <2>. QED
    BY <2>5, <2>6, <2>9 DEF ApprovedBySender
<1>. QED
  BY <1>1, SpecIInv, PTL

\* A fee payer that verifies for a sender agreed to pay for that sender, this
\* content and this fee token.
THEOREM FeePayerConsentHolds == Spec => []FeePayerConsent
<1>1. IInv => FeePayerConsent
  <2> DEFINE p(s) == VerifyFeePayerSignature(tx, s)
  <2>. SUFFICES ASSUME IInv, NEW s \in Keys, p(s) \in Keys
                PROVE  \E a \in approvals :
                         /\ a.role = "feePayer" /\ a.by = p(s) /\ a.for = s
                         /\ SameContent(a, tx) /\ a.feeToken = tx.feeToken
    BY DEF FeePayerConsent
  <2>1. /\ tx.feePayerSig # NoSig /\ p(s) = tx.feePayerSig.by
        /\ tx.feePayerSig.digest = GetFeePayerSignPayload(tx, s)
    BY AddressAssumption DEF VerifyFeePayerSignature, RecoverAddress
  <2>2. PICK f \in Addresses, a \in approvals :
           /\ a.role = "feePayer" /\ a.by = tx.feePayerSig.by /\ a.for = f
           /\ DigestOf(a) = tx.feePayerSig.digest
    BY <2>1 DEF IInv, SigsBacked, Backed
  <2>3. FeePayerPayloadOf(a.chainID, a.body, a.keyAuth, a.feeToken, a.for)
          = FeePayerPayloadOf(tx.chainID, tx.body, tx.keyAuth, tx.feeToken, s)
    BY <2>1, <2>2, FeePayerPayloadForm DEF DigestOf, Addresses, IInv, TypeOK
  <2>4. /\ a.chainID = tx.chainID /\ a.body = tx.body /\ a.keyAuth = tx.keyAuth
        /\ a.feeToken = tx.feeToken /\ a.for = s
    BY <2>3, FeePayerPayloadInjective
  <2>. QED
    BY <2>1, <2>2, <2>4 DEF SameContent
<1>. QED
  BY <1>1, SpecIInv, PTL

-----------------------------------------------------------------------------
(* From, and the fee payer's next signature.                               *)

\* From is unset, is the signer, or was recovered when the signature did not
\* fit: no other account is left over on what a secp256k1 key signed.
FromInv == tx.sig.type = "secp256k1" => tx.from \in {ZeroAddr, StrayAddr, tx.sig.by}

LEMMA NextFromInv == IInv /\ FromInv /\ [Next]_vars => FromInv'
<1>. SUFFICES ASSUME IInv, FromInv, [Next]_vars PROVE FromInv'
  OBVIOUS
<1>0. tx \in Txs
  BY DEF IInv, TypeOK
<1>1. CASE Edit
  <2>1. tx'.from = tx.from
    BY <1>0, <1>1 DEF Edit, SetBody, SetChainId, SetFeeToken, SetSponsored,
                      SignAndAttach, AssignKeyAuthorization, Txs
  <2>. QED
    BY <1>1, <2>1, EditStep DEF FromInv
<1>2. ASSUME NEW key \in Keys, SenderSigns(key)
      PROVE  FromInv'
  <2>1. tx' = SignTransaction(tx, key)
    BY <1>2 DEF SenderSigns
  <2>2. tx'.from = key /\ tx'.sig.by = key
    BY <1>0, <2>1 DEF SignTransaction, Sign, Txs
  <2>. QED
    BY <2>2 DEF FromInv
<1>3. ASSUME NEW key \in Keys, FeePayerSigns(key)
      PROVE  FromInv'
  <2>1. tx'.sig = tx.sig /\ tx'.from = FeePayerSender(tx)
    BY <1>0, <1>3 DEF FeePayerSigns, AddFeePayerSignature, Txs
  <2>2. tx.sig.type = "secp256k1" =>
          VerifySignature(tx) \in {StrayAddr, tx.sig.by}
    BY DEF VerifySignature, RecoverAddress
  <2>. QED
    BY <2>1, <2>2 DEF FromInv, FeePayerSender
<1>4. ASSUME NEW key \in Keys, NEW root \in Keys, AccessKeySigns(key, root)
      PROVE  FromInv'
  <2>1. tx'.sig.type = "keychain"
    BY <1>0, <1>4 DEF AccessKeySigns, SignWithAccessKey, Txs
  <2>. QED
    BY <2>1 DEF FromInv
<1>5. CASE CloneTx
  <2>1. tx'.sig = NoSig
    BY <1>0, <1>5 DEF CloneTx, Clone, Txs
  <2>. QED
    BY <2>1 DEF FromInv, NoSig
<1>6. CASE Transfer
  <2>1. tx'.from = ZeroAddr
    BY <1>6 DEF Transfer, Deserialize, New
  <2>. QED
    BY <2>1 DEF FromInv
<1>7. CASE UNCHANGED vars
  BY <1>7 DEF vars, FromInv
<1>. QED
  BY <1>1, <1>2, <1>3, <1>4, <1>5, <1>6, <1>7 DEF Next

LEMMA SpecFromInv == Spec => []FromInv
<1>1. Init => FromInv
  BY DEF Init, New, NoSig, FromInv
<1>. QED
  BY <1>1, NextFromInv, SpecIInv, PTL DEF Spec

\* A new fee payer signature verifies for the sender that verifies, unless From
\* was recovered from a signature that did not fit.
THEOREM CountersignatureFitsHolds == Spec => CountersignatureFits
<1> DEFINE A == \A k \in Keys :
                  FeePayerSigns(k) /\ VerifySignature(tx) \in Keys
                                   /\ tx.from # StrayAddr
                  => VerifyFeePayerSignature(tx', VerifySignature(tx)) = k
<1>1. IInv /\ IInv' /\ FromInv /\ [Next]_vars => [A]_vars
  <2>. SUFFICES ASSUME IInv, IInv', FromInv, NEW k \in Keys, FeePayerSigns(k),
                       VerifySignature(tx) \in Keys, tx.from # StrayAddr
                PROVE  VerifyFeePayerSignature(tx', VerifySignature(tx)) = k
    OBVIOUS
  <2>1. tx \in Txs /\ tx' \in Txs
    BY DEF IInv, TypeOK
  <2>2. PICK s \in Keys : s = VerifySignature(tx)
    OBVIOUS
  <2>3. tx.sig.type = "secp256k1" /\ s = tx.sig.by
    BY <2>2, AddressAssumption DEF VerifySignature, RecoverAddress
  <2>4. FeePayerSender(tx) = s
    BY <2>2, <2>3 DEF FromInv, FeePayerSender
  <2>5. /\ tx'.feePayerSig = [type |-> "secp256k1", by |-> k,
                              digest |-> GetFeePayerSignPayload(tx, s)]
        /\ tx'.chainID = tx.chainID /\ tx'.body = tx.body
        /\ tx'.keyAuth = tx.keyAuth /\ tx'.feeToken = tx.feeToken
    BY <2>1, <2>4 DEF FeePayerSigns, AddFeePayerSignature, Sign, Txs
  <2>6. GetFeePayerSignPayload(tx', s) = GetFeePayerSignPayload(tx, s)
    BY <2>1, <2>5, FeePayerPayloadForm DEF Addresses
  <2>7. tx'.feePayerSig # NoSig /\ s # ZeroAddr
    BY <2>5, AddressAssumption DEF NoSig
  <2>. QED
    BY <2>2, <2>5, <2>6, <2>7 DEF VerifyFeePayerSignature, RecoverAddress
<1>2. Spec => [][A]_vars
  BY <1>1, SpecIInv, SpecFromInv, PTL DEF Spec
<1>. QED
  BY <1>2 DEF CountersignatureFits

-----------------------------------------------------------------------------
(* The sender of a sponsored transaction, and what is sent on.             *)

\* A sponsored transaction keeps its sender while the fee payer chooses a token
\* and signs, and on its way to another process.
THEOREM SponsorshipKeepsSenderHolds == Spec => SponsorshipKeepsSender
<1> DEFINE A == /\ tx.awaiting /\ tx.chainID # 0
                /\ \/ \E k \in Keys : FeePayerSigns(k)
                   \/ \E t \in FeeTokens : SetFeeToken(t)
                   \/ Transfer
                => VerifySignature(tx') = VerifySignature(tx)
<1>1. IInv /\ IInv' /\ [Next]_vars => [A]_vars
  <2>. SUFFICES ASSUME IInv, IInv', tx.awaiting, tx.chainID # 0,
                       \/ \E k \in Keys : FeePayerSigns(k)
                       \/ \E t \in FeeTokens : SetFeeToken(t)
                       \/ Transfer
                PROVE  VerifySignature(tx') = VerifySignature(tx)
    OBVIOUS
  <2>1. tx \in Txs /\ tx' \in Txs
    BY DEF IInv, TypeOK
  <2>2. /\ tx'.chainID = tx.chainID /\ tx'.body = tx.body
        /\ tx'.keyAuth = tx.keyAuth /\ tx'.sig = tx.sig
        /\ Sponsored(tx')
    <3>1. CASE \E k \in Keys : FeePayerSigns(k)
      BY <2>1, <3>1 DEF FeePayerSigns, AddFeePayerSignature, Sponsored, Txs
    <3>2. CASE \E t \in FeeTokens : SetFeeToken(t)
      BY <2>1, <3>2 DEF SetFeeToken, Sponsored, Txs
    <3>3. CASE Transfer
      <4>1. tx' = Deserialize(Serialize(tx, NormalOpts))
        BY <3>3 DEF Transfer
      <4>2. /\ tx'.chainID = tx.chainID /\ tx'.body = tx.body
            /\ tx'.keyAuth = tx.keyAuth /\ tx'.sig = tx.sig
            /\ tx'.feePayerSig = tx.feePayerSig
        BY <2>1, <4>1, TransferForm
      <4>3. tx'.awaiting = (tx.awaiting /\ tx.feePayerSig = NoSig)
        BY <2>1, <4>1, TransferForm
      <4>. QED
        BY <4>2, <4>3 DEF Sponsored
    <3>. QED
      BY <3>1, <3>2, <3>3
  <2>3. GetSignPayload(tx') = GetSignPayload(tx)
    <3>1. Sponsored(tx') = Sponsored(tx)
      BY <2>2 DEF Sponsored, Txs
    <3>. QED
      BY <2>1, <2>2, <3>1, SamePayloads
  <2>. QED
    BY <2>2, <2>3 DEF VerifySignature
<1>2. Spec => [][A]_vars
  BY <1>1, SpecIInv, PTL DEF Spec
<1>. QED
  BY <1>2 DEF SponsorshipKeepsSender

\* What is sent on verifies, and reads, as it did.
THEOREM TransferIsFaithfulHolds == Spec => []TransferIsFaithful
<1>1. TypeOK => TransferIsFaithful
  <2> DEFINE received == Deserialize(Serialize(tx, NormalOpts))
  <2>. SUFFICES ASSUME TypeOK, tx.chainID # 0
                PROVE  /\ VerifySignature(received) = VerifySignature(tx)
                       /\ \A s \in Keys : VerifyFeePayerSignature(received, s)
                                            = VerifyFeePayerSignature(tx, s)
                       /\ VerifyAccessKeySignature(received)
                            = VerifyAccessKeySignature(tx)
                       /\ Serialize(received, NormalOpts)
                            = Serialize(tx, NormalOpts)
    BY DEF TransferIsFaithful
  <2>1. tx \in Txs /\ received \in Txs
    BY TransferType DEF TypeOK
  <2>2. /\ received.chainID = tx.chainID /\ received.body = tx.body
        /\ received.feeToken = tx.feeToken /\ received.keyAuth = tx.keyAuth
        /\ received.sig = tx.sig /\ received.feePayerSig = tx.feePayerSig
        /\ received.awaiting = (tx.awaiting /\ tx.feePayerSig = NoSig)
    BY <2>1, TransferForm
  <2>. HIDE DEF received
  <2>3. Sponsored(received) = Sponsored(tx)
    BY <2>1, <2>2 DEF Sponsored, Txs
  <2>4. VerifySignature(received) = VerifySignature(tx)
    BY <2>1, <2>2, <2>3, SamePayloads DEF VerifySignature
  <2>5. \A s \in Keys : VerifyFeePayerSignature(received, s)
                          = VerifyFeePayerSignature(tx, s)
    BY <2>1, <2>2, FeePayerPayloadForm DEF VerifyFeePayerSignature, Addresses
  <2>6. VerifyAccessKeySignature(received) = VerifyAccessKeySignature(tx)
    <3> DEFINE root(t) == [t EXCEPT !.from = t.sig.root, !.sig = NoSig]
    <3>. SUFFICES ASSUME tx.sig.type = "keychain"
                  PROVE  VerifyAccessKeySignature(received)
                           = VerifyAccessKeySignature(tx)
      BY <2>2 DEF VerifyAccessKeySignature
    <3>1. tx.sig.root \in Addresses
      BY <2>1 DEF Txs, Envelopes, NoSig, Secp256k1Signatures,
                  KeychainSignatures, Addresses
    <3>2. root(tx) \in Txs /\ root(received) \in Txs
      BY <2>1, <2>2, <3>1 DEF Txs, Envelopes
    <3>3. /\ root(received).chainID = root(tx).chainID
          /\ root(received).body = root(tx).body
          /\ root(received).keyAuth = root(tx).keyAuth
          /\ root(received).feeToken = root(tx).feeToken
          /\ Sponsored(root(received)) = Sponsored(root(tx))
      BY <2>1, <2>2, <2>3 DEF Sponsored, Txs
    <3>4. GetSignPayload(root(received)) = GetSignPayload(root(tx))
      BY <3>2, <3>3, SamePayloads
    <3>. QED
      BY <2>2, <3>4 DEF VerifyAccessKeySignature
  <2>7. Serialize(received, NormalOpts) = Serialize(tx, NormalOpts)
    <3>1. encodeFeePayerField(received, NormalOpts)
            = encodeFeePayerField(tx, NormalOpts)
      BY <2>2 DEF encodeFeePayerField, NormalOpts
    <3>. QED
      BY <2>2, <3>1 DEF Serialize, buildRLPList, skipFeeToken, NormalOpts,
                        encodeFeeTokenConditional
  <2>. QED
    BY <2>4, <2>5, <2>6, <2>7
<1>. QED
  BY <1>1, TypeCorrect, PTL

=============================================================================

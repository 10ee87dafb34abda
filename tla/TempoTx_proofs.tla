--------------------------- MODULE TempoTx_proofs ---------------------------
(***************************************************************************)
(* Lemmas on the functions of TempoTx, for the proofs about the modules    *)
(* that use it: what is signed, what it says about the transaction it was  *)
(* computed from, and what a transaction is on the other side of a wire.   *)
(***************************************************************************)
EXTENDS TempoTx, TLAPS

-----------------------------------------------------------------------------
(* The payloads, spelled out.                                              *)

SenderPayloadOf(chainID, body, keyAuth, feeToken, sponsored) ==
    [prefix |-> "0x76",
     list |-> [chainID |-> chainID, body |-> body,
               feeToken |-> IF sponsored THEN NoToken ELSE feeToken,
               feePayer |-> IF sponsored THEN [kind |-> "marker"]
                                         ELSE [kind |-> "empty"],
               keyAuth |-> keyAuth, sig |-> NoSig]]

FeePayerPayloadOf(chainID, body, keyAuth, feeToken, sender) ==
    [prefix |-> "0x78",
     list |-> [chainID |-> chainID, body |-> body, feeToken |-> feeToken,
               feePayer |-> [kind |-> "sender", sender |-> sender],
               keyAuth |-> keyAuth, sig |-> NoSig]]

-----------------------------------------------------------------------------
(* Lemmas on the pure functions.                                           *)

\* SerializeForSigning yields the payload spelled out above.
LEMMA SignPayloadForm ==
    ASSUME NEW t \in Txs
    PROVE  GetSignPayload(t) = SenderPayloadOf(t.chainID, t.body, t.keyAuth,
                                               t.feeToken, Sponsored(t))
  BY DEF GetSignPayload, SerializeForSigning, Serialize, buildRLPList, prefix,
         ForSigningOpts, encodeFeeTokenConditional, skipFeeToken,
         encodeFeePayerField, SenderPayloadOf, Sponsored, Txs

\* SerializeForFeePayerSigning likewise, whatever the signatures.
LEMMA FeePayerPayloadForm ==
    ASSUME NEW t \in Txs, NEW s \in Addresses
    PROVE  GetFeePayerSignPayload(t, s) =
               FeePayerPayloadOf(t.chainID, t.body, t.keyAuth, t.feeToken, s)
  BY DEF GetFeePayerSignPayload, SerializeForFeePayerSigning, Serialize,
         buildRLPList, prefix, FeePayerOpts, encodeFeeTokenConditional,
         skipFeeToken, encodeFeePayerField, FeePayerPayloadOf, Txs

\* A sender's payload determines everything the sender decides.
LEMMA SenderPayloadInjective ==
    ASSUME NEW c1, NEW b1, NEW k1, NEW f1, NEW s1 \in BOOLEAN,
           NEW c2, NEW b2, NEW k2, NEW f2, NEW s2 \in BOOLEAN,
           SenderPayloadOf(c1, b1, k1, f1, s1) = SenderPayloadOf(c2, b2, k2, f2, s2)
    PROVE  /\ c1 = c2 /\ b1 = b2 /\ k1 = k2 /\ s1 = s2
           /\ ~s1 => f1 = f2
<1> DEFINE p1 == SenderPayloadOf(c1, b1, k1, f1, s1)
           p2 == SenderPayloadOf(c2, b2, k2, f2, s2)
<1>1. p1.list.chainID = c1 /\ p1.list.body = b1 /\ p1.list.keyAuth = k1
      /\ p2.list.chainID = c2 /\ p2.list.body = b2 /\ p2.list.keyAuth = k2
  BY DEF SenderPayloadOf
<1>2. /\ p1.list.feePayer.kind = IF s1 THEN "marker" ELSE "empty"
      /\ p2.list.feePayer.kind = IF s2 THEN "marker" ELSE "empty"
  BY DEF SenderPayloadOf
<1>3. /\ ~s1 => p1.list.feeToken = f1
      /\ ~s2 => p2.list.feeToken = f2
  BY DEF SenderPayloadOf
<1>4. s1 = s2
  BY <1>2
<1>. QED
  BY <1>1, <1>3, <1>4

\* A fee payer's payload determines everything the fee payer decides.
LEMMA FeePayerPayloadInjective ==
    ASSUME NEW c1, NEW b1, NEW k1, NEW f1, NEW s1,
           NEW c2, NEW b2, NEW k2, NEW f2, NEW s2,
           FeePayerPayloadOf(c1, b1, k1, f1, s1) = FeePayerPayloadOf(c2, b2, k2, f2, s2)
    PROVE  c1 = c2 /\ b1 = b2 /\ k1 = k2 /\ f1 = f2 /\ s1 = s2
<1> DEFINE p1 == FeePayerPayloadOf(c1, b1, k1, f1, s1)
           p2 == FeePayerPayloadOf(c2, b2, k2, f2, s2)
<1>1. /\ p1.list.chainID = c1 /\ p1.list.body = b1 /\ p1.list.keyAuth = k1
      /\ p1.list.feeToken = f1 /\ p1.list.feePayer.sender = s1
  BY DEF FeePayerPayloadOf
<1>2. /\ p2.list.chainID = c2 /\ p2.list.body = b2 /\ p2.list.keyAuth = k2
      /\ p2.list.feeToken = f2 /\ p2.list.feePayer.sender = s2
  BY DEF FeePayerPayloadOf
<1>. QED
  BY <1>1, <1>2

\* Both payloads are payloads.
LEMMA PayloadTypes ==
    ASSUME NEW t \in Txs
    PROVE  /\ GetSignPayload(t) \in Payloads
           /\ \A s \in Addresses : GetFeePayerSignPayload(t, s) \in Payloads
<1>1. /\ t.chainID \in ChainIds /\ t.body \in Bodies /\ t.feeToken \in FeeTokens
      /\ t.keyAuth \in KeyAuthFields
  BY DEF Txs
<1>2. SenderPayloadOf(t.chainID, t.body, t.keyAuth, t.feeToken, Sponsored(t))
         \in Payloads
  BY <1>1 DEF SenderPayloadOf, Payloads, UnsignedLists, FeeTokens
<1>3. ASSUME NEW s \in Addresses
      PROVE  FeePayerPayloadOf(t.chainID, t.body, t.keyAuth, t.feeToken, s)
                \in Payloads
  BY <1>1 DEF FeePayerPayloadOf, Payloads, UnsignedLists
<1>. QED
  BY <1>2, <1>3, SignPayloadForm, FeePayerPayloadForm

\* VerifySignature names an address: of a key, the stray one, or the error's.
LEMMA VerifySignatureType ==
    ASSUME NEW t \in Txs
    PROVE  /\ VerifySignature(t) \in Addresses
           /\ FeePayerSender(t) \in Addresses
  BY DEF VerifySignature, FeePayerSender, RecoverAddress, Txs, Envelopes, NoSig,
         Secp256k1Signatures, KeychainSignatures, Addresses

-----------------------------------------------------------------------------
(* Each step yields a well-formed transaction.                             *)

LEMMA SenderSignsType ==
    ASSUME NEW t \in Txs, NEW key \in Keys
    PROVE  SignTransaction(t, key) \in Txs
  BY PayloadTypes DEF SignTransaction, Sign, Txs, Envelopes, Secp256k1Signatures,
                      Addresses

LEMMA AccessKeySignsType ==
    ASSUME NEW t \in Txs, NEW key \in Keys, NEW root \in Keys
    PROVE  SignWithAccessKey(t, key, root) \in Txs
<1> DEFINE r == [t EXCEPT !.from = root]
<1>1. r \in Txs
  BY DEF Txs, Addresses
<1>2. GetSignPayload(r) \in Payloads
  BY <1>1, PayloadTypes
<1>. QED
  BY <1>1, <1>2 DEF SignWithAccessKey, KeychainDigest, Txs, Envelopes,
                    KeychainSignatures

LEMMA FeePayerSignsType ==
    ASSUME NEW t \in Txs, NEW key \in Keys
    PROVE  AddFeePayerSignature(t, key) \in Txs
  BY PayloadTypes, VerifySignatureType
     DEF AddFeePayerSignature, Sign, Txs, Secp256k1Signatures

LEMMA CloneType ==
    ASSUME NEW t \in Txs
    PROVE  Clone(t) \in Txs
  BY DEF Clone, Txs, Envelopes

\* What a transfer keeps and what it changes.
LEMMA TransferForm ==
    ASSUME NEW t \in Txs
    PROVE  Deserialize(Serialize(t, NormalOpts)) =
               [chainID |-> IF t.chainID = 0 THEN ChainIdMainnet ELSE t.chainID,
                body |-> t.body, feeToken |-> t.feeToken, keyAuth |-> t.keyAuth,
                sig |-> t.sig, feePayerSig |-> t.feePayerSig,
                awaiting |-> t.awaiting /\ t.feePayerSig = NoSig,
                from |-> ZeroAddr]
<1> DEFINE raw == buildRLPList(t, NormalOpts)
           out == Deserialize(Serialize(t, NormalOpts))
<1>1. raw = [chainID |-> t.chainID, body |-> t.body, feeToken |-> t.feeToken,
             feePayer |-> encodeFeePayerField(t, NormalOpts),
             keyAuth |-> t.keyAuth, sig |-> t.sig]
  BY DEF buildRLPList, NormalOpts, skipFeeToken, encodeFeeTokenConditional
<1>2. Serialize(t, NormalOpts).list = raw
  BY DEF Serialize
<1>3. /\ encodeFeePayerField(t, NormalOpts).kind = "sig" <=> t.feePayerSig # NoSig
      /\ t.feePayerSig # NoSig =>
            encodeFeePayerField(t, NormalOpts).sig = t.feePayerSig
      /\ encodeFeePayerField(t, NormalOpts).kind = "marker"
            <=> t.awaiting /\ t.feePayerSig = NoSig
  BY DEF encodeFeePayerField, NormalOpts, Txs
<1>4. out = [New EXCEPT
               !.chainID     = IF raw.chainID = 0 THEN ChainIdMainnet ELSE raw.chainID,
               !.body        = raw.body,
               !.feeToken    = raw.feeToken,
               !.keyAuth     = raw.keyAuth,
               !.sig         = raw.sig,
               !.feePayerSig = IF raw.feePayer.kind = "sig" THEN raw.feePayer.sig
                                                            ELSE NoSig,
               !.awaiting    = raw.feePayer.kind = "marker"]
  BY <1>2, Zenon DEF Deserialize
<1>5. /\ raw.chainID = t.chainID /\ raw.body = t.body /\ raw.feeToken = t.feeToken
      /\ raw.keyAuth = t.keyAuth /\ raw.sig = t.sig
      /\ raw.feePayer = encodeFeePayerField(t, NormalOpts)
  BY <1>1
<1>6. /\ (IF raw.feePayer.kind = "sig" THEN raw.feePayer.sig ELSE NoSig)
            = t.feePayerSig
      /\ (raw.feePayer.kind = "marker") = (t.awaiting /\ t.feePayerSig = NoSig)
  BY <1>3, <1>5 DEF Txs
<1> DEFINE chain == IF raw.chainID = 0 THEN ChainIdMainnet ELSE raw.chainID
           payer == IF raw.feePayer.kind = "sig" THEN raw.feePayer.sig ELSE NoSig
           wait  == raw.feePayer.kind = "marker"
<1>7. out = [chainID |-> chain, body |-> raw.body, feeToken |-> raw.feeToken,
             keyAuth |-> raw.keyAuth, sig |-> raw.sig, feePayerSig |-> payer,
             awaiting |-> wait, from |-> ZeroAddr]
  <2>. HIDE DEF raw, out, chain, payer, wait
  <2>1. out = [New EXCEPT !.chainID = chain, !.body = raw.body,
                          !.feeToken = raw.feeToken, !.keyAuth = raw.keyAuth,
                          !.sig = raw.sig, !.feePayerSig = payer,
                          !.awaiting = wait]
    BY <1>4, Zenon DEF chain, payer, wait
  <2>. QED
    BY <2>1 DEF New
<1>8. chain = IF t.chainID = 0 THEN ChainIdMainnet ELSE t.chainID
  BY <1>5
<1>9. payer = t.feePayerSig /\ wait = (t.awaiting /\ t.feePayerSig = NoSig)
  BY <1>6
<1>. HIDE DEF raw, out, chain, payer, wait
<1>. QED
  BY <1>5, <1>7, <1>8, <1>9, Zenon DEF out

LEMMA TransferType ==
    ASSUME NEW t \in Txs
    PROVE  Deserialize(Serialize(t, NormalOpts)) \in Txs
<1> DEFINE chain == IF t.chainID = 0 THEN ChainIdMainnet ELSE t.chainID
           wait  == t.awaiting /\ t.feePayerSig = NoSig
<1>1. chain \in ChainIds /\ wait \in BOOLEAN /\ ZeroAddr \in Addresses
  BY ChainAssumption DEF Txs, Addresses
<1>2. Deserialize(Serialize(t, NormalOpts)) =
        [chainID |-> chain, body |-> t.body, feeToken |-> t.feeToken,
         keyAuth |-> t.keyAuth, sig |-> t.sig, feePayerSig |-> t.feePayerSig,
         awaiting |-> wait, from |-> ZeroAddr]
  BY TransferForm
<1>. HIDE DEF chain, wait
<1>. QED
  BY <1>1, <1>2 DEF Txs

\* Transactions that say the same give the same verdict on the same signature.
LEMMA SamePayloads ==
    ASSUME NEW t \in Txs, NEW u \in Txs,
           t.chainID = u.chainID, t.body = u.body, t.keyAuth = u.keyAuth,
           Sponsored(t) = Sponsored(u), Sponsored(t) \/ t.feeToken = u.feeToken
    PROVE  GetSignPayload(t) = GetSignPayload(u)
  BY SignPayloadForm DEF SenderPayloadOf
=============================================================================

------------------------------- MODULE TempoTx -------------------------------
(***************************************************************************)
(* The data and the pure functions of pkg/transaction and pkg/keychain: a  *)
(* Tempo transaction, what its sender and its fee payer sign, the wire     *)
(* form, and the recovery of signers.                                      *)
(*                                                                         *)
(* Keys and addresses are identified: the address of a key is the key.     *)
(* Keccak256 is ideal (a digest is the serialized form it was computed     *)
(* from), and so is ECDSA: a signature is the pair of its key and digest,  *)
(* and recovering it over any other digest yields an address nobody holds. *)
(*                                                                         *)
(* Names with an underscore are faulty variants of the definition that     *)
(* follows them: the bugs that the properties are tested against.          *)
(***************************************************************************)
EXTENDS Naturals

CONSTANTS
    Keys,             \* the secp256k1 keys of senders, fee payers, access keys
    ZeroAddr,         \* common.Address{}: "not set", and the result of an error
    StrayAddr,        \* what ecrecover gives for a digest that was not signed
    Bodies,           \* gas, fees, calls, access list, nonces, validity window
    IncompleteBodies, \* the bodies Validate rejects: no gas or no calls
    EmptyBody,        \* the body of New()
    ChainIds,         \* chain ids in use; 0 is a chain id that was never set
    Tokens,           \* fee token addresses
    NoToken,          \* the zero fee token
    KeyAuths,         \* signed key authorizations
    NoKeyAuth         \* KeyAuthorization = nil

ChainIdMainnet == 4217

ASSUME AddressAssumption ==
    ZeroAddr \notin Keys /\ StrayAddr \notin Keys /\ ZeroAddr # StrayAddr
ASSUME BodyAssumption ==
    IncompleteBodies \subseteq Bodies /\ EmptyBody \in IncompleteBodies
ASSUME ChainAssumption == ChainIds \subseteq Nat /\ ChainIdMainnet \in ChainIds
ASSUME OptionAssumption == NoToken \notin Tokens /\ NoKeyAuth \notin KeyAuths

Addresses == Keys \cup {ZeroAddr, StrayAddr}
FeeTokens == Tokens \cup {NoToken}
KeyAuthFields == KeyAuths \cup {NoKeyAuth}

-----------------------------------------------------------------------------
(* Signatures.                                                             *)

NoSig == [type |-> "none"]

\* Signer.Sign, wrapped by NewSignatureEnvelope.
Sign(key, digest) == [type |-> "secp256k1", by |-> key, digest |-> digest]

RecoverAddress(digest, sig) == IF sig.digest = digest THEN sig.by ELSE StrayAddr

-----------------------------------------------------------------------------
(* Transactions.                                                           *)

New == [chainID |-> ChainIdMainnet, body |-> EmptyBody, feeToken |-> NoToken,
        keyAuth |-> NoKeyAuth, sig |-> NoSig, feePayerSig |-> NoSig,
        awaiting |-> FALSE, from |-> ZeroAddr]

\* A fee payer is involved: SetSponsored was called, or one has signed.
Sponsored(t) == t.awaiting \/ t.feePayerSig # NoSig

Validate(tx) == tx.chainID # 0 /\ tx.body \notin IncompleteBodies

\* The signatures are dropped, and so is AwaitingFeePayer; From is kept.
Clone(tx) == [tx EXCEPT !.sig = NoSig, !.feePayerSig = NoSig, !.awaiting = FALSE]

-----------------------------------------------------------------------------
(* Serialization.                                                          *)

NormalOpts     == [format |-> "normal", forSigning |-> FALSE]
ForSigningOpts == [format |-> "normal", forSigning |-> TRUE]
FeePayerOpts(sender) ==
    [format |-> "feePayer", forSigning |-> FALSE, sender |-> sender]

encodeFeeTokenConditional(token, skip) == IF skip THEN NoToken ELSE token

\* Field 11: the sender under 0x78, else the fee payer's signature, else the
\* 0x00 marker of a transaction that awaits one, else empty.
encodeFeePayerField(tx, opts) ==
    IF opts.format = "feePayer"  THEN [kind |-> "sender", sender |-> opts.sender]
    ELSE IF tx.feePayerSig # NoSig THEN [kind |-> "sig", sig |-> tx.feePayerSig]
    ELSE IF tx.awaiting            THEN [kind |-> "marker"]
    ELSE [kind |-> "empty"]

\* The token is never left out; left out of all that a sender signs.
skipFeeToken_Never(tx, opts) == FALSE
skipFeeToken_WhenSigning(tx, opts) == opts.forSigning /\ opts.format = "normal"

\* Is the fee token left out of this serialization?
skipFeeToken(tx, opts) ==
    /\ opts.forSigning
    /\ opts.format = "normal"
    /\ tx.awaiting \/ tx.feePayerSig # NoSig

buildRLPList(tx, opts) ==
    [chainID  |-> tx.chainID,
     body     |-> tx.body,
     feeToken |-> encodeFeeTokenConditional(tx.feeToken, skipFeeToken(tx, opts)),
     feePayer |-> encodeFeePayerField(tx, opts),
     keyAuth  |-> tx.keyAuth,
     sig      |-> tx.sig]

prefix(format) == IF format = "feePayer" THEN "0x78" ELSE "0x76"

Serialize(tx, opts) ==
    [prefix |-> prefix(opts.format), list |-> buildRLPList(tx, opts)]

\* The marker is lost once the fee payer's signature is stripped.
SerializeForSigning_NoMarker(tx) ==
    Serialize([tx EXCEPT !.sig = NoSig, !.feePayerSig = NoSig], ForSigningOpts)

\* What the sender signs: both signatures stripped, the marker put in as soon
\* as a fee payer is involved, so that verification after the fee payer has
\* signed sees the same payload.
SerializeForSigning(tx) ==
    Serialize([tx EXCEPT !.sig = NoSig, !.feePayerSig = NoSig,
                         !.awaiting = tx.awaiting \/ tx.feePayerSig # NoSig],
              ForSigningOpts)

\* The fee payer does not sign whose fees it pays.
SerializeForFeePayerSigning_AnySender(tx, sender) ==
    Serialize([tx EXCEPT !.sig = NoSig, !.feePayerSig = NoSig],
              FeePayerOpts(ZeroAddr))

\* What the fee payer signs (an error for the zero sender, guarded by callers).
SerializeForFeePayerSigning(tx, sender) ==
    Serialize([tx EXCEPT !.sig = NoSig, !.feePayerSig = NoSig],
              FeePayerOpts(sender))

GetSignPayload(tx) == SerializeForSigning(tx)
GetFeePayerSignPayload(tx, sender) == SerializeForFeePayerSigning(tx, sender)

\* Field 11 is always taken for a signature; or the marker is not recognized.
Deserialize_NoMarkerCase(wire) ==
    LET raw == wire.list
    IN  [New EXCEPT
           !.body = raw.body, !.feeToken = raw.feeToken,
           !.keyAuth = raw.keyAuth, !.sig = raw.sig,
           !.feePayerSig = IF raw.feePayer.kind = "empty" THEN NoSig
                                                          ELSE raw.feePayer]
Deserialize_MarkerLost(wire) ==
    LET raw == wire.list
    IN  [New EXCEPT
           !.chainID = IF raw.chainID = 0 THEN ChainIdMainnet ELSE raw.chainID,
           !.body = raw.body, !.feeToken = raw.feeToken,
           !.keyAuth = raw.keyAuth, !.sig = raw.sig,
           !.feePayerSig = IF raw.feePayer.kind = "sig" THEN raw.feePayer.sig
                                                        ELSE NoSig]

\* Decoding starts from New(), so an empty chain id becomes the mainnet's and
\* From is unset; field 11 tells the marker from a signature.
Deserialize(wire) ==
    LET raw == wire.list
    IN  [New EXCEPT
           !.chainID     = IF raw.chainID = 0 THEN ChainIdMainnet ELSE raw.chainID,
           !.body        = raw.body,
           !.feeToken    = raw.feeToken,
           !.keyAuth     = raw.keyAuth,
           !.sig         = raw.sig,
           !.feePayerSig = IF raw.feePayer.kind = "sig" THEN raw.feePayer.sig
                                                        ELSE NoSig,
           !.awaiting    = raw.feePayer.kind = "marker"]

-----------------------------------------------------------------------------
(* Signing and verification. The error result of the code is ZeroAddr.     *)

\* An earlier signer, or the account a clone was signed by, stays on as From.
SignTransaction_FromKept(tx, key) ==
    [tx EXCEPT !.sig = Sign(key, GetSignPayload(tx)),
               !.from = IF tx.from = ZeroAddr THEN key ELSE tx.from]

\* Guarded by Validate in the code.
SignTransaction(tx, key) ==
    [tx EXCEPT !.sig = Sign(key, GetSignPayload(tx)), !.from = key]

VerifySignature(tx) ==
    IF tx.sig.type # "secp256k1" THEN ZeroAddr
    ELSE RecoverAddress(GetSignPayload(tx), tx.sig)

\* The sender AddFeePayerSignature commits to: From when it is set, unverified,
\* else the address recovered from a secp256k1 envelope (ZeroAddr: an error).
FeePayerSender(tx) == IF tx.from # ZeroAddr THEN tx.from ELSE VerifySignature(tx)

\* Guarded by tx.sig # NoSig and FeePayerSender(tx) # ZeroAddr in the code.
AddFeePayerSignature(tx, key) ==
    [tx EXCEPT !.from = FeePayerSender(tx),
               !.feePayerSig =
                   Sign(key, GetFeePayerSignPayload(tx, FeePayerSender(tx)))]

VerifyFeePayerSignature(tx, sender) ==
    IF tx.feePayerSig = NoSig \/ sender = ZeroAddr THEN ZeroAddr
    ELSE RecoverAddress(GetFeePayerSignPayload(tx, sender), tx.feePayerSig)

\* VerifyDualSignatures: the sender and the fee payer, both ZeroAddr on error.
VerifyDualSignatures(tx) ==
    LET sender   == VerifySignature(tx)
        feePayer == VerifyFeePayerSignature(tx, sender)
    IN  IF sender = ZeroAddr \/ feePayer = ZeroAddr
        THEN [sender |-> ZeroAddr, feePayer |-> ZeroAddr]
        ELSE [sender |-> sender, feePayer |-> feePayer]

-----------------------------------------------------------------------------
(* Access keys: Keychain V2 signatures.                                    *)

\* keccak256(0x04 || sig_hash || root_account)
KeychainDigest(sigHash, root) == [keychain |-> sigHash, root |-> root]

\* Guarded by Validate in the code.
SignWithAccessKey(tx, accessKey, root) ==
    LET txRoot == [tx EXCEPT !.from = root]
    IN  [txRoot EXCEPT !.sig =
            [type |-> "keychain", by |-> accessKey, root |-> root,
             digest |-> KeychainDigest(GetSignPayload(txRoot), root)]]

VerifyAccessKeySignature(tx) ==
    IF tx.sig.type # "keychain"
    THEN [accessKey |-> ZeroAddr, root |-> ZeroAddr]
    ELSE [accessKey |->
             RecoverAddress(
                 KeychainDigest(GetSignPayload([tx EXCEPT !.from = tx.sig.root,
                                                          !.sig = NoSig]),
                                tx.sig.root), tx.sig),
          root |-> tx.sig.root]

-----------------------------------------------------------------------------
(* The values these functions range over.                                  *)

UnsignedLists ==
    [chainID : ChainIds, body : Bodies, feeToken : FeeTokens,
     feePayer : {[kind |-> "empty"], [kind |-> "marker"]}
                  \cup [kind : {"sender"}, sender : Addresses],
     keyAuth : KeyAuthFields, sig : {NoSig}]

Payloads == [prefix : {"0x76", "0x78"}, list : UnsignedLists]

Secp256k1Signatures ==
    [type : {"secp256k1"}, by : Keys, digest : Payloads]

KeychainSignatures ==
    [type : {"keychain"}, by : Keys, root : Keys,
     digest : [keychain : Payloads, root : Keys]]

Envelopes == {NoSig} \cup Secp256k1Signatures \cup KeychainSignatures

Txs == [chainID : ChainIds, body : Bodies, feeToken : FeeTokens,
        keyAuth : KeyAuthFields, sig : Envelopes,
        feePayerSig : {NoSig} \cup Secp256k1Signatures,
        awaiting : BOOLEAN, from : Addresses]

=============================================================================

------------------------------ MODULE WireCodec ------------------------------
(***************************************************************************)
(* pkg/transaction/serialize.go and deserialize.go below the level of      *)
(* TempoTx: the untyped RLP list of 13 to 15 fields that a transaction is  *)
(* written to and read from, what each field may be instead of what it     *)
(* should be, and which of that is rejected, normalized or passed over.    *)
(*                                                                         *)
(* A byte string is its length and its big-endian value; Byte is the       *)
(* number of values of a byte. What is too long to be a number, a          *)
(* signature envelope, is an item of its own. RLP itself is the external   *)
(* library's: a list in, the same list out.                                *)
(*                                                                         *)
(* Names with an underscore are faulty variants of the definition that     *)
(* follows them: the bugs that the properties are tested against.          *)
(***************************************************************************)
EXTENDS Integers, Sequences, SequencesExt

CONSTANTS
    Byte,        \* 256 in the code, and the lengths below 8, 20, 32 and 4217
    WordLen,     \* bytes of a uint64
    AddressLen,  \* bytes of an address
    HashLen,     \* bytes of a hash and of a signature scalar
    MainnetId    \* the chain id of New()

\* The number of byte strings of a length.
Power[len \in Nat] == IF len = 0 THEN 1 ELSE Byte * Power[len - 1]

\* What byte strings of a length stand for.
Below(len) == 0..(Power[len] - 1)

ASSUME WidthAssumption ==
    /\ Byte \in Nat \ {0, 1} /\ {WordLen, AddressLen, HashLen} \subseteq Nat \ {0}
    /\ MainnetId \in Below(WordLen) \ {0}

-----------------------------------------------------------------------------
(* Items of an RLP list.                                                   *)

Bytes(len, val) == [kind |-> "bytes", len |-> len, val |-> val]
Envelope(e)     == [kind |-> "envelope", of |-> e]
List(items)     == [kind |-> "list", items |-> items]
Empty           == Bytes(0, 0)

IsBytes(item)   == item.kind = "bytes"
IsList(item, n) == item.kind = "list" /\ Len(item.items) = n

\* big.Int.Bytes: no leading zeros, and the empty string for zero.
Minimal(n) ==
    Bytes(CHOOSE l \in 0..n : n < Power[l] /\ (l > 0 => Power[l - 1] <= n), n)

Magnitude(n) == IF n < 0 THEN -n ELSE n

\* big.Int.Bytes leaves the sign out.
bigIntToBytes(n) == Minimal(Magnitude(n))

\* common.Address.Bytes and common.Hash.Bytes.
Address(a) == Bytes(AddressLen, a)
Hash(h)    == Bytes(HashLen, h)

\* BytesToAddress and BytesToHash: the last bytes, padded on the left.
ToAddress(item) == item.val % Power[AddressLen]
ToHash(item)    == item.val % Power[HashLen]

\* A field that is not a byte string, or empty, leaves the default in place.
Given(item) == IsBytes(item) /\ item.len > 0

-----------------------------------------------------------------------------
(* Transactions. <<>> stands for nil, and <<x>> for a pointer to x. A      *)
(* big.Int is any integer (nil, which is written like 0, is not modelled). *)

BigFields  == {"chainID", "maxPriorityFeePerGas", "maxFeePerGas", "nonceKey"}
WordFields == {"gas", "nonce", "validBefore", "validAfter"}
NumFields  == BigFields \cup WordFields

New ==
    [num |-> [f \in NumFields |-> IF f = "chainID" THEN MainnetId ELSE 0],
     calls |-> <<>>, accessList |-> <<>>, feeToken |-> 0, feePayerSig |-> <<>>,
     awaiting |-> FALSE, keyAuth |-> <<>>, sig |-> <<>>]

\* nil, or a pointer to a member of S.
Pointers(S) == {p \in Seq(S) : Len(p) <= 1}

ByteStrings == {b \in [kind : {"bytes"}, len : Nat, val : Nat] : b.val < Power[b.len]}

Calls == [to : Pointers(Below(AddressLen)), value : Int, data : ByteStrings]
AccessList == Seq([address : Below(AddressLen), keys : Seq(Below(HashLen))])
FeePayerSignatures == [yParity : Below(1), r : Int, s : Int]

\* The types told apart by length and first byte; anything else is "unknown".
\* The type of Raw is what its bytes are, whatever name goes with them.
RawTypes == {"p256", "webauthn", "keychain"}
RawSignatures == [type : RawTypes \cup {"unknown"}, endsLikeMarker : BOOLEAN]

\* An envelope with a signature, with raw bytes, or with neither ("hollow").
Signatures ==
    [type : {"secp256k1"}, r : Int, s : Int, yParity : Below(1)]
        \cup RawSignatures \cup [type : {"hollow"}]

\* What the fields of Tx can hold; the key authorization is kept as it came.
IsTx(tx) ==
    /\ tx = [num |-> tx.num, calls |-> tx.calls, accessList |-> tx.accessList,
             feeToken |-> tx.feeToken, feePayerSig |-> tx.feePayerSig,
             awaiting |-> tx.awaiting, keyAuth |-> tx.keyAuth, sig |-> tx.sig]
    /\ tx.num \in [NumFields -> Int]
    /\ \A f \in WordFields : tx.num[f] \in Below(WordLen)
    /\ tx.calls \in Seq(Calls) /\ tx.accessList \in AccessList
    /\ tx.feeToken \in Below(AddressLen)
    /\ tx.feePayerSig \in Pointers(FeePayerSignatures) /\ tx.awaiting \in BOOLEAN
    /\ \/ tx.keyAuth = <<>>
       \/ tx.keyAuth = <<tx.keyAuth[1]>> /\ tx.keyAuth[1].kind = "list"
    /\ tx.sig \in Pointers(Signatures)

-----------------------------------------------------------------------------
(* Strings, as deep as the library looks into them.                        *)

IsSeq(s) == Len(s) \in Nat /\ s = [i \in 1..Len(s) |-> s[i]]

IsItem(item) == IsBytes(item) => item \in ByteStrings

IsFlat(item) ==
    /\ IsItem(item)
    /\ item.kind = "list" =>
          /\ item = List(item.items) /\ IsSeq(item.items)
          /\ \A i \in DOMAIN item.items : IsItem(item.items[i])

IsNested(item) ==
    IsFlat(item) /\ (item.kind = "list" => \A i \in DOMAIN item.items : IsFlat(item.items[i]))

IsDeep(item) ==
    IsFlat(item) /\ (item.kind = "list" => \A i \in DOMAIN item.items : IsNested(item.items[i]))

\* A signature of 65 bytes, or a longer one.
IsEnvelope(item) ==
    /\ item = Envelope(item.of)
    /\ item.of.type = "secp256k1" =>
          item.of \in [type : {"secp256k1"}, r : Below(HashLen), s : Below(HashLen),
                       recoveryID : Nat]
    /\ item.of.type \in RawTypes => item.of \in RawSignatures

IsTail(tail) ==
    /\ IsSeq(tail)
    /\ \A i \in DOMAIN tail : tail[i].kind = "envelope" => IsEnvelope(tail[i])

IsString(w) ==
    /\ w = [prefix |-> w.prefix, suffix |-> w.suffix, num |-> w.num, calls |-> w.calls,
            accessList |-> w.accessList, feeToken |-> w.feeToken,
            feePayer |-> w.feePayer, authList |-> w.authList, tail |-> w.tail]
    /\ w.num = [f \in NumFields |-> w.num[f]] /\ \A f \in NumFields : IsItem(w.num[f])
    /\ IsNested(w.calls) /\ IsDeep(w.accessList)
    /\ IsItem(w.feeToken) /\ IsFlat(w.feePayer) /\ IsTail(w.tail)

-----------------------------------------------------------------------------
(* Reading.                                                                *)

\* One byte too many is let through; bytesToUint64 fails on values of more than
\* 64 bits, and on nothing else.
FitsWord_Length(item) == item.len <= WordLen + 1
FitsWord(item) == item.val \in Below(WordLen)

decodeCall(call) ==
    [to    |-> IF Given(call.items[1]) THEN <<ToAddress(call.items[1])>> ELSE <<>>,
     value |-> IF Given(call.items[2]) THEN call.items[2].val ELSE 0,
     data  |-> IF IsBytes(call.items[3]) THEN call.items[3] ELSE Empty]

ValidAccess(entry) ==
    /\ IsList(entry, 2)
    /\ IsBytes(entry.items[1]) /\ entry.items[2].kind = "list"
    /\ \A i \in DOMAIN entry.items[2].items : IsBytes(entry.items[2].items[i])

decodeAccess(entry) ==
    [address |-> ToAddress(entry.items[1]),
     keys    |-> [i \in DOMAIN entry.items[2].items |-> ToHash(entry.items[2].items[i])]]

\* decodeYParity and the bounds on r and s.
ValidSignature(t) ==
    /\ \A i \in 1..3 : IsBytes(t.items[i])
    /\ t.items[1].len <= 1 /\ t.items[1].val <= 1
    /\ t.items[2].len <= HashLen /\ t.items[3].len <= HashLen

decodeSignature(t) ==
    [yParity |-> t.items[1].val, r |-> t.items[2].val, s |-> t.items[3].val]

\* decodeRecoveryID; an envelope is never empty.
ValidEnvelope(item) ==
    /\ item.kind = "envelope"
    /\ \/ item.of.type = "secp256k1" /\ item.of.recoveryID \in {0, 1, 27, 28}
       \/ item.of.type \in RawTypes

\* The recovery id is kept as it came.
decodeSignatureEnvelope_Verbatim(item) ==
    IF item.of.type = "secp256k1"
    THEN [type |-> "secp256k1", r |-> item.of.r, s |-> item.of.s,
          yParity |-> item.of.recoveryID]
    ELSE item.of

decodeSignatureEnvelope(item) ==
    IF item.of.type = "secp256k1"
    THEN [type |-> "secp256k1", r |-> item.of.r, s |-> item.of.s,
          yParity |-> IF item.of.recoveryID \in {27, 28} THEN item.of.recoveryID - 27
                                                         ELSE item.of.recoveryID]
    ELSE item.of

\* Raw bytes that end like tempo.ts's marker.
IsMarked(item) ==
    /\ item.kind = "envelope" /\ item.of.type \in RawTypes \cup {"unknown"}
    /\ item.of.endsLikeMarker

\* The string ends in the bytes that mark tempo.ts's suffix, but this is the end
\* of its last field: of a signature, or of the one in a key authorization.
EndsLikeMarker(w) ==
    /\ ~w.suffix /\ w.tail # <<>>
    /\ \/ IsMarked(Last(w.tail))
       \/ /\ Last(w.tail).kind = "list" /\ Last(w.tail).items # <<>>
          /\ IsMarked(Last(Last(w.tail).items))

Marker == Bytes(1, 0)

\* A single field is always a signature.
ValidTail_SignatureFirst(tail) ==
    \/ tail = <<>>
    \/ Len(tail) = 1 /\ ValidEnvelope(tail[1])
    \/ Len(tail) = 2 /\ tail[1].kind = "list" /\ ValidEnvelope(tail[2])

\* Fields 13 and 14: nothing, an authorization or a signature, or both.
ValidTail(tail) ==
    \/ tail = <<>>
    \/ Len(tail) = 1 /\ (tail[1].kind = "list" \/ ValidEnvelope(tail[1]))
    \/ Len(tail) = 2 /\ tail[1].kind = "list" /\ ValidEnvelope(tail[2])

\* Deserialize finds no error. The suffix is cut off, and what ends like it is
\* cut too, which leaves no list; fields 11 and 12 in another shape are ignored.
Readable(w) ==
    /\ w.prefix = "76" /\ ~EndsLikeMarker(w)
    /\ \A f \in WordFields : Given(w.num[f]) => FitsWord(w.num[f])
    /\ w.calls.kind = "list" =>
          \A i \in DOMAIN w.calls.items : IsList(w.calls.items[i], 3)
    /\ w.accessList.kind = "list" =>
          \A i \in DOMAIN w.accessList.items : ValidAccess(w.accessList.items[i])
    /\ IsList(w.feePayer, 3) => ValidSignature(w.feePayer)
    /\ ValidTail(w.tail)

Deserialize(w) ==
    [num |-> [f \in NumFields |-> IF Given(w.num[f]) THEN w.num[f].val ELSE New.num[f]],
     calls |-> IF w.calls.kind = "list"
               THEN [i \in DOMAIN w.calls.items |-> decodeCall(w.calls.items[i])]
               ELSE <<>>,
     accessList |-> IF w.accessList.kind = "list"
                    THEN [i \in DOMAIN w.accessList.items |->
                             decodeAccess(w.accessList.items[i])]
                    ELSE <<>>,
     feeToken |-> IF Given(w.feeToken) THEN ToAddress(w.feeToken) ELSE 0,
     feePayerSig |-> IF IsList(w.feePayer, 3) THEN <<decodeSignature(w.feePayer)>>
                                              ELSE <<>>,
     awaiting |-> w.feePayer = Marker,
     keyAuth |-> IF w.tail # <<>> /\ w.tail[1].kind = "list" THEN <<w.tail[1]>> ELSE <<>>,
     sig |-> IF w.tail # <<>> /\ Last(w.tail).kind = "envelope"
             THEN <<decodeSignatureEnvelope(Last(w.tail))>> ELSE <<>>]

-----------------------------------------------------------------------------
(* Writing.                                                                *)

encodeCall(call) ==
    List(<<IF call.to = <<>> THEN Empty ELSE Address(call.to[1]),
           bigIntToBytes(call.value), call.data>>)

encodeAccess(entry) ==
    List(<<Address(entry.address),
           List([i \in DOMAIN entry.keys |-> Hash(entry.keys[i])])>>)

encodeFeeToken(token) == IF token = 0 THEN Empty ELSE Address(token)

\* The parity is always a byte, also when it is zero.
encodeSignature_ParityByte(s) ==
    List(<<Bytes(1, s.yParity), bigIntToBytes(s.r), bigIntToBytes(s.s)>>)

\* A fee payer's signature is written as it is, whatever its parity and scalars.
encodeSignature(s) ==
    List(<<Minimal(s.yParity), bigIntToBytes(s.r), bigIntToBytes(s.s)>>)

\* A parity there is, and scalars that fit their 32 bytes.
ScalarsFit(s) ==
    s.yParity <= 1 /\ Magnitude(s.r) \in Below(HashLen) /\ Magnitude(s.s) \in Below(HashLen)

\* encodeSignatureEnvelope finds no error; raw bytes are not looked into.
WritableEnvelope(s) == s.type # "hollow" /\ (s.type = "secp256k1" => ScalarsFit(s))

Writable(tx) == tx.sig # <<>> => WritableEnvelope(tx.sig[1])

encodeSignatureEnvelope(s) ==
    IF s.type = "secp256k1"
    THEN Envelope([type |-> "secp256k1", r |-> Magnitude(s.r), s |-> Magnitude(s.s),
                   recoveryID |-> s.yParity])
    ELSE Envelope(s)

\* Field 11 in the normal format.
encodeFeePayerField(tx) ==
    IF tx.feePayerSig # <<>> THEN encodeSignature(tx.feePayerSig[1])
    ELSE IF tx.awaiting THEN Marker
    ELSE Empty

Serialize(tx) ==
    [prefix |-> "76", suffix |-> FALSE,
     num |-> [f \in NumFields |-> bigIntToBytes(tx.num[f])],
     calls |-> List([i \in DOMAIN tx.calls |-> encodeCall(tx.calls[i])]),
     accessList |-> List([i \in DOMAIN tx.accessList |-> encodeAccess(tx.accessList[i])]),
     feeToken |-> encodeFeeToken(tx.feeToken),
     feePayer |-> encodeFeePayerField(tx),
     authList |-> List(<<>>),
     tail |-> tx.keyAuth
                \o (IF tx.sig = <<>> THEN <<>> ELSE <<encodeSignatureEnvelope(tx.sig[1])>>)]
=============================================================================

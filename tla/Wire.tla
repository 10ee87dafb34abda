--------------------------------- MODULE Wire ---------------------------------
(***************************************************************************)
(* A transaction on its way: a program of this library puts it together,   *)
(* with a key authorization if it likes, and writes it; or another encoder *)
(* does, in a form of its own. Programs of this library read it, and write *)
(* it out again for the next (a relay, a signer, the node).                *)
(*                                                                         *)
(* Names with an underscore are faulty variants of the definition that     *)
(* follows them: the bugs that the properties are tested against.          *)
(***************************************************************************)
EXTENDS KeyAuthorization

CONSTANTS
    OwnTxs,         \* the unsigned transactions programs put together
    Carriers,       \* those of them that key authorizations are tried on
    Templates,      \* those of them that other encoders start from
    Envelopes,      \* the signatures a sender may put on one
    Oddities,       \* <<field, item>>: what another encoder may write instead
    NumOddities,    \* <<field, item>>: the same for the numeric fields
    MaxEdits,       \* bound on the settings made on one authorization
    MaxOddities,    \* bound on the oddities in one string
    MaxHops,        \* bound on how often a transaction is written out again
    NoWire

ASSUME WireAssumption ==
    /\ Carriers \cup Templates \subseteq OwnTxs
    /\ MaxEdits \in Nat /\ MaxOddities \in Nat /\ MaxHops \in Nat

\* What programs put together: the authorization and the signature come later.
ASSUME OwnAssumption ==
    /\ \A t \in OwnTxs : IsTx(t) /\ t.keyAuth = <<>> /\ t.sig = <<>>
    /\ Envelopes \subseteq Signatures

\* What the node makes of an authorization whose signature fits is what its
\* signer had before it.
IsAsSigned(grant) ==
    Len(grant.items) = 2 /\ Authentic(grant) =>
        ReadByNode(grant.items[1].items) = grant.items[2].of.says

\* Other encoders write items that are byte strings and lists too, and pass on
\* no authorization whose signer they made sign something else.
ASSUME OtherAssumption ==
    /\ \A o \in NumOddities : o[1] \in NumFields /\ IsItem(o[2])
    /\ \A o \in Oddities :
          \/ o[1] \in {"prefix", "authList"}
          \/ o[1] = "calls" /\ IsNested(o[2])
          \/ o[1] = "accessList" /\ IsDeep(o[2])
          \/ o[1] = "feeToken" /\ IsItem(o[2])
          \/ o[1] = "feePayer" /\ IsFlat(o[2])
          \/ /\ o[1] = "tail" /\ IsTail(o[2])
             /\ \A x \in ToSet(o[2]) : x.kind = "list" => IsAsSigned(x)

VARIABLES
    tx,       \* the transaction a program puts together
    edits,    \* how many settings its authorization was given
    wire,     \* the string on its way
    written,  \* what the library first wrote as this string; <<>> once altered
    oddities, \* how many fields another encoder wrote in its own way
    seen,     \* what the last reader made of the string
    first,    \* what the first one made of it
    hops      \* how often it was written out again

wireVars == <<wire, written, oddities, seen, first, hops>>
vars == <<authVars, tx, edits, wireVars>>

Init ==
    /\ tx \in {<<t>> : t \in OwnTxs}
    /\ auth = NoAuth /\ device = NoAuth /\ edits = 0
    /\ wire = NoWire /\ written = <<>> /\ oddities = 0
    /\ seen = <<>> /\ first = <<>> /\ hops = 0

-----------------------------------------------------------------------------
(* The program.                                                            *)

StartAuthorization ==
    /\ tx # <<>> /\ tx[1] \in Carriers /\ auth = NoAuth
    /\ \E t \in KeyTypes : NewKeyAuthorization(MainnetId, t, 1)
    /\ UNCHANGED <<tx, edits, wireVars>>

EditAuthorization ==
    /\ edits < MaxEdits
    /\ edits' = edits + 1
    /\ \/ \E e \in Expiries : WithExpiry(e)
       \/ \E l \in LimitLists : WithLimits(l)
       \/ \E s \in ScopeLists : WithAllowedCalls(s)
       \/ \E h \in Witnesses : WithWitness(h)
       \/ \E a \in Roots : WithAccount(a) \/ IntoAdmin(a)
    /\ UNCHANGED <<tx, wireVars>>

AskDevice ==
    /\ tx # <<>> /\ device = NoAuth
    /\ \E root \in Roots :
          \/ DeviceSigns(root, "p256", FALSE)
          \/ DeviceSigns(root, "webauthn", TRUE)
          \/ DeviceSigns(root, "secp256k1v01", FALSE)
    /\ UNCHANGED <<tx, edits, wireVars>>

\* The authorization is finished with: the program lets go of it.
Attach(keyAuth) ==
    /\ tx' = <<[tx[1] EXCEPT !.keyAuth = <<keyAuth>>]>>
    /\ auth' = NoAuth /\ device' = NoAuth /\ edits' = 0

\* SignAndAttach refuses a transaction with a signature of either kind.
SignAndAttach(root) ==
    /\ tx # <<>> /\ auth # NoAuth /\ Validate(auth)
    /\ tx[1].sig = <<>> /\ tx[1].feePayerSig = <<>>
    /\ Attach(Sign(auth, root))
    /\ UNCHANGED wireVars

\* BuildSigned with the device's answer, and an assignment to the transaction.
BuildSigned ==
    /\ tx # <<>> /\ auth # NoAuth /\ device # NoAuth
    /\ validatePrimitiveSignatureBytes(device) /\ Validate(auth)
    /\ Attach(SignedWith(auth, device))
    /\ UNCHANGED wireVars

SignTx(envelope) ==
    /\ tx # <<>> /\ tx[1].sig = <<>> /\ auth = NoAuth
    /\ tx' = <<[tx[1] EXCEPT !.sig = <<envelope>>]>>
    /\ UNCHANGED <<authVars, edits, wireVars>>

\* tempo.ts puts the sender and a marker behind what it sends to a relay.
Send(suffix) ==
    /\ tx # <<>> /\ auth = NoAuth /\ Writable(tx[1])
    /\ wire' = [Serialize(tx[1]) EXCEPT !.suffix = suffix]
    /\ written' = tx
    /\ tx' = <<>>
    /\ UNCHANGED <<authVars, edits, oddities, seen, first, hops>>

-----------------------------------------------------------------------------
(* Other encoders: the string is one the library would not have written.   *)

WriteOddly ==
    /\ wire # NoWire /\ hops = 0 /\ oddities < MaxOddities
    /\ written # <<>> => written[1] \in Templates
    /\ \/ \E o \in Oddities : wire' = [wire EXCEPT ![o[1]] = o[2]]
       \/ \E o \in NumOddities : wire' = [wire EXCEPT !.num[o[1]] = o[2]]
    /\ oddities' = oddities + 1
    /\ written' = <<>>
    /\ UNCHANGED <<authVars, tx, edits, seen, first, hops>>

-----------------------------------------------------------------------------
(* The readers.                                                            *)

Read ==
    /\ wire # NoWire /\ Readable(wire)
    /\ seen' = <<Deserialize(wire)>>
    /\ first' = IF hops = 0 THEN seen' ELSE first
    /\ wire' = NoWire
    /\ UNCHANGED <<authVars, tx, edits, written, oddities, hops>>

Forward ==
    /\ seen # <<>> /\ Writable(seen[1]) /\ hops < MaxHops
    /\ wire' = Serialize(seen[1])
    /\ seen' = <<>>
    /\ hops' = hops + 1
    /\ UNCHANGED <<authVars, tx, edits, written, oddities, first>>

Next ==
    \/ StartAuthorization \/ EditAuthorization \/ AskDevice \/ BuildSigned \/ WriteOddly \/ Read \/ Forward
    \/ \E root \in Roots : SignAndAttach(root)
    \/ \E e \in Envelopes : SignTx(e)
    \/ \E suffix \in BOOLEAN : Send(suffix)

Spec == Init /\ [][Next]_vars

-----------------------------------------------------------------------------
(* Properties.                                                             *)

\* What a reader holds fits the fields of Tx and the widths of the encodings:
\* no number of more than 64 bits in a uint64, no address of another length.
TypeOK ==
    /\ auth \in Authorizations \cup {NoAuth}
    /\ device # NoAuth => device.says \in Authorizations
    /\ oddities \in 0..MaxOddities /\ hops \in 0..MaxHops
    /\ \A txs \in {tx, written, seen, first} :
          txs = <<>> \/ (txs = <<txs[1]>> /\ IsTx(txs[1]))
    /\ wire # NoWire => IsString(wire)
    /\ \A i \in DOMAIN seen : seen[i].awaiting => seen[i].feePayerSig = <<>>

-----------------------------------------------------------------------------
(* What may become of a transaction on its way.                            *)

CallMagnitude(c) == [c EXCEPT !.value = Magnitude(@)]

ScalarMagnitudes(s) == [s EXCEPT !.r = Magnitude(@), !.s = Magnitude(@)]

EnvelopeMagnitudes(s) == IF s.type = "secp256k1" THEN ScalarMagnitudes(s) ELSE s

\* The transaction without the signs of its numbers.
Magnitudes(t) ==
    [t EXCEPT !.num   = [f \in NumFields |-> Magnitude(@[f])],
              !.calls = [i \in DOMAIN @ |-> CallMagnitude(@[i])],
              !.feePayerSig = IF @ = <<>> THEN <<>> ELSE <<ScalarMagnitudes(@[1])>>,
              !.sig   = IF @ = <<>> THEN <<>> ELSE <<EnvelopeMagnitudes(@[1])>>]

\* The signatures are ones there are: a fee payer's parity and scalars, and raw
\* bytes that begin like a known type.
KnownSignatures(t) ==
    /\ t.feePayerSig # <<>> => ScalarsFit(t.feePayerSig[1])
    /\ t.sig # <<>> => t.sig[1].type # "unknown"

\* An unset chain id becomes the mainnet's when it is read.
ChainKnown(t) == [t EXCEPT !.num["chainID"] = IF @ = 0 THEN MainnetId ELSE @]

\* Whatever form a string was in, once a program has read it, every further
\* program reads the same transaction: it has no sign to lose and no signature
\* that there is not, can be written again, is readable (unless its own end
\* looks like tempo.ts's marker), and means the same. Only a chain id of zero, in
\* the one form that is not empty, is read as zero first and as the mainnet's
\* from then on.
HopsAgree ==
    /\ seen # <<>> => /\ Writable(seen[1]) /\ KnownSignatures(seen[1])
                      /\ Magnitudes(seen[1]) = seen[1]
    /\ hops > 0 /\ wire # NoWire => Readable(wire) \/ EndsLikeMarker(wire)
    /\ hops > 0 /\ seen # <<>> => seen[1] = ChainKnown(first[1])

\* What the library writes, with or without tempo.ts's suffix, it reads exactly
\* when the signatures are ones there are (Serialize checks neither a fee payer's
\* signature nor raw bytes), and as the transaction that was written but for the
\* signs of its numbers, which bigIntToBytes leaves out: an authorization is not taken for a signature, the
\* marker not for a fee payer, and no default for a value. A transaction that has
\* a fee payer's signature no longer awaits it.
OwnStringsAreRead ==
    written # <<>> =>
        /\ wire # NoWire =>
              (Readable(wire) <=> KnownSignatures(written[1])) \/ EndsLikeMarker(wire)
        /\ first # <<>> =>
              first[1] = [ChainKnown(Magnitudes(written[1]))
                             EXCEPT !.awaiting = @ /\ written[1].feePayerSig = <<>>]

-----------------------------------------------------------------------------

\* The form that the comment on Deserialize gives of each field, in canonical
\* encoding.
CanonicalSignature(t) ==
    /\ \A i \in 1..3 : IsBytes(t.items[i]) /\ t.items[i] = Minimal(t.items[i].val)
    /\ t.items[1].val \in {0, 1}
    /\ t.items[2].len <= HashLen /\ t.items[3].len <= HashLen

CanonicalCall(c) ==
    /\ IsList(c, 3)
    /\ \A i \in 1..3 : IsBytes(c.items[i])
    /\ c.items[1].len \in {0, AddressLen}
    /\ c.items[2] = Minimal(c.items[2].val)

CanonicalAccess(e) ==
    /\ IsList(e, 2)
    /\ IsBytes(e.items[1]) /\ e.items[1].len = AddressLen
    /\ e.items[2].kind = "list"
    /\ \A k \in ToSet(e.items[2].items) : IsBytes(k) /\ k.len = HashLen

CanonicalEnvelope(e) ==
    /\ e.kind = "envelope"
    /\ \/ e.of.type \in RawTypes
       \/ e.of.type = "secp256k1" /\ e.of.recoveryID \in {0, 1}

Canonical(w) ==
    /\ w.prefix = "76"
    /\ \A f \in NumFields : IsBytes(w.num[f]) /\ w.num[f] = Minimal(w.num[f].val)
    /\ \A f \in WordFields : w.num[f].len <= WordLen
    /\ w.num["chainID"] # Empty
    /\ w.calls.kind = "list" /\ \A c \in ToSet(w.calls.items) : CanonicalCall(c)
    /\ w.accessList.kind = "list"
    /\ \A e \in ToSet(w.accessList.items) : CanonicalAccess(e)
    /\ IsBytes(w.feeToken)
    /\ w.feeToken # Empty => w.feeToken.len = AddressLen /\ w.feeToken.val # 0
    /\ w.feePayer \notin {Empty, Marker} =>
          IsList(w.feePayer, 3) /\ CanonicalSignature(w.feePayer)
    /\ w.authList = List(<<>>)
    /\ \/ w.tail = <<>>
       \/ Len(w.tail) = 1 /\ (w.tail[1].kind = "list" \/ CanonicalEnvelope(w.tail[1]))
       \/ Len(w.tail) = 2 /\ w.tail[1].kind = "list" /\ CanonicalEnvelope(w.tail[2])

\* A string in the documented form, by whomever it was written, is read, and is
\* written again as the very same string (without the suffix): signatures are
\* over the string, so no other form would do.
CanonicalIsKept ==
    wire # NoWire /\ Canonical(wire) /\ ~EndsLikeMarker(wire) =>
        Readable(wire) /\ Serialize(Deserialize(wire)) = [wire EXCEPT !.suffix = FALSE]

\* An authorization whose signature fits, on any transaction that a reader
\* holds, is read by the node as what its signer had before it: no limits are
\* not none allowed, a witness of zero is a witness, a setting is in its place,
\* and an edit after a device was asked makes its answer worthless.
GrantIsAsSigned ==
    \A i \in DOMAIN seen : \A grant \in ToSet(seen[i].keyAuth) : IsAsSigned(grant)

=============================================================================

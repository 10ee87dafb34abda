--------------------------- MODULE KeyAuthorization ---------------------------
(***************************************************************************)
(* pkg/keychain/key_authorization.go: the authorization of a key that goes *)
(* into a transaction (TIP-1049). It is put together with a builder,       *)
(* encoded as a positional list whose absent fields are left out at the    *)
(* end and kept as empty strings before, and signed by a root or admin     *)
(* key, here or on a device that is given the hash and answers later.      *)
(*                                                                         *)
(* <<>> stands for nil, and <<x>> for a pointer to x. A hash is what it is *)
(* computed from; a signature records who made it, over what, and what the *)
(* authorization said then.                                                *)
(*                                                                         *)
(* Names with an underscore are faulty variants of the definition that     *)
(* follows them: the bugs that the properties are tested against.          *)
(***************************************************************************)
EXTENDS WireCodec, FiniteSetsExt

CONSTANTS
    Roots,         \* root and admin keys, as addresses
    KeyTypes,      \* key types in use; the library knows 0 to 2
    Expiries,      \* expiry times; 0 is never
    LimitLists,    \* lists of token limits
    ScopeLists,    \* lists of call scopes
    Witnesses,     \* witness hashes
    NoAuth         \* there is no authorization, or no signature yet

Limits == [token : Nat, amount : Pointers(Int), period : Nat]
Scopes == [target : Nat, rules : Seq([selector : Nat, recipients : Seq(Nat)])]

ASSUME AuthAssumption ==
    /\ Roots \cup KeyTypes \cup Expiries \cup Witnesses \subseteq Nat
    /\ LimitLists \subseteq Seq(Limits) /\ ScopeLists \subseteq Seq(Scopes)

VARIABLES
    auth,    \* the KeyAuthorization being put together
    device   \* what a signing device answered for its hash

authVars == <<auth, device>>

SignatureTypeWebAuthn == 2
SelectorLen == 4

Authorizations ==
    [chainID : Nat, keyType : KeyTypes, keyID : Nat, expiry : {0} \cup Expiries,
     limits : {<<>>} \cup {<<l>> : l \in LimitLists},
     allowedCalls : {<<>>} \cup {<<s>> : s \in ScopeLists},
     witness : {<<>>} \cup {<<h>> : h \in Witnesses},
     isAdmin : BOOLEAN, account : {<<>>} \cup {<<a>> : a \in Roots}]

-----------------------------------------------------------------------------
(* Encoding.                                                               *)

\* An amount is nil (<<>>) or a big.Int.
ValidLimit(l) == l.amount # <<>> /\ l.amount[1] \in Below(HashLen)

Validate(a) ==
    /\ a.keyType <= SignatureTypeWebAuthn
    /\ a.isAdmin => a.expiry = 0 /\ a.limits = <<>> /\ a.allowedCalls = <<>>
    /\ a.isAdmin => a.account # <<>>
    /\ a.limits # <<>> => \A i \in DOMAIN a.limits[1] : ValidLimit(a.limits[1][i])

\* The period is left out when it is zero.
encodeTokenLimits(limits) ==
    List([i \in DOMAIN limits |->
             List(<<Address(limits[i].token), Minimal(limits[i].amount[1])>>
                     \o (IF limits[i].period = 0 THEN <<>>
                         ELSE <<Minimal(limits[i].period)>>))])

encodeRule(rule) ==
    List(<<Bytes(SelectorLen, rule.selector),
           List([i \in DOMAIN rule.recipients |-> Address(rule.recipients[i])])>>)

encodeCallScopes(scopes) ==
    List([i \in DOMAIN scopes |->
             List(<<Address(scopes[i].target),
                    List([j \in DOMAIN scopes[i].rules |->
                             encodeRule(scopes[i].rules[j])])>>)])

\* A list without elements is taken for an absent one.
Optional_EmptyAsAbsent(pointer, item) ==
    IF pointer = <<>> \/ item = List(<<>>) THEN Empty ELSE item

Optional(pointer, item) == IF pointer = <<>> THEN Empty ELSE item

\* The optional fields in their places; one that is absent is Empty, and one
\* that is present never is.
optionals(a) ==
    <<Minimal(a.expiry),
      Optional(a.limits, encodeTokenLimits(a.limits[1])),
      Optional(a.allowedCalls, encodeCallScopes(a.allowedCalls[1])),
      Optional(a.witness, Hash(a.witness[1])),
      IF a.isAdmin THEN Bytes(1, 1) ELSE Empty,
      Optional(a.account, Address(a.account[1]))>>

\* Guarded by Validate in the code.
encodeFields(a) ==
    LET highest == Max({0} \cup {i \in DOMAIN optionals(a) : optionals(a)[i] # Empty})
    IN  <<Minimal(a.chainID), Minimal(a.keyType), Address(a.keyID)>>
            \o SubSeq(optionals(a), 1, highest)

-----------------------------------------------------------------------------
(* Building.                                                               *)

NewKeyAuthorization(chainID, keyType, keyID) ==
    /\ auth' = [chainID |-> chainID, keyType |-> keyType, keyID |-> keyID,
                expiry |-> 0, limits |-> <<>>, allowedCalls |-> <<>>,
                witness |-> <<>>, isAdmin |-> FALSE, account |-> <<>>]
    /\ UNCHANGED device

\* One setting is made, whatever it was before.
Set(field, value) ==
    /\ auth # NoAuth
    /\ auth' = [auth EXCEPT ![field] = value]
    /\ UNCHANGED device

WithExpiry(expiry) == Set("expiry", expiry)
WithLimits(limits) == Set("limits", <<limits>>)        \* and WithNoSpending
WithAllowedCalls(scopes) == Set("allowedCalls", <<scopes>>)    \* and WithNoCalls
WithWitness(witness) == Set("witness", <<witness>>)
WithAccount(account) == Set("account", <<account>>)

IntoAdmin(account) ==
    /\ auth # NoAuth
    /\ auth' = [auth EXCEPT !.isAdmin = TRUE, !.account = <<account>>]
    /\ UNCHANGED device

\* SignatureHash is handed to a device, which signs it; its answer may happen to
\* end like tempo.ts's marker.
DeviceSigns(root, type, marked) ==
    /\ auth # NoAuth /\ Validate(auth)
    /\ device' = [type |-> type, endsLikeMarker |-> marked, by |-> root,
                  digest |-> encodeFields(auth), says |-> auth]
    /\ UNCHANGED auth

-----------------------------------------------------------------------------
(* Signed authorizations.                                                  *)

\* secp256k1 with recovery id 27 or 28, P256, or WebAuthn; "secp256k1v01" is
\* one with recovery id 0 or 1.
validatePrimitiveSignatureBytes(sig) ==
    sig.type \in {"secp256k1", "p256", "webauthn"}

\* The fields as they are now, beside the signature that is given.
SignedWith(a, sig) == List(<<List(encodeFields(a)), Envelope(sig)>>)

\* Guarded by Validate in the code.
Sign(a, root) ==
    SignedWith(a, [type |-> "secp256k1", by |-> root, digest |-> encodeFields(a),
                   says |-> a])

-----------------------------------------------------------------------------
(* The node's reading of a signed authorization: a field that is not there,*)
(* or the empty string, is absent.                                         *)

Field(fields, n) == IF n <= Len(fields) THEN fields[n] ELSE Empty

decodeLimit(t) ==
    [token |-> t.items[1].val, amount |-> <<t.items[2].val>>,
     period |-> IF Len(t.items) = 3 THEN t.items[3].val ELSE 0]

decodeScope(t) ==
    [target |-> t.items[1].val,
     rules |-> [i \in DOMAIN t.items[2].items |->
                   [selector |-> t.items[2].items[i].items[1].val,
                    recipients |-> [j \in DOMAIN t.items[2].items[i].items[2].items |->
                                       t.items[2].items[i].items[2].items[j].val]]]]

decodeLimits(item) == [i \in DOMAIN item.items |-> decodeLimit(item.items[i])]
decodeScopes(item) == [i \in DOMAIN item.items |-> decodeScope(item.items[i])]

\* What a list is read as, where one belongs.
Listed(item, value) == IF item.kind = "list" THEN <<value>> ELSE <<>>

Value(item) == IF Given(item) THEN item.val ELSE 0

ReadByNode(fields) ==
    [chainID |-> Value(fields[1]), keyType |-> Value(fields[2]),
     keyID |-> Value(fields[3]), expiry |-> Value(Field(fields, 4)),
     limits |-> Listed(Field(fields, 5), decodeLimits(Field(fields, 5))),
     allowedCalls |-> Listed(Field(fields, 6), decodeScopes(Field(fields, 6))),
     witness |-> IF Given(Field(fields, 7)) THEN <<Field(fields, 7).val>> ELSE <<>>,
     isAdmin |-> Given(Field(fields, 8)),
     account |-> IF Given(Field(fields, 9)) THEN <<Field(fields, 9).val>> ELSE <<>>]

\* The signature is over these fields.
Authentic(keyAuth) == keyAuth.items[2].of.digest = keyAuth.items[1].items
=============================================================================

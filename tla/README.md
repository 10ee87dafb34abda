# tempo-go: verification project

TLA+ models of tempo-go, a Go SDK for the Tempo chain: what its parts promise,
checked with TLC on small instances, and their safety proved with TLAPS for every
instance. Paths below are relative to the repository.

## The system

tempo-go builds, signs, sponsors, serializes and broadcasts Tempo transactions
(EIP-2718 type `0x76`).

| Part | State it keeps | Operations | How it interacts |
|---|---|---|---|
| Transaction and builder (`pkg/transaction/transaction.go`, `builder.go`) | one mutable `Tx`: content, `FeeToken`, `AwaitingFeePayer`, `From`, `KeyAuthorization`, two signatures | setters, `Validate`, `Clone`, `Build` (hands out the builder's own pointer) | every other part writes to it in place |
| Serialization (`serialize.go`, `deserialize.go`) | none | broadcast form, the sender's payload (`0x76`), the fee payer's payload (`0x78`), decoding | decides what a signature is about |
| Signing (`signing.go`, `pkg/signer`) | writes `Signature`, `FeePayerSignature`, `From` | sign as sender, sign as fee payer, recover either or both | over the three serializations |
| Access keys (`pkg/keychain/keychain.go`) | writes `Signature`, `From` | sign for a root account, verify | over the sender's payload, with its own domain |
| Key authorizations (`key_authorization.go`) | a builder object; writes `KeyAuthorization` | sign, attach | part of what the sender signs |
| Key restrictions (`restrictions.go`) | scopes, rules, recipients | build, `IsCallAllowed`, `Validate` | packed into `authorizeKey` calls |
| Receive policies (`pkg/receivepolicy`) | none; the receipts of a program that uses it | decode logs and receipts, encode them again, ask for balances, claim | the guard and registry contracts on one side, a program on the other |
| Other contract calls, events, helpers (`calls.go`, keychain `events.go`, `helpers.go`, `signature_verifier.go`, `tempo_helpers.go`) | none | ABI packing and unpacking | |
| RPC client (`pkg/client`) | immutable after `New` | single calls, raw transactions, nonces, receipts | HTTP with a 30 s timeout; shared by goroutines |
| Batches (`BatchRequest`, `SendBatch`) | the requests of a batch and the next id | add, send, return the responses as they came | the node may answer in any order |
| Receipt polling (`WaitForReceipt`) | a timer and a request per call | poll, sleep, give up | context, timer and node race |
| Fee payer relay (`examples/feepayer/server`) | immutable configuration; a goroutine per request | decode, verify, countersign, broadcast, answer | clients on one side, the node on the other |
| parallel-nonces (`examples/parallel-nonces`) | a map, a mutex, a wait group, two channels | read all nonces, send on all keys, count | the account and its nonce keys, shared with other runs |

What is hard here: the *order* of signing, marking as sponsored, editing and
countersigning one mutable object; signatures and `From` left over from an
earlier state of it; the relay and the examples, where goroutines, a node that
acts at its own pace, lost calls and timeouts interleave; lists whose absence and
emptiness mean opposite things; and one untyped list of fields that must come out
of every program as it went into the first, whoever wrote it. `PROJECT.json` lists the hazards one by one,
with the line where each bites and the properties that would notice.

What makes each part correct:

- signing: a signature that verifies says what its key's owner agreed to: the
  account, the content, who pays, and (whoever pays) with which token;
- sponsoring: a fee payer's work does not cost the sender's signature its
  validity, and the wire form carries all of it;
- relay: one payment yields one broadcast, a success is true, a refusal left
  nothing behind, every request is answered;
- polling: a receipt is real, an error has its cause, a wait ends;
- parallel sends: no lane waits for ever or is lost, no nonce is guessed, lanes of
  one run do not collide;
- restrictions: the verdict is what the packed arguments mean;
- wire format: what the library writes it reads, what it reads all further readers
  read alike, and a string in canonical form stays that string;
- key authorizations: what the node reads is what the signer had before it;
- batches and receive policies: an answer belongs to its question, and blocked funds
  can be recovered with what the log says.

## Modules

    TempoTx            data and pure functions: payloads, wire form, recovery
      TempoTx_proofs   lemmas about them: who can be recovered from what
      TxSigning        one transaction through signing, editing, cloning, sending
        TxSigning_proofs   theorems about it
        MCTxSigning
      FeePayerRelay    the relay server, its clients and the node; implements Sponsorship
        FeePayerRelay_proofs
        MCFeePayerRelay
    Sponsorship        what the relay promises (abstract)
    WireCodec          the list of fields: reading and writing it
      KeyAuthorization   the authorization of a key: building, encoding, signing
        Wire             transactions on their way through programs and encoders
          Wire_proofs
          MCWire
    ReceiptWait        what WaitForReceipt promises (abstract)
    ReceiptPolling     WaitForReceipt as it is; implements ReceiptWait
        ReceiptPolling_proofs
        MCReceiptPolling
    ParallelNonces     the parallel-nonces example and a rival run
        ParallelNonces_proofs
        MCParallelNonces
    KeyRestrictions    call scopes, their builders and the verdict
        KeyRestrictions_proofs
        MCKeyRestrictions
    RpcBatch           a batch of requests and the node's answers to it
      BlockedFunds     receive policies, and a program that recovers blocked payments
        BlockedFunds_proofs
        MCBlockedFunds

Names are those of the source where TLA+ allows it. A definition whose name has an
underscore (`skipFeeToken_Never`) is a faulty variant of the definition after it,
a bug someone could write; each property is shown to notice one of them.

### TempoTx

A transaction is a record. `body` stands for everything that only travels along
(gas, fees, calls, access list, nonces, validity window); `feeToken`, `chainID`,
`keyAuth`, `awaiting`, `from` and the two signatures are fields, because the code
treats each of them in its own way. Keccak and ECDSA are ideal: a digest *is* the
serialized form it was computed from, a signature is the pair of key and digest,
and recovery over any other digest yields `StrayAddr`, an address nobody holds.
(This is what recovery really does: it does not fail on a wrong digest, it names
another account.) An error result is `ZeroAddr`. `Serialize`, `buildRLPList`,
`encodeFeePayerField`, `skipFeeToken`, `SerializeForSigning`,
`SerializeForFeePayerSigning`, `Deserialize`, `SignTransaction`,
`AddFeePayerSignature`, the verifications and the access key functions follow the
functions of the same name. `RecoverAddress` succeeds only for `secp256k1`
envelopes, as in the code; P256 and WebAuthn envelopes, which it refuses, behave
like keychain envelopes here.

### TxSigning

`tx` is the transaction a caller holds; the actions are the setters
(`SetBody`, `SetChainId`, `SetFeeToken`, `SetSponsored`), attaching or assigning a
key authorization, the three ways to sign, `CloneTx`, and `Transfer`: serialize
here, deserialize elsewhere. Every edit is possible after every signature because
`Build` returns the builder's pointer and the fields are exported. `From` is written by
whoever signs, and by `AddFeePayerSignature` when it is unset; nothing clears it, so it
may be left over, which is what `CountersignatureFits` is about. The history
variable `approvals` records what each signing key was asked to sign, in its
owner's terms rather than as bytes; the properties compare it with what
verification says of the transaction later.

### FeePayerRelay

One record of handler state per request (`request`, `pc`, `dual`, `reply`,
`answer`) and the node (`calls` under way, `accepted`, `pool`, `mined`, `nonce`).
`Arrive` and the handler's steps are `AnswerPreflight`, `RejectEarly`,
`RefuseTransaction`, `Broadcast` (decode, verify, set `From`, token and marker,
countersign, serialize, send: all local, hence one step) and `Relay`. `CallFails`
is every way a call fails at the HTTP client, the 30 s timeout among them; the
call may still reach the node afterwards. The properties speak of a request by what
its string says (`Read`): a client may take a marker back after signing, and a chain
id of zero is read as the main chain's. The node is external and only as
definite as the code's use of it: it takes a transaction whose two signatures
verify and whose nonce is next, and may lose, drop, reorder and delay. Clients
send each transaction in any number of requests.

### Sponsorship

The relay without strings, signatures and calls: requests ask for a payment, the node
takes what somebody asked for and settles each payment once, in its sender's order,
and whoever asked is told something, "sent" only if it is true. `ImplementsSponsorship`
maps the relay's state to it: a payment is the sender, content and signature of a
transaction that was signed for a fee payer, and `taken` and `settled` are read off
the *broadcast* strings, so that a countersignature that changed the sender or the
content would settle a payment nobody asked for.

### WireCodec

The untyped list that `Serialize` writes and `Deserialize` reads, field by field: the
numbers with their widths, calls, access list, field 11 in its three shapes, fields
13 and 14 told apart by shape, the suffix of tempo.ts. A byte string is its length
and its value, so that leading zeros, cut-off addresses and numbers beyond 64 bits
exist; a list may stand where bytes belong and the other way round. `Readable` is
"no error", and everything else is what the code does then: reject, normalize, pass
over. `IsTx` is what the fields of a `Tx` can hold, whether or not they should: numbers
below zero, which are written without their sign (`bigIntToBytes`), a fee payer's
signature of any parity and size, raw bytes of any type, an envelope with nothing in it.
Of these, writing rejects only what `Writable` leaves out; the rest is written, and
`OwnStringsAreRead` says which of it is read again. `IsString` is what a list can hold,
as deep as the library looks into it. `Byte`, `WordLen`, `AddressLen` and `HashLen` shrink
the widths for TLC. RLP
and hex are libraries; that they return the list that was encoded is assumed.

### KeyAuthorization

The builder's settings as actions, `Validate`, and the positional encoding, in which
an absent field is left out at the end and an empty string before that. A signature
records what its owner had before it (`says`) and what was hashed (`digest`). The
node's reading (`ReadByNode`) is external, and only as definite as the comments of
`encodeFields`: an empty or missing field is absent, everything else is present.

### Wire

One transaction: put together here, with an authorization signed here or on a device
that is handed the hash and answers later (`AskDevice`, `BuildSigned`), then sent,
read, and written out again by program after program (`Forward`). `WriteOddly` stands
for other encoders, which may write any field of a string in another form. What is
assumed of the constants is named: `OwnAssumption`, that programs start from a
transaction without authorization and signature whose fields have their Go types;
`OtherAssumption`, that other encoders write byte strings and lists, and pass on no
authorization whose signer they made sign something else; `AuthAssumption`, that the
settings of an authorization are numbers and lists of the Go types;
`WidthAssumption`, that a byte has at least two values and no width is zero.

### RpcBatch and BlockedFunds

`BatchRequest` numbers its requests; the node works on them at its own pace, each at
the latest block, and answers in any order. `BlockedFunds` uses it for what
`pkg/receivepolicy` is for: an account sets a policy, payments to it are credited or
blocked, a program sees logs (the guard's and others that look alike), decodes them
and their receipts, asks in batches for the balances and the policy, and claims what
is there and its own; others claim, burn and change the policy meanwhile. Logs whose data
cannot be unpacked are passed over (`FitsData`). The
contracts and the node are external, as `doc.go` and the comments describe them.

### ReceiptWait and ReceiptPolling

`ReceiptWait` has no polls, timers or replies: a call returns a receipt of a mined
transaction, or an error when its context is over or a request of it failed, once,
and does so eventually. `ReceiptPolling` is the loop of `client.go:304-327`:
`Poll`, the replies and failures of `sendRequest` and `GetTransactionReceipt`, the
timer, the `select`, and `Stop` followed by a drain. A request that runs into the
`http.Client`'s own 30 s fails with an error that `errors.Is` takes for
`context.DeadlineExceeded`, and every layer hands it on (`CauseOf`): a caller cannot tell
it from the end of its own context, and `CauseIsTrue` does not claim so. Go's timers changed in 1.23;
the calls in `AsyncTimers` run with the old ones, where a tick stays in the
channel, and the drain is really executed. `ImplementsWait` is the refinement,
with `over` and `outcome` computed from the detailed state and `failed` a history
variable.

### ParallelNonces

`main` starts a goroutine per key, waits, starts another round, waits, closes and
counts. The wait group's counter, the mutex, the map and the channels with their
capacity are explicit. Writing the map takes more than one step (`Lock`, `Store`): what a
goroutine leaves is the map as it found it with its own entry, so that without the mutex
a nonce would be lost. A run whose chain id is zero cannot
sign (`Misconfigured`), which exercises the error channel. The node reports
the nonce of the latest block, so a payment that is pending is not counted.

### KeyRestrictions

The builders are actions, `IsCallAllowed` and `Validate` operators; a list of
recipients is a set (only membership is asked). The length of the input of a call
takes the values on either side of both bounds the code checks (3, 4, 35, 36).
`AuthorizeKey` and `SetAllowedCalls` are what goes to the keychain contract, and
`Permits` is what their arguments mean, without an order: the local verdict has to
agree with it. `SelectorWildcard` is one of the selectors. `Permits` gives it the meaning
of its name, any selector; the code compares it like any other, so `VerdictIsMeaning`
speaks of restrictions without it, and run `wildcard` shows the rest.

## Runs

| Run | Shows | Bounds |
|---|---|---|
| `signing` | `SenderConsent`, `FeePayerConsent`, `AccessKeyConsent`, `SponsorshipKeepsSender`, `TransferIsFaithful` | two keys, each in any role; one token or none; two bodies, one incomplete; the chain id set or unset; one key authorization; two distinct approvals |
| `resigned` | `CountersignatureFits` | two keys; three signings; no key authorization; the chain id set |
| `relay` | the relay's six properties and `ImplementsSponsorship`, with its liveness | two requests, nine client transactions (sponsored, self-paid, already countersigned, unsigned, keychain-signed, edited after signing, its marker taken back after signing, without a chain id), two nonces |
| `polling` | `ImplementsWait`, `CauseIsTrue`, `NoTimerLeft`, `DrainNeverBlocks` | three calls, two transactions, one context that ends and one that never does, both kinds of timers |
| `parallel` | the example by itself: `NobodyOutlivesTheRound`, `NoNonceIsLost`, `CountIsHonest`, and that it ends | two runs, one of which cannot sign, two keys |
| `parallel_rivals` | who may take whose nonce | two runs, two keys, nonces up to 2 |
| `restrictions` | `VerdictIsMeaning`, `ScopeOrderIsIrrelevant`, `RulesOnlyAdd` | two scopes of two rules, two contracts, two selectors and the wildcard, two recipients |
| `wire` | `HopsAgree`, `OwnStringsAreRead`, `CanonicalIsKept`, `GrantIsAsSigned` | bytes of three values, words, addresses and hashes of two bytes; six transactions and five with negative numbers or a fee payer's signature that is none; eight envelopes, among them one that ends like the suffix, raw bytes of no type, and three that cannot be written; authorizations with four settings; two fields in any of 70 odd forms; two hops |
| `funds` | `AnswersBelong`, `BlockedIsRecoverable` | two payments (a transfer of the program's own, a mint), three policies, batches of two, nine foreign logs, one of which has a receipt that the guard may issue later, and two of which cannot be unpacked |
| `doc_pattern`, `polling_gives_up`, `wildcard` | one finding each, below | those of the passing run of the same module |

Why these bounds are enough to be interesting. Two keys let any role be played by
the same or by different accounts. Two approvals are a sender and a fee payer, or
one of them twice; what TLC checks there for two is proved for any number. A left-over
`From` takes three: two senders and a fee payer.
Two requests are what a retry, a race and a mix-up take. Two lanes are what a race
for the map, a full channel and a collision take; nothing in the programs counts
further. Two rules in a scope are what an order takes. Two odd fields let one hide another;
two hops show that the second reader already agrees with the third, and nothing is
kept from hop to hop but the transaction. With bytes of three values and words of two
bytes there are numbers of every length from none to one too many, and the value on
either side of every bound. Four settings set, overwrite and edit after a device was
asked. Two requests in a batch are what an order takes, and two payments a mix-up of
receipts. Keys, targets and
selectors are interchangeable, hence the symmetry sets, in runs without liveness.

Deadlock is checked in the signing, restriction and `funds` runs, which always have
a next step. Elsewhere the system may really stop (requests answered, calls returned,
runs ended, a string rejected), and the liveness properties say that it stops only there.

Fairness. In every module the steps of a goroutine are weakly fair, because the Go
runtime schedules runnable goroutines, and so is `CallFails`, because the timer of
`http.Client` fires (30 s by default, `client.go:19`). In `ReceiptPolling` the poll
timer is, too. `ReceiptWait` and `Sponsorship` ask for no more than that whoever waits
is answered, and the relay and the polling show that they do under these. Nothing is assumed of the node, the network, contexts or mining.

### Findings

Runs that show a disagreement between the code and what is said of it:

1. `doc_pattern`: `doc.go:37-47` and `README.md:128-138` sign first and add the fee
   payer's signature afterwards, without `SetSponsored`. The sender's payload
   changes when `FeePayerSignature` appears (`serialize.go:94`, `:202-215`), so
   the broadcast recovers to an account that did not sign.
2. `polling_gives_up`: `WaitForReceipt` "polls until a transaction receipt is available
   or the context expires" (`client.go:302`). One request that runs into the HTTP
   client's timeout (30 s, `client.go:62`) ends the wait, with an error in which
   `errors.Is` finds `context.DeadlineExceeded`, also for `context.Background()`.
3. `wildcard`: `restrictions.go:16` exports `SelectorWildcard`, and line 83 describes what
   a wildcard selector without recipients means. `IsCallAllowed` compares it literally
   (`restrictions.go:191`), `Validate` accepts it: such a rule allows no function.

To be known, too, without a run of their own:

- `Clone` (`transaction.go:223`) keeps `From` but not `AwaitingFeePayer`, which its
  comment does not say: the clone of a sponsored transaction is a self-paid one.
- The relay takes for granted (`server.go:256-258`) that the sender signed for a fee
  payer. It countersigns and broadcasts a self-paid transaction, which then names another
  sender, for the reason of finding 1. `MinedAsSigned` shows that such a broadcast is
  never mined; the client gets an error from the node instead of one from the relay.
- `AddFeePayerSignature` keeps in `From` what it recovers at that moment
  (`signing.go:76-88`). After an edit that is taken back, or a marker set later, `From`
  is an address nobody holds while the signature verifies for its signer;
  `CountersignatureFits` leaves this case out, and says so.
- `Validate` rejects duplicate targets to keep `IsCallAllowed` from depending on an order
  (`restrictions.go:238`), but not duplicate selectors, of which the first decides:
  `Transfer(nil)` after `Transfer(recipients)` allows nothing more, before it everything.
  `VerdictIsMeaning` is about restrictions without them.
- `bigIntToBytes` leaves the sign of a number out. The round trip that
  `fuzz_test.go:59-81` asserts fails for the negative chain ids and nonce keys that the
  test can make (`big.NewInt(int64(chainID))` of any `uint64`); `OwnStringsAreRead` is
  about magnitudes.
- `CHANGELOG.md:7` says that legacy `V` values and high-S signatures are rejected "during
  transaction deserialization and address recovery". `decodeRecoveryID`
  (`deserialize.go:353-362`) accepts 27 and 28 and normalizes them, as
  `serialization_test.go:453` expects; `HopsAgree` shows that no second form of a
  transaction gets past its first reader. High-S values are rejected by
  `RecoverAddress` only.

## Proofs

`TxSigning_proofs` proves, for every set of keys, bodies, tokens, chain ids and key
authorizations that satisfies the assumptions of `TempoTx` and for every
`MaxSignings`:

- `TypeCorrect`: `Spec => []TypeOK`;
- `SenderConsentHolds`, `AccessKeyConsentHolds`, `FeePayerConsentHolds`;
- `CountersignatureFitsHolds`, an action property: a fee payer's signature is for the
  account that the sender's signature names;
- `SponsorshipKeepsSenderHolds`, an action property;
- `TransferIsFaithfulHolds`.

The consents are not inductive: they speak of signatures that verify *now*, and an
edit can make a signature verify that did not (the edit may be taken back). The
invariant that is, `IInv`, speaks of every signature on the transaction, verifying
or not: its digest is the digest of some approval of its key in its role. Signing
establishes it, no other operation touches digests, approvals are never revoked.
A signature verifies when its digest is that of the transaction as it is; payload
lemmas (`SignPayloadForm`, `FeePayerPayloadForm` and their injectivity) then turn
equal digests into equal content, and that is consent. The assumptions used are
those of ideal cryptography, and the named `ASSUME`s: the special addresses are no
keys, "no token" is no token, "no authorization" is no authorization.

`ReceiptPolling_proofs` covers any number of calls, contexts, transactions and old or
new timers: `TypeCorrect`, `CauseIsTrueHolds`, `NoTimerLeftHolds`,
`DrainNeverBlocksHolds`, and `PollingRefinesWait`, the safety part of `ImplementsWait`: initial states are those of `ReceiptWait`, and every step is
one of its steps or a stutter. A result is computed from an answer and an answer from
a request, several steps apart, so the invariant says of every call what its answer
stands for while it is carried (`AnswerTrue`), what its result stands for afterwards
(`ResultTrue`), and in which state its timer is at each place of the loop
(`TimerInPlace`), which is what makes the drain after `Stop` find its tick.

`ParallelNonces_proofs` covers any number of runs, keys and nonces. That the counter of
the wait group is the number of running goroutines (`NobodyOutlivesTheRoundHolds`) is
inductive only together with `Idle`: a lane that was not started in this round has
nothing to do, so that main may start afresh between the rounds. The bound on the
counter (and with it `TypeCorrect`) follows from its being a cardinality, rather than
the other way round. `StepShape` reduces the eight steps of a goroutine to "it goes on"
and "it leaves". What the goroutines carry takes a second
invariant, `PaymentsOK`, over the first: what each entry of the map, call, reply and
report stands for, that the map is complete but for the goroutines still under way, and
that whoever holds the mutex found the map as it is, which a write without the mutex
would break (`NoNonceIsLostHolds`). `NoGuessedNonceHolds` needs that the map is complete when the second
round starts, which is a pigeonhole argument (`NoKeyIsMissing`): as many nonces as keys
were written, one per key. `CountIsHonestHolds` and `OnlyRivalsCollideHolds` follow from
the parts about reports and the node.

`FeePayerRelay_proofs` covers any requests, client transactions, accounts and chain
ids. The cryptographic part is `TempoTx_proofs` (shared with `TxSigning_proofs`) and a
few lemmas on countersigning: the string that the relay makes of a transaction marked
as sponsored has the sender's payload of that transaction, so it recovers to the same
account, and of the other fields it keeps what the sender signed. The invariant is
`RequestOK`, which ties what a handler holds at each place to its own request, and
`NodeOK`, which says that the node took only broadcasts, mined only what it took, in
the order of the nonces (the number of settled transactions of an account is its
nonce, by cardinalities). From these: `TypeCorrect`, `SponsoredRelayVerifiesHolds`,
`MinedAsSignedHolds`, `OnePaymentOneTransactionHolds`, `SuccessIsTrueHolds`,
`NoFalseRejectionHolds`. `RelayRefinesSponsorship` is the safety part of
`ImplementsSponsorship`: initial states are those of `Sponsorship`, a request that
arrives asks, a call that the node accepts is taken, an answer tells, mining settles,
everything else stutters.

`KeyRestrictions_proofs` covers any contracts, functions, recipients, rules and bounds.
The code stops at the first match; where a value occurs once at most, the first match
is any match (`FirstIsAny`), so the scopes of valid restrictions may be turned round
(`ScopeOrderIsIrrelevantHolds`), and the verdict is what the packed arguments mean, in
which no order counts (`VerdictIsMeaningHolds`; without a rule for the wildcard, for
which it is not). A rule appended changes no first match
there was (`RulesOnlyAddHolds`). The one assumption is that the recipients of a rule
are finitely many: the code has them in a slice.

`BlockedFunds_proofs` covers any payments, policies, foreign logs and sizes of batches:
`TypeCorrect`, `BlockedIsRecoverableHolds`, `AnswersBelongHolds`. The last speaks of what
the program believes, which the node read many steps before; its invariant follows an
answer from the node's evaluation through the batch (`ResponsesOK`: its id is the place
of the request it belongs to) to the belief, and shows that it stays true while the
chain goes on (`AnswersLast`): a receipt stands for one payment for ever, because no
two have the same nonce (`ChainOK`, again by a cardinality), and funds that left the
guard do not come back. Assumed of payments: an amount that is not zero, a sender, one
of the two kinds; of logs: that their words are numbers where numbers belong. Proving it
showed one thing that the runs had not: a balance of zero may be outdated if the program
asked about a receipt that another contract had made up before the guard issued it. The
property now says so, and the run has such a log.

`Wire_proofs` covers every width of the encodings, any transactions, authorizations and
signatures, and any fields that another encoder writes in any of the ways the format
allows. It has four parts.

- Numbers: a number has one shortest encoding and its length is found (`MinimalForm`),
  which needs that powers of the byte exist and grow. Both are inductions; the library's
  induction theorems take an operator as parameter, so `Induction` is proved for *sets*
  of numbers, from the well-foundedness of `<` (`LeastNumber`).
- Round trips: what is written is read exactly when its signatures are ones there are
  (`WrittenIsRead`: by the first reader, up to the signs of numbers, the unset chain id
  and a marker that a signature has replaced); what is read has the types
  of `Tx` and can be written (`ReadIsTx`); what is read in canonical form is written as
  it was (`CanonicalIsRewritten`), from which `CanonicalIsKeptHolds` follows. One lemma
  for each field and direction, no induction: the lists are functions of their places.
- Authorizations: for every authorization that `Validate` accepts, the node's reading of
  `encodeFields` is the authorization (`FieldsAreRead`), for every pattern of absent
  and present settings. Two authorizations with the same encoding are then the same,
  and so a device's late answer fits only the authorization it was asked about.
- The invariant: where the transaction is (`OrderInv`: put together, on its way or read);
  that every string between two readers is the one its first reader would write
  (`HopInv`), with its chain id unset or known; that a string of the library's own is the
  one of `written` (`OwnInv`); and that authorizations are as signed wherever they are
  (`TxInv`, `WireInv`), other encoders' strings included. `TypeCorrect`,
  `HopsAgreeHolds`, `OwnStringsAreReadHolds` and `GrantIsAsSignedHolds` follow.
  `HopsAgree` is not inductive: it says of a string only that it can be read.

The digest of an authorization is its encoding, that is, Keccak is ideal here too.

Only model-checked: the liveness properties, which are out of the prover's reach, and
with them the fairness part of the two refinements.

## Not modelled

RLP, hex and ABI packing themselves, which are libraries: what they carry is
modelled, not their bytes. `Hash`, `IsExpired` and `IsActive`: functions of one value
that no operation of the library calls. The keychain calls that only pack their
arguments (all but `AuthorizeKey` and `SetAllowedCalls`), the spending limits of
`KeyRestrictions`, `ReceivePolicyUpdated`, `validateReceivePolicy`'s result,
`burnBlockedReceipt`, TIP-20 helpers, keychain events, the signature verifier: a
selector and its arguments, without state or order. `simple-send`: straight-line code
over operations that are modelled. The TypeScript client, except for what it sends.
Configuration loading, logging, message texts. Big integers that are nil (written like
zero, or a nil dereference in a hand-made signature); signature envelopes whose type is
the empty string, which are written like `secp256k1`, and 65 raw bytes under another
type's name; causes that a caller gives its own context (`context.WithCancelCause`). Aliasing of slices that a caller hands
to the library and goes on writing to.

## Plan

Done, in this order: `TempoTx`, `TxSigning` and its proofs (what everything else
rests on); `FeePayerRelay`; `ReceiptWait` and `ReceiptPolling`; `ParallelNonces`;
`KeyRestrictions`; `WireCodec`, `KeyAuthorization` and `Wire`; `RpcBatch` and
`BlockedFunds`; `Sponsorship`; then, as theorems, the safety of all of them, with the
step simulations of `ReceiptWait` and `Sponsorship`.

Next: a relation between the two views of a transaction, `TempoTx` (what a signature is
about) and `WireCodec` (which fields a string has); further lemmas about them as new
operations need them.

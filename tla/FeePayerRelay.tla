---------------------------- MODULE FeePayerRelay ----------------------------
(***************************************************************************)
(* examples/feepayer/server: the relay that signs clients' transactions as *)
(* fee payer and broadcasts them. net/http runs one goroutine per request; *)
(* they share nothing but the immutable server fields, so a handler's      *)
(* local computation is one step, and what interleaves is the arrival of   *)
(* requests, the broadcast, the node at its own pace, and the 30 s timeout *)
(* of the HTTP client, which gives up on a call the node may yet handle.   *)
(*                                                                         *)
(* A client that retries sends the same transaction in another request.    *)
(*                                                                         *)
(* Names with an underscore are faulty variants of the definition that     *)
(* follows them: the bugs that the properties are tested against.          *)
(***************************************************************************)
EXTENDS TempoTx, FiniteSets

CONSTANTS
    Requests,     \* HTTP requests; each is its own JSON-RPC id
    NoId,         \* the nil id of an answer to an unparsed request
    ClientTxs,    \* the transactions clients may have serialized and sent
    ServerKey,    \* the relay's fee payer key
    ServerToken,  \* the fee token it pays with
    Nonce(_)      \* the nonce in a body

ASSUME RelayAssumption ==
    /\ ClientTxs \subseteq Txs
    /\ ServerKey \in Keys /\ ServerToken \in Tokens
    /\ NoId \notin Requests
    /\ \A b \in Bodies : Nonce(b) \in Nat

VARIABLES
    request,  \* what each request carries, once it has arrived
    pc,       \* where its handler is
    dual,     \* the dual-signed transaction its handler broadcasts
    calls,    \* the requests whose call is on its way to the node
    reply,    \* the outcome of that call, as the HTTP client sees it
    answer,   \* the answer to the client
    accepted, \* the requests whose call the node accepted
    pool,     \* the node's pending transactions
    mined,    \* the transactions on the chain
    nonce     \* the next nonce of each account, at the node

relayVars == <<request, pc, dual, reply, answer>>
nodeVars  == <<calls, accepted, pool, mined, nonce>>
vars      == <<relayVars, nodeVars>>

None == [kind |-> "none"]

\* eth_sendRawTransactionSync, and any other method: it is not checked.
Methods == {"sync", "raw"}

\* The requests the handler turns down before it looks at a transaction, with
\* the JSON-RPC error code; the first three have no parsed id.
EarlyErrors ==
    [notPost |-> "InvalidRequest", badBody |-> "ParseError", badJSON |-> "ParseError",
     noParams |-> "InvalidParams", notString |-> "InvalidParams",
     notType76 |-> "InvalidTransactionType"]
Unparsed == {"notPost", "badBody", "badJSON"}

ClientRequests ==
    [kind : {"tx"}, method : Methods, tx : ClientTxs]
        \cup [kind : DOMAIN EarlyErrors \cup {"options", "malformed"}]

Wire(t) == Serialize(t, NormalOpts)
Error(id, code) == [kind |-> "error", id |-> id, code |-> code]
Result(id, hash) == [kind |-> "result", id |-> id, hash |-> hash]

-----------------------------------------------------------------------------
Init ==
    /\ request = [r \in Requests |-> None]
    /\ pc = [r \in Requests |-> "idle"]
    /\ dual = [r \in Requests |-> None]
    /\ calls = {} /\ accepted = {}
    /\ reply = [r \in Requests |-> None]
    /\ answer = [r \in Requests |-> None]
    /\ pool = {} /\ mined = {}
    /\ nonce = [k \in Keys |-> 0]

\* net/http starts a goroutine for an accepted request.
Arrive(r, q) ==
    /\ pc[r] = "idle"
    /\ request' = [request EXCEPT ![r] = q]
    /\ pc' = [pc EXCEPT ![r] = "received"]
    /\ UNCHANGED <<dual, reply, answer, nodeVars>>

Answer(r, a) ==
    /\ answer' = [answer EXCEPT ![r] = a]
    /\ pc' = [pc EXCEPT ![r] = "answered"]

\* A CORS preflight gets headers only.
AnswerPreflight(r) ==
    /\ pc[r] = "received"
    /\ request[r].kind = "options"
    /\ Answer(r, [kind |-> "preflight"])
    /\ UNCHANGED <<request, dual, reply, nodeVars>>

\* handleFeePayerRelay's early returns.
RejectEarly(r) ==
    /\ pc[r] = "received"
    /\ request[r].kind \in DOMAIN EarlyErrors
    /\ Answer(r, Error(IF request[r].kind \in Unparsed THEN NoId ELSE r,
                       EarlyErrors[request[r].kind]))
    /\ UNCHANGED <<request, dual, reply, nodeVars>>

-----------------------------------------------------------------------------
(* processTransaction.                                                     *)

\* What the string of a client's transaction says.
Read(t) == Deserialize(Wire(t))

\* There is no signature, or VerifySignature fails, as it does for every
\* signature other than secp256k1.
UnsignedTxs == {t \in ClientTxs : VerifySignature(Read(t)) = ZeroAddr}

Refused(r) ==
    \/ request[r].kind = "malformed"  \* Deserialize fails
    \/ request[r].kind = "tx" /\ request[r].tx \in UnsignedTxs

\* The token is set after signing; the client's is kept; a fee payer signature
\* that is already there is kept.
Countersign_TokenLast(t) ==
    [AddFeePayerSignature([t EXCEPT !.from = VerifySignature(t)], ServerKey)
        EXCEPT !.feeToken = ServerToken]
Countersign_ClientToken(t) ==
    AddFeePayerSignature([t EXCEPT !.from = VerifySignature(t),
                                   !.awaiting = FALSE], ServerKey)
Countersign_KeepSigned(t) ==
    IF t.feePayerSig # NoSig THEN t
    ELSE AddFeePayerSignature([t EXCEPT !.from = VerifySignature(t),
                                        !.feeToken = ServerToken,
                                        !.awaiting = FALSE], ServerKey)

\* The fee token is set before the fee payer signs, because it signs the token;
\* From is set so that AddFeePayerSignature need not recover it again.
Countersign(t) ==
    AddFeePayerSignature([t EXCEPT !.from = VerifySignature(t),
                                   !.feeToken = ServerToken,
                                   !.awaiting = FALSE], ServerKey)

\* The transaction goes out as it came in.
Countersigned_AsReceived == [t \in ClientTxs |-> Wire(t)]

\* What is broadcast for each transaction a client may send.
Countersigned == [t \in ClientTxs |-> Wire(Countersign(Read(t)))]

RefuseTransaction(r) ==
    /\ pc[r] = "received"
    /\ Refused(r)
    /\ Answer(r, Error(r, "InternalError"))
    /\ UNCHANGED <<request, dual, reply, nodeVars>>

\* Countersign and hand the result to the HTTP client. That the verification of
\* the server's own signature may fail is only logged.
Broadcast(r) ==
    /\ pc[r] = "received"
    /\ request[r].kind = "tx" /\ ~Refused(r)
    /\ dual' = [dual EXCEPT ![r] = Countersigned[request[r].tx]]
    /\ pc' = [pc EXCEPT ![r] = "broadcasting"]
    /\ calls' = calls \cup {r}
    /\ UNCHANGED <<request, reply, answer, accepted, pool, mined, nonce>>

\* The error is ignored and the hash computed here; only one of the methods has
\* the expected result.
Relay_IgnoreError(r) ==
    /\ pc[r] = "broadcasting"
    /\ reply[r] # None
    /\ Answer(r, Result(r, dual[r]))
    /\ UNCHANGED <<request, dual, reply, nodeVars>>
Relay_RawOnly(r) ==
    /\ pc[r] = "broadcasting"
    /\ reply[r] # None
    /\ Answer(r, IF reply[r].kind = "hash" /\ request[r].method = "raw"
                 THEN Result(r, reply[r].hash) ELSE Error(r, "InternalError"))
    /\ UNCHANGED <<request, dual, reply, nodeVars>>

\* The outcome of SendRawTransactionWithMethod becomes the answer: a string
\* result is the hash; a transport error, an HTTP error, a response that does
\* not parse, an RPC error and a result of another type are all InternalError.
Relay(r) ==
    /\ pc[r] = "broadcasting"
    /\ reply[r] # None
    /\ Answer(r, IF reply[r].kind = "hash" THEN Result(r, reply[r].hash)
                                           ELSE Error(r, "InternalError"))
    /\ UNCHANGED <<request, dual, reply, nodeVars>>

\* No timeout: the call fails only when it was lost.
CallFails_NoTimeout(r) ==
    /\ pc[r] = "broadcasting"
    /\ reply[r] = None
    /\ r \notin calls \cup accepted
    /\ reply' = [reply EXCEPT ![r] = [kind |-> "failed"]]
    /\ UNCHANGED <<request, pc, dual, answer, nodeVars>>

\* The call did not get through, its response was lost or garbled, or the
\* timeout of the HTTP client struck. The call may still reach the node.
CallFails(r) ==
    /\ pc[r] = "broadcasting"
    /\ reply[r] = None
    /\ reply' = [reply EXCEPT ![r] = [kind |-> "failed"]]
    /\ UNCHANGED <<request, pc, dual, answer, nodeVars>>

-----------------------------------------------------------------------------
(* The Tempo node.                                                         *)

\* Only the caller that still waits gets the node's reply.
NodeReply(r, m) ==
    reply' = IF reply[r] = None THEN [reply EXCEPT ![r] = m] ELSE reply

Sender(w) == VerifyDualSignatures(Deserialize(w)).sender

\* Both signatures verify, the nonce is the account's next one, and no other
\* pending transaction has it.
Acceptable(w) ==
    /\ Sender(w) \in Keys
    /\ VerifyDualSignatures(Deserialize(w)).feePayer \in Keys
    /\ Nonce(w.list.body) = nonce[Sender(w)]
    /\ ~\E p \in pool : Sender(p) = Sender(w)

\* eth_sendRawTransaction replies at once, the Sync variant when it is mined.
NodeAccepts(r) ==
    /\ r \in calls
    /\ Acceptable(dual[r])
    /\ calls' = calls \ {r}
    /\ accepted' = accepted \cup {r}
    /\ pool' = pool \cup {dual[r]}
    /\ IF request[r].method = "raw"
       THEN NodeReply(r, [kind |-> "hash", hash |-> dual[r]])
       ELSE UNCHANGED reply
    /\ UNCHANGED <<request, pc, dual, answer, mined, nonce>>

NodeRejects(r) ==
    /\ r \in calls
    /\ ~Acceptable(dual[r])
    /\ calls' = calls \ {r}
    /\ NodeReply(r, [kind |-> "rpcError"])
    /\ UNCHANGED <<request, pc, dual, answer, accepted, pool, mined, nonce>>

\* The call is lost on its way.
LoseCall(r) ==
    /\ r \in calls
    /\ calls' = calls \ {r}
    /\ UNCHANGED <<relayVars, accepted, pool, mined, nonce>>

Mine(w) ==
    /\ w \in pool
    /\ pool' = pool \ {w}
    /\ mined' = mined \cup {w}
    /\ nonce' = [nonce EXCEPT ![Sender(w)] = @ + 1]
    /\ UNCHANGED <<relayVars, calls, accepted>>

\* A pending transaction may be evicted.
Drop(w) ==
    /\ w \in pool
    /\ pool' = pool \ {w}
    /\ UNCHANGED <<relayVars, calls, accepted, mined, nonce>>

\* The reply to the Sync call that brought the transaction.
ReplyMined(r) ==
    /\ r \in accepted /\ request[r].method = "sync"
    /\ reply[r] = None
    /\ dual[r] \in mined
    /\ NodeReply(r, [kind |-> "hash", hash |-> dual[r]])
    /\ UNCHANGED <<request, pc, dual, answer, nodeVars>>

-----------------------------------------------------------------------------
Handler(r) ==
    \/ AnswerPreflight(r) \/ RejectEarly(r) \/ RefuseTransaction(r)
    \/ Broadcast(r) \/ Relay(r)

Node(r) == NodeAccepts(r) \/ NodeRejects(r) \/ LoseCall(r) \/ ReplyMined(r)

Next ==
    \/ \E r \in Requests :
          \/ \E q \in ClientRequests : Arrive(r, q)
          \/ Handler(r) \/ CallFails(r) \/ Node(r)
    \/ \E w \in pool : Mine(w) \/ Drop(w)

\* The Go runtime runs every goroutine, and the HTTP client's timer fires.
Fairness == \A r \in Requests : WF_vars(Handler(r)) /\ WF_vars(CallFails(r))

Spec == Init /\ [][Next]_vars /\ Fairness

-----------------------------------------------------------------------------
(* Properties.                                                             *)

Wires == [prefix : {"0x76"}, list : [chainID : ChainIds, body : Bodies,
             feeToken : FeeTokens, keyAuth : KeyAuthFields, sig : Envelopes,
             feePayer : [kind : {"sig"}, sig : Secp256k1Signatures]]]

Replies == [kind : {"none", "failed", "rpcError"}] \cup [kind : {"hash"}, hash : Wires]

Answers ==
    [kind : {"none", "preflight"}]
        \cup [kind : {"error"}, id : Requests \cup {NoId},
              code : {EarlyErrors[e] : e \in DOMAIN EarlyErrors} \cup {"InternalError"}]
        \cup [kind : {"result"}, id : Requests, hash : Wires]

TypeOK ==
    /\ request \in [Requests -> ClientRequests \cup {None}]
    /\ pc \in [Requests -> {"idle", "received", "broadcasting", "answered"}]
    /\ dual \in [Requests -> Wires \cup {None}]
    /\ calls \subseteq Requests /\ accepted \subseteq Requests
    /\ reply \in [Requests -> Replies] /\ answer \in [Requests -> Answers]
    /\ pool \subseteq Wires /\ mined \subseteq Wires
    /\ nonce \in [Keys -> Nat]

\* The sender of the transaction in a request, and whether it says that a fee
\* payer pays: as everybody reads it who gets the string.
Signer(r) == VerifySignature(Read(request[r].tx))
MeantForFeePayer(r) == Sponsored(Read(request[r].tx))

\* The broadcast of a transaction that its sender signed for a fee payer still
\* verifies as that sender's, with the relay as its fee payer: replacing the
\* fee token and clearing AwaitingFeePayer between the sender's verification
\* and the fee payer's signature costs neither signature its validity.
SponsoredRelayVerifies ==
    \A r \in Requests :
        dual[r] # None /\ MeantForFeePayer(r) /\ Signer(r) \in Keys =>
            VerifyDualSignatures(Deserialize(dual[r]))
                = [sender |-> Signer(r), feePayer |-> ServerKey]

\* The relay never makes a sender pay, or be sponsored, against its will: what
\* is mined is some client's transaction, signed by its sender for a fee payer
\* and unchanged, and the relay pays its fee with the relay's token.
MinedAsSigned ==
    \A w \in mined :
        /\ \E r \in Requests :
              /\ request[r].kind = "tx" /\ MeantForFeePayer(r)
              /\ Signer(r) = Sender(w) /\ w.list.chainID = Read(request[r].tx).chainID
              /\ \A field \in {"body", "keyAuth", "sig"} :
                    w.list[field] = Wire(request[r].tx).list[field]
        /\ w.list.feeToken = ServerToken
        /\ w.list.feePayer.sig.by = ServerKey

\* However often a payment is sent in (a retry, a request in parallel, or the
\* already countersigned transaction itself) the relay broadcasts one and the
\* same transaction for it, so that its nonce lets it through once.
OnePaymentOneTransaction ==
    \A r, q \in Requests :
        /\ dual[r] # None /\ dual[q] # None
        /\ request[r].tx.sig = request[q].tx.sig
        /\ Signer(r) \in Keys /\ Signer(q) \in Keys
        => dual[r] = dual[q]

\* A hash is only ever returned for the request's own transaction, to its own
\* id, once the node accepted it, and with the Sync method once it was mined.
SuccessIsTrue ==
    \A r \in Requests :
        answer[r].kind = "result" =>
            /\ answer[r].id = r
            /\ answer[r].hash.list.sig = request[r].tx.sig
            /\ r \in accepted
            /\ request[r].method = "sync" => answer[r].hash \in mined

\* A client whose transaction the node took through this request is told that
\* it failed only when the call's outcome was lost to the relay (CallFails): an
\* error in the checks or from the node leaves nothing behind at the node.
NoFalseRejection ==
    \A r \in accepted :
        answer[r].kind = "error" => reply[r].kind = "failed"

\* A payment is its sender, what he signed and the signature; these are the payments
\* clients may send, and those in the strings the relay broadcasts for them.
Payment(list, sender) == [sender |-> sender, body |-> list.body, sig |-> list.sig]
SentPayment == [t \in ClientTxs |-> Payment(Wire(t).list, VerifySignature(Read(t)))]
BroadcastPayment ==
    [w \in {Countersigned[t] : t \in ClientTxs} |->
        Payment(w.list, VerifySignature(Deserialize(w)))]

Sponsorable ==
    {t \in ClientTxs : Sponsored(Read(t)) /\ VerifySignature(Read(t)) \in Keys}
SponsoredPayments == {SentPayment[t] : t \in Sponsorable}

Asked(q) ==
    [payment |-> IF q.kind = "tx" /\ q.tx \in Sponsorable THEN SentPayment[q.tx] ELSE None,
     waits   |-> q.kind = "tx" /\ q.method = "sync",
     arrived |-> q # None]

Service == INSTANCE Sponsorship WITH
    Requesters <- Requests,
    Payments   <- SponsoredPayments,
    Something  <- None,
    SenderOf   <- LAMBDA p : p.sender,
    NumberOf   <- LAMBDA p : Nonce(p.body),
    asked      <- [r \in Requests |-> Asked(request[r])],
    told       <- [r \in Requests |->
                      IF answer[r].kind = "none" THEN "nothing"
                      ELSE IF answer[r].kind = "result" THEN "sent" ELSE "failed"],
    taken      <- {BroadcastPayment[dual[r]] : r \in accepted},
    settled    <- {BroadcastPayment[w] : w \in mined}

\* The relay is the sponsorship service: with two requests at once, timeouts, lost
\* calls, replays and evictions, the node takes nothing that was not asked for and
\* meant for a sponsor, settles each payment once and in its sender's order, and
\* everybody is told something, "sent" only when it is true (server.go:125-205).
ImplementsSponsorship == Service!Spec

\* Every request is answered, whatever the node does: the timeout of the HTTP
\* client bounds the one wait of the handler, whose context never ends.
EveryRequestAnswered ==
    \A r \in Requests : pc[r] = "received" ~> answer[r] # None

=============================================================================

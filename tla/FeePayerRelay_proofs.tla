------------------------ MODULE FeePayerRelay_proofs ------------------------
(***************************************************************************)
(* Proofs about FeePayerRelay, for any requests, any client transactions   *)
(* and any keys, and the step simulation of Sponsorship.                   *)
(*                                                                         *)
(* First what the relay's string for a client's transaction is, and when   *)
(* the node takes it: exactly if the sender's signature verifies and is    *)
(* one for a fee payer. Then an invariant of each request (RequestOK) and  *)
(* one of the node (NodeOK), from which the rest follows.                  *)
(***************************************************************************)
EXTENDS FeePayerRelay, TempoTx_proofs, FiniteSetTheorems

\* The transactions the relay goes on with.
SignedTxs == ClientTxs \ UnsignedTxs

\* The node finds both signatures of a string good.
Verifies(w) ==
    LET v == VerifyDualSignatures(Deserialize(w))
    IN  v.sender \in Keys /\ v.feePayer \in Keys

-----------------------------------------------------------------------------
(* The string the relay broadcasts.                                        *)

LEMMA ReadForm ==
    ASSUME NEW t \in ClientTxs
    PROVE  /\ t \in Txs /\ Read(t) \in Txs
           /\ Read(t).chainID # 0
           /\ Read(t).body = t.body /\ Read(t).keyAuth = t.keyAuth
           /\ Read(t).sig = t.sig
<1>1. t \in Txs
  BY RelayAssumption
<1>2. Read(t) = Deserialize(Serialize(t, NormalOpts))
  BY DEF Read, Wire
<1>3. ChainIdMainnet # 0
  BY DEF ChainIdMainnet
<1>. QED
  BY <1>1, <1>2, <1>3, TransferForm, TransferType

\* The fee payer's signature of the relay for the content of t.
RelaySignature(t) ==
    Sign(ServerKey, FeePayerPayloadOf(Read(t).chainID, Read(t).body, Read(t).keyAuth,
                                      ServerToken, VerifySignature(Read(t))))

LEMMA CountersignForm ==
    ASSUME NEW t \in SignedTxs
    PROVE  /\ Countersign(Read(t)) \in Txs
           /\ Countersign(Read(t)) =
                [Read(t) EXCEPT !.from = VerifySignature(Read(t)),
                                !.feeToken = ServerToken, !.awaiting = FALSE,
                                !.feePayerSig = RelaySignature(t)]
<1> DEFINE u == Read(t)
           s == VerifySignature(u)
           v == [u EXCEPT !.from = s, !.feeToken = ServerToken, !.awaiting = FALSE]
<1>1. u \in Txs /\ s \in Addresses /\ s # ZeroAddr
  BY ReadForm, VerifySignatureType DEF SignedTxs, UnsignedTxs
<1>. HIDE DEF u, s
<1>2. v \in Txs
  BY <1>1, RelayAssumption DEF Txs, FeeTokens
<1>3. /\ v.chainID = u.chainID /\ v.body = u.body /\ v.keyAuth = u.keyAuth
      /\ v.feeToken = ServerToken /\ v.from = s
  BY <1>1 DEF Txs
<1>4. FeePayerSender(v) = s
  BY <1>1, <1>3 DEF FeePayerSender
<1>5. GetFeePayerSignPayload(v, s) =
          FeePayerPayloadOf(u.chainID, u.body, u.keyAuth, ServerToken, s)
  BY <1>1, <1>2, <1>3, FeePayerPayloadForm
<1>6. Countersign(u) = AddFeePayerSignature(v, ServerKey)
  BY DEF Countersign, s
<1>7. Countersign(u) = [v EXCEPT !.from = s, !.feePayerSig = RelaySignature(t)]
  BY <1>4, <1>5, <1>6 DEF AddFeePayerSignature, RelaySignature, u, s
<1>8. Countersign(u) \in Txs
  BY <1>2, <1>6, RelayAssumption, FeePayerSignsType
<1>. QED
  BY <1>1, <1>7, <1>8 DEF u, s, Txs

LEMMA SignedIsRead ==
    ASSUME NEW t \in SignedTxs
    PROVE  /\ t \in ClientTxs /\ Read(t) \in Txs /\ Read(t).body = t.body
           /\ Read(t).keyAuth = t.keyAuth /\ Read(t).sig = t.sig
  BY ReadForm DEF SignedTxs

LEMMA CountersignedFields ==
    ASSUME NEW t \in SignedTxs, NEW c, c = Countersign(Read(t))
    PROVE  /\ c \in Txs /\ c.chainID = Read(t).chainID /\ c.body = Read(t).body
           /\ c.keyAuth = Read(t).keyAuth /\ c.sig = Read(t).sig
           /\ c.feeToken = ServerToken /\ c.feePayerSig = RelaySignature(t)
<1>1. PICK u : u = Read(t)
  OBVIOUS
<1>2. u \in Txs
  BY <1>1, SignedIsRead
<1>3. PICK s, f : s = VerifySignature(Read(t)) /\ f = RelaySignature(t)
  OBVIOUS
<1>4. c \in Txs /\ c = [u EXCEPT !.from = s, !.feeToken = ServerToken,
                                !.awaiting = FALSE, !.feePayerSig = f]
  BY <1>1, <1>3, CountersignForm
<1>5. /\ c.chainID = u.chainID /\ c.body = u.body /\ c.keyAuth = u.keyAuth
      /\ c.sig = u.sig /\ c.feeToken = ServerToken /\ c.feePayerSig = f
  BY <1>2, <1>4 DEF Txs
<1>. QED
  BY <1>1, <1>3, <1>4, <1>5

LEMMA BroadcastForm ==
    ASSUME NEW t \in SignedTxs
    PROVE  /\ Countersigned[t].prefix = "0x76"
           /\ Countersigned[t].list =
                [chainID |-> Read(t).chainID, body |-> t.body, feeToken |-> ServerToken,
                 feePayer |-> [kind |-> "sig", sig |-> RelaySignature(t)],
                 keyAuth |-> t.keyAuth, sig |-> t.sig]
           /\ Countersigned[t] \in Wires
<1> DEFINE c == Countersign(Read(t))
           w == Countersigned[t]
<1>1. /\ c \in Txs /\ c.chainID = Read(t).chainID /\ c.body = t.body
      /\ c.keyAuth = t.keyAuth /\ c.sig = t.sig /\ c.feeToken = ServerToken
      /\ c.feePayerSig = RelaySignature(t)
  BY SignedIsRead, CountersignedFields
<1>2. w = Serialize(c, NormalOpts)
  BY SignedIsRead DEF Countersigned, Wire
<1>3. c.feePayerSig # NoSig /\ c.feePayerSig \in Secp256k1Signatures
  BY <1>1 DEF RelaySignature, Sign, NoSig, Txs
<1>. HIDE DEF c
<1>4. w.prefix = "0x76" /\
      w.list = [chainID |-> c.chainID, body |-> c.body, feeToken |-> c.feeToken,
                feePayer |-> [kind |-> "sig", sig |-> c.feePayerSig],
                keyAuth |-> c.keyAuth, sig |-> c.sig]
  BY <1>2, <1>3 DEF Serialize, prefix, buildRLPList, NormalOpts, encodeFeePayerField,
                    encodeFeeTokenConditional, skipFeeToken
<1>5. w = [prefix |-> w.prefix, list |-> w.list]
  BY <1>2 DEF Serialize
<1>6. w \in Wires
  BY <1>1, <1>3, <1>4, <1>5 DEF Wires, Txs
<1>. QED
  BY <1>1, <1>4, <1>6

\* What that string says.
LEMMA BroadcastReads ==
    ASSUME NEW t \in SignedTxs, NEW d, d = Deserialize(Countersigned[t])
    PROVE  /\ d \in Txs /\ d.feePayerSig # NoSig
           /\ d.chainID = Read(t).chainID /\ d.body = Read(t).body
           /\ d.keyAuth = Read(t).keyAuth /\ d.sig = Read(t).sig
           /\ d.feeToken = ServerToken /\ d.feePayerSig = RelaySignature(t)
<1> DEFINE c == Countersign(Read(t))
<1>1. t \in ClientTxs /\ Read(t).chainID # 0
  BY ReadForm, SignedIsRead
<1>2. /\ c \in Txs /\ c.chainID = Read(t).chainID /\ c.body = Read(t).body
      /\ c.keyAuth = Read(t).keyAuth /\ c.sig = Read(t).sig
      /\ c.feeToken = ServerToken /\ c.feePayerSig = RelaySignature(t)
  BY CountersignedFields
<1>3. c.feePayerSig # NoSig
  BY <1>2 DEF RelaySignature, Sign, NoSig
<1>4. d = Deserialize(Serialize(c, NormalOpts))
  BY <1>1 DEF Countersigned, Wire
<1>. HIDE DEF c
<1>5. /\ d \in Txs
      /\ d = [chainID |-> c.chainID, body |-> c.body, feeToken |-> c.feeToken,
              keyAuth |-> c.keyAuth, sig |-> c.sig, feePayerSig |-> c.feePayerSig,
              awaiting |-> c.awaiting /\ c.feePayerSig = NoSig, from |-> ZeroAddr]
  BY <1>1, <1>2, <1>4, TransferForm, TransferType
<1>. QED
  BY <1>2, <1>3, <1>5

\* What the relay signs is what verifies, for the sender it saw.
LEMMA RelaySignatureVerifies ==
    ASSUME NEW t \in SignedTxs, NEW s \in Keys
    PROVE  VerifyFeePayerSignature(Deserialize(Countersigned[t]), s) =
               IF s = VerifySignature(Read(t)) THEN ServerKey ELSE StrayAddr
<1> DEFINE d == Deserialize(Countersigned[t])
           u == Read(t)
<1>1. /\ d \in Txs /\ d.chainID = u.chainID /\ d.body = u.body /\ d.keyAuth = u.keyAuth
      /\ d.feeToken = ServerToken /\ d.feePayerSig = RelaySignature(t)
  BY BroadcastReads, SignedIsRead
<1>2. RelaySignature(t) =
        [type |-> "secp256k1", by |-> ServerKey,
         digest |-> FeePayerPayloadOf(u.chainID, u.body, u.keyAuth, ServerToken,
                                      VerifySignature(u))]
  BY DEF RelaySignature, Sign
<1>. HIDE DEF d, u
<1>3. d.feePayerSig # NoSig /\ s # ZeroAddr
  BY <1>1, <1>2, AddressAssumption DEF NoSig
<1>4. GetFeePayerSignPayload(d, s) =
        FeePayerPayloadOf(u.chainID, u.body, u.keyAuth, ServerToken, s)
  BY <1>1, FeePayerPayloadForm DEF Addresses
<1>5. (d.feePayerSig.digest = GetFeePayerSignPayload(d, s)) <=> s = VerifySignature(u)
  BY <1>1, <1>2, <1>4, FeePayerPayloadInjective
<1>6. d.feePayerSig.by = ServerKey
  BY <1>1, <1>2
<1>. QED
  BY <1>3, <1>5, <1>6 DEF VerifyFeePayerSignature, RecoverAddress, d, u

\* A sender who signed for a fee payer is still the sender of the broadcast.
LEMMA SenderIsKept ==
    ASSUME NEW t \in SignedTxs, Sponsored(Read(t)), VerifySignature(Read(t)) \in Keys
    PROVE  /\ VerifyDualSignatures(Deserialize(Countersigned[t]))
                = [sender |-> VerifySignature(Read(t)), feePayer |-> ServerKey]
           /\ VerifySignature(Deserialize(Countersigned[t])) = VerifySignature(Read(t))
<1> DEFINE d == Deserialize(Countersigned[t])
           u == Read(t)
<1>1. /\ d \in Txs /\ u \in Txs /\ d.sig = u.sig
      /\ d.chainID = u.chainID /\ d.body = u.body /\ d.keyAuth = u.keyAuth
  BY BroadcastReads, SignedIsRead
<1>2. GetSignPayload(d) = GetSignPayload(u)
  <2>1. Sponsored(d) = Sponsored(u) /\ Sponsored(d)
    BY BroadcastReads, <1>1 DEF Sponsored, Txs
  <2>. QED
    BY <1>1, <2>1, SamePayloads
<1>3. VerifySignature(d) = VerifySignature(u)
  BY <1>1, <1>2 DEF VerifySignature
<1>4. VerifyFeePayerSignature(d, VerifySignature(u)) = ServerKey
  BY RelaySignatureVerifies
<1>. HIDE DEF d, u
<1>5. VerifyDualSignatures(d) = [sender |-> VerifySignature(u), feePayer |-> ServerKey]
  BY <1>3, <1>4, RelayAssumption, AddressAssumption DEF VerifyDualSignatures, u
<1>. QED
  BY <1>3, <1>5 DEF d, u

\* A signature that verifies is a secp256k1 signature over the payload.
LEMMA VerifiedSignature ==
    ASSUME NEW t, VerifySignature(t) \in Keys
    PROVE  /\ t.sig.type = "secp256k1" /\ t.sig.by = VerifySignature(t)
           /\ t.sig.digest = GetSignPayload(t)
  BY AddressAssumption DEF VerifySignature, RecoverAddress

\* The node takes no broadcast of which this is not so.
LEMMA OnlySponsoredVerifies ==
    ASSUME NEW t \in SignedTxs, Verifies(Countersigned[t])
    PROVE  /\ Sponsored(Read(t)) /\ VerifySignature(Read(t)) \in Keys
           /\ Sender(Countersigned[t]) = VerifySignature(Read(t))
           /\ VerifySignature(Deserialize(Countersigned[t])) = VerifySignature(Read(t))
<1> DEFINE d == Deserialize(Countersigned[t])
           u == Read(t)
           v == VerifyDualSignatures(d)
           s == VerifySignature(d)
<1>1. d \in Txs /\ u \in Txs /\ d.sig = u.sig
  BY BroadcastReads, SignedIsRead
<1>2. /\ v.sender = s /\ s \in Keys
      /\ v.feePayer = VerifyFeePayerSignature(d, s) /\ v.feePayer \in Keys
  BY AddressAssumption DEF Verifies, VerifyDualSignatures
<1>3. VerifyFeePayerSignature(d, s) =
        IF s = VerifySignature(u) THEN ServerKey ELSE StrayAddr
  BY <1>2, RelaySignatureVerifies
<1>4. s = VerifySignature(u)
  BY <1>2, <1>3, AddressAssumption
<1>5. GetSignPayload(u) = GetSignPayload(d)
  BY <1>1, <1>2, <1>4, VerifiedSignature
<1>6. SenderPayloadOf(u.chainID, u.body, u.keyAuth, u.feeToken, Sponsored(u))
        = SenderPayloadOf(d.chainID, d.body, d.keyAuth, d.feeToken, Sponsored(d))
  BY <1>1, <1>5, SignPayloadForm
<1>7. Sponsored(u)
  <2> DEFINE a == Sponsored(u)
             b == Sponsored(d)
  <2>0. b = TRUE
    BY <1>1, BroadcastReads DEF Sponsored, Txs
  <2>1. a \in BOOLEAN /\ b \in BOOLEAN
    BY <1>1 DEF Sponsored, Txs
  <2>2. SenderPayloadOf(u.chainID, u.body, u.keyAuth, u.feeToken, a)
          = SenderPayloadOf(d.chainID, d.body, d.keyAuth, d.feeToken, b)
    BY <1>6
  <2>. HIDE DEF a, b, d, u
  <2>3. a = b
    BY <2>1, <2>2, SenderPayloadInjective
  <2>. QED
    BY <2>0, <2>3 DEF a
<1>. QED
  BY <1>2, <1>4, <1>7 DEF Sender

\* One signature is for one broadcast.
LEMMA OneSignatureOneBroadcast ==
    ASSUME NEW t \in SignedTxs, NEW u \in SignedTxs, t.sig = u.sig,
           VerifySignature(Read(t)) \in Keys, VerifySignature(Read(u)) \in Keys
    PROVE  Countersigned[t] = Countersigned[u]
<1>1. /\ Read(t) \in Txs /\ Read(t).body = t.body
      /\ Read(t).keyAuth = t.keyAuth /\ Read(t).sig = t.sig
  BY SignedIsRead
<1>2. /\ Read(u) \in Txs /\ Read(u).body = u.body
      /\ Read(u).keyAuth = u.keyAuth /\ Read(u).sig = u.sig
  BY SignedIsRead
<1> DEFINE x == Read(t)
           y == Read(u)
           a == Sponsored(x)
           b == Sponsored(y)
<1>3. a \in BOOLEAN /\ b \in BOOLEAN
  BY <1>1, <1>2 DEF Sponsored, Txs
<1>4. VerifySignature(x) = VerifySignature(y) /\ GetSignPayload(x) = GetSignPayload(y)
  BY <1>1, <1>2, VerifiedSignature
<1>5. SenderPayloadOf(x.chainID, x.body, x.keyAuth, x.feeToken, a)
        = SenderPayloadOf(y.chainID, y.body, y.keyAuth, y.feeToken, b)
  BY <1>1, <1>2, <1>4, SignPayloadForm
<1>6. x.chainID = y.chainID /\ x.body = y.body /\ x.keyAuth = y.keyAuth
  <2>. HIDE DEF a, b
  <2>. QED
    BY <1>3, <1>5, SenderPayloadInjective
<1>7. RelaySignature(t) = RelaySignature(u)
  BY <1>4, <1>6 DEF RelaySignature
<1>8. Countersigned[t].list = Countersigned[u].list
  <2>1. \A q \in SignedTxs :
          Countersigned[q].list = [chainID |-> Read(q).chainID, body |-> q.body,
                                   feeToken |-> ServerToken,
                                   feePayer |-> [kind |-> "sig", sig |-> RelaySignature(q)],
                                   keyAuth |-> q.keyAuth, sig |-> q.sig]
    BY BroadcastForm
  <2>2. t.body = u.body /\ t.keyAuth = u.keyAuth /\ Read(t).chainID = Read(u).chainID
    BY <1>1, <1>2, <1>6
  <2>. QED
    BY <1>7, <2>1, <2>2
<1>9. /\ Countersigned[t] \in Wires /\ Countersigned[u] \in Wires
      /\ Countersigned[t].prefix = Countersigned[u].prefix
  BY BroadcastForm
<1>. QED
  BY <1>8, <1>9 DEF Wires

-----------------------------------------------------------------------------
(* The inductive invariant.                                                *)

\* Where a request is, and what that says of its broadcast, the reply to that and
\* its answer: each is kept until the handler is done, and is about this request.
RequestOK(r) ==
    /\ pc[r] = "idle" <=> request[r] = None
    /\ pc[r] \in {"idle", "received"} => dual[r] = None /\ reply[r] = None
    /\ pc[r] # "answered" => answer[r] = None
    /\ pc[r] = "broadcasting" => dual[r] # None
    /\ dual[r] # None =>
          /\ request[r].kind = "tx" /\ request[r].tx \in SignedTxs
          /\ dual[r] = Countersigned[request[r].tx]
    /\ r \in calls \cup accepted => dual[r] # None
    /\ r \in calls => r \notin accepted /\ reply[r].kind # "rpcError"
    /\ reply[r].kind = "rpcError" => r \notin accepted
    /\ reply[r].kind = "hash" =>
          /\ r \in accepted /\ reply[r].hash = dual[r]
          /\ request[r].method = "sync" => dual[r] \in mined
    /\ answer[r].kind = "result" => reply[r].kind = "hash" /\ answer[r] = Result(r, dual[r])
    /\ answer[r].kind = "error" =>
          dual[r] = None \/ reply[r].kind \in {"failed", "rpcError"}

\* What the node has settled, and for each sender.
Settled == {BroadcastPayment[w] : w \in mined}
SettledOf(k) == {p \in Settled : p.sender = k}

\* What the node has, it has from an accepted call, and both signatures were good.
\* At most one transaction of a sender is pending, with his next nonce; those that
\* are mined have the nonces before it, one each.
NodeOK ==
    /\ \A r \in accepted : Verifies(dual[r])
    /\ \A w \in pool \cup mined : \E r \in accepted : dual[r] = w
    /\ \A w \in pool : Nonce(w.list.body) = nonce[Sender(w)]
    /\ \A w, x \in pool : Sender(w) = Sender(x) => w = x
    /\ \A w \in mined : Nonce(w.list.body) < nonce[Sender(w)]
    /\ IsFiniteSet(Settled)
    /\ \A k \in Keys : nonce[k] = Cardinality(SettledOf(k))

IInv == TypeOK /\ (\A r \in Requests : RequestOK(r)) /\ NodeOK

LEMMA NoneIsNoWire == None \notin Wires
<1> SUFFICES ASSUME None \in Wires PROVE FALSE
  OBVIOUS
<1>1. DOMAIN None = {"kind"}
  BY DEF None
<1>2. "prefix" \in DOMAIN None
  BY DEF Wires
<1>. QED
  BY <1>1, <1>2

-----------------------------------------------------------------------------
(* Types.                                                                  *)

LEMMA TypeStep ==
    ASSUME IInv, Next
    PROVE  TypeOK'
<1> USE DEF IInv, TypeOK, relayVars, nodeVars
<1>1. ASSUME NEW r \in Requests, NEW q \in ClientRequests, Arrive(r, q) PROVE TypeOK'
  BY <1>1 DEF Arrive
<1>2. ASSUME NEW r \in Requests, AnswerPreflight(r) PROVE TypeOK'
  <2>1. [kind |-> "preflight"] \in Answers
    BY DEF Answers
  <2>. QED
    BY <1>2, <2>1 DEF AnswerPreflight, Answer
<1>3. ASSUME NEW r \in Requests, RejectEarly(r) PROVE TypeOK'
  <2> DEFINE a == Error(IF request[r].kind \in Unparsed THEN NoId ELSE r,
                        EarlyErrors[request[r].kind])
  <2>1. a \in Answers
    BY <1>3 DEF Answers, Error, RejectEarly
  <2>. HIDE DEF a
  <2>2. answer' = [answer EXCEPT ![r] = a] /\ pc' = [pc EXCEPT ![r] = "answered"]
        /\ UNCHANGED <<request, dual, reply, nodeVars>>
    BY <1>3 DEF RejectEarly, Answer, a
  <2>. QED
    BY <2>1, <2>2
<1>4. ASSUME NEW r \in Requests, RefuseTransaction(r) PROVE TypeOK'
  <2>1. Error(r, "InternalError") \in Answers
    BY DEF Answers, Error
  <2>. QED
    BY <1>4, <2>1 DEF RefuseTransaction, Answer
<1>5. ASSUME NEW r \in Requests, Broadcast(r) PROVE TypeOK'
  <2>1. request[r].tx \in SignedTxs
    BY <1>5 DEF Broadcast, Refused, SignedTxs, ClientRequests, None, EarlyErrors
  <2>2. Countersigned[request[r].tx] \in Wires
    BY <2>1, BroadcastForm
  <2>. QED
    BY <1>5, <2>2 DEF Broadcast
<1>6. ASSUME NEW r \in Requests, Relay(r) PROVE TypeOK'
  <2>1. reply[r].kind = "hash" => reply[r].hash \in Wires
    BY DEF Replies
  <2> DEFINE a == IF reply[r].kind = "hash" THEN Result(r, reply[r].hash)
                                            ELSE Error(r, "InternalError")
  <2>2. a \in Answers
    BY <2>1 DEF Answers, Error, Result
  <2>. HIDE DEF a
  <2>3. answer' = [answer EXCEPT ![r] = a] /\ pc' = [pc EXCEPT ![r] = "answered"]
        /\ UNCHANGED <<request, dual, reply, nodeVars>>
    BY <1>6 DEF Relay, Answer, a
  <2>. QED
    BY <2>2, <2>3
<1>7. ASSUME NEW r \in Requests, CallFails(r) PROVE TypeOK'
  BY <1>7 DEF CallFails, Replies
<1>8. ASSUME NEW r \in Requests, NEW m \in Replies, NodeReply(r, m)
      PROVE  reply' \in [Requests -> Replies]
  BY <1>8 DEF NodeReply
<1>9. ASSUME NEW r \in Requests, r \in calls \cup accepted PROVE dual[r] \in Wires
  BY <1>9 DEF RequestOK
<1>10. ASSUME NEW r \in Requests, Node(r) PROVE TypeOK'
  <2>1. \A w \in Wires : [kind |-> "hash", hash |-> w] \in Replies
        /\ [kind |-> "rpcError"] \in Replies
    BY DEF Replies
  <2>2. CASE NodeAccepts(r)
    <3>1. dual[r] \in Wires
      BY <1>9, <2>2 DEF NodeAccepts
    <3>2. reply' \in [Requests -> Replies]
      BY <1>8, <2>1, <2>2, <3>1 DEF NodeAccepts
    <3>. QED
      BY <2>2, <3>1, <3>2 DEF NodeAccepts
  <2>3. CASE NodeRejects(r)
    <3> DEFINE m == [kind |-> "rpcError"]
    <3>0. m \in Replies
      BY DEF Replies
    <3>1. reply' \in [Requests -> Replies]
      <4>1. reply' = reply \/ reply' = [reply EXCEPT ![r] = m]
        BY <2>3, Zenon DEF NodeRejects, NodeReply
      <4>. HIDE DEF m
      <4>. QED
        BY <3>0, <4>1
    <3>. QED
      BY <2>3, <3>1 DEF NodeRejects
  <2>4. CASE LoseCall(r)
    BY <2>4 DEF LoseCall
  <2>5. CASE ReplyMined(r)
    BY <1>8, <1>9, <2>1, <2>5 DEF ReplyMined
  <2>. QED
    BY <1>10, <2>2, <2>3, <2>4, <2>5 DEF Node
<1>11. ASSUME NEW w \in pool, Mine(w) \/ Drop(w) PROVE TypeOK'
  BY <1>11 DEF Mine, Drop
<1>. QED
  BY <1>1, <1>2, <1>3, <1>4, <1>5, <1>6, <1>7, <1>10, <1>11 DEF Next, Handler

-----------------------------------------------------------------------------
(* Requests.                                                               *)

\* What other requests do, and what the node does for them, is of no concern.
LEMMA OthersKept ==
    ASSUME TypeOK, NEW q \in Requests, RequestOK(q),
           request'[q] = request[q], pc'[q] = pc[q], dual'[q] = dual[q],
           reply'[q] = reply[q], answer'[q] = answer[q],
           q \in calls' => q \in calls, q \in accepted' <=> q \in accepted,
           mined \subseteq mined'
    PROVE  RequestOK(q)'
  BY DEF RequestOK

LEMMA RequestStep ==
    ASSUME IInv, TypeOK', Next, NEW q \in Requests
    PROVE  RequestOK(q)'
<1> USE DEF IInv, TypeOK, relayVars, nodeVars
<1>1. ASSUME NEW r \in Requests, NEW c \in ClientRequests, Arrive(r, c)
      PROVE  RequestOK(q)'
  <2>1. CASE q = r
    BY <1>1, <2>1 DEF Arrive, RequestOK, ClientRequests, None, EarlyErrors
  <2>2. CASE q # r
    BY <1>1, <2>2, OthersKept DEF Arrive
  <2>. QED
    BY <2>1, <2>2
<1>2. ASSUME NEW r \in Requests,
             AnswerPreflight(r) \/ RejectEarly(r) \/ RefuseTransaction(r)
      PROVE  RequestOK(q)'
  <2>0. PICK a : /\ answer' = [answer EXCEPT ![r] = a] /\ a.kind \in {"preflight", "error"}
                 /\ pc[r] = "received" /\ pc' = [pc EXCEPT ![r] = "answered"]
                 /\ UNCHANGED <<request, dual, reply, nodeVars>>
    BY <1>2 DEF AnswerPreflight, RejectEarly, RefuseTransaction, Answer, Error
  <2>1. CASE q = r
    BY <2>0, <2>1 DEF RequestOK, None
  <2>2. CASE q # r
    BY <2>0, <2>2, OthersKept
  <2>. QED
    BY <2>1, <2>2
<1>3. ASSUME NEW r \in Requests, Broadcast(r) PROVE RequestOK(q)'
  <2>1. CASE q = r
    <3>1. request[r].kind = "tx" /\ request[r].tx \in SignedTxs
      BY <1>3 DEF Broadcast, Refused, SignedTxs, ClientRequests, None, EarlyErrors
    <3>2. Countersigned[request[r].tx] # None
      BY <3>1, BroadcastForm, NoneIsNoWire
    <3>. QED
      BY <1>3, <2>1, <3>1, <3>2 DEF Broadcast, RequestOK, None
  <2>2. CASE q # r
    BY <1>3, <2>2, OthersKept DEF Broadcast
  <2>. QED
    BY <2>1, <2>2
<1>4. ASSUME NEW r \in Requests, Relay(r) PROVE RequestOK(q)'
  <2>1. CASE q = r
    BY <1>4, <2>1 DEF Relay, Answer, RequestOK, Replies, None, Result, Error
  <2>2. CASE q # r
    BY <1>4, <2>2, OthersKept DEF Relay, Answer
  <2>. QED
    BY <2>1, <2>2
<1>5. ASSUME NEW r \in Requests, CallFails(r) PROVE RequestOK(q)'
  <2>1. CASE q = r
    BY <1>5, <2>1 DEF CallFails, RequestOK, None
  <2>2. CASE q # r
    BY <1>5, <2>2, OthersKept DEF CallFails
  <2>. QED
    BY <2>1, <2>2
<1>6. ASSUME NEW r \in Requests, Node(r) PROVE RequestOK(q)'
  <2>1. CASE q = r
    <3>1. CASE NodeAccepts(r)
      BY <2>1, <3>1 DEF NodeAccepts, NodeReply, RequestOK, None
    <3>2. CASE NodeRejects(r)
      BY <2>1, <3>2 DEF NodeRejects, NodeReply, RequestOK, None
    <3>3. CASE LoseCall(r)
      BY <2>1, <3>3 DEF LoseCall, RequestOK
    <3>4. CASE ReplyMined(r)
      BY <2>1, <3>4 DEF ReplyMined, NodeReply, RequestOK, None
    <3>. QED
      BY <1>6, <3>1, <3>2, <3>3, <3>4 DEF Node
  <2>2. CASE q # r
    BY <1>6, <2>2, OthersKept DEF Node, NodeAccepts, NodeRejects, LoseCall, ReplyMined, NodeReply
  <2>. QED
    BY <2>1, <2>2
<1>7. ASSUME NEW w \in pool, Mine(w) \/ Drop(w) PROVE RequestOK(q)'
  BY <1>7, OthersKept DEF Mine, Drop
<1>. QED
  BY <1>1, <1>2, <1>3, <1>4, <1>5, <1>6, <1>7 DEF Next, Handler

-----------------------------------------------------------------------------
(* The node.                                                               *)

\* What the node has is a broadcast for some client's sponsored payment.
LEMMA AcceptedForm ==
    ASSUME IInv, NEW r \in accepted
    PROVE  /\ request[r].kind = "tx" /\ request[r].tx \in SignedTxs
           /\ dual[r] = Countersigned[request[r].tx] /\ dual[r] \in Wires
           /\ Sender(dual[r]) \in Keys
           /\ Sender(dual[r]) = VerifySignature(Deserialize(dual[r]))
           /\ BroadcastPayment[dual[r]] = Payment(dual[r].list, Sender(dual[r]))
<1>1. r \in Requests /\ RequestOK(r) /\ Verifies(dual[r])
  BY DEF IInv, TypeOK, NodeOK
<1>2. request[r].kind = "tx" /\ request[r].tx \in SignedTxs
      /\ dual[r] = Countersigned[request[r].tx]
  BY <1>1 DEF RequestOK
<1>3. Sender(dual[r]) \in Keys
  BY <1>1 DEF Sender, Verifies
<1>4. Sender(dual[r]) = VerifySignature(Deserialize(dual[r]))
  BY <1>1, <1>2, OnlySponsoredVerifies
<1>5. BroadcastPayment[dual[r]] = Payment(dual[r].list, Sender(dual[r]))
  BY <1>2, <1>4 DEF BroadcastPayment, SignedTxs
<1>. QED
  BY <1>2, <1>3, <1>4, <1>5, BroadcastForm

LEMMA NodeKept ==
    ASSUME NodeOK, UNCHANGED <<accepted, pool, mined, nonce>>,
           \A r \in accepted : dual'[r] = dual[r]
    PROVE  NodeOK'
<1>1. UNCHANGED Settled /\ \A k : UNCHANGED SettledOf(k)
  BY DEF Settled, SettledOf
<1>. QED
  BY <1>1 DEF NodeOK

LEMMA MineStep ==
    ASSUME IInv, NEW w \in pool, Mine(w)
    PROVE  /\ NodeOK'
           /\ Nonce(w.list.body) = Cardinality(SettledOf(Sender(w)))
<1> DEFINE s == Sender(w)
           p == BroadcastPayment[w]
<1>0. /\ pool \subseteq Wires /\ mined \subseteq Wires /\ nonce \in [Keys -> Nat]
      /\ \A x \in pool \cup mined : Sender(x) \in Keys /\ x.list.body \in Bodies
  BY AcceptedForm DEF IInv, TypeOK, NodeOK, Wires
<1>1. /\ s \in Keys /\ p.sender = s /\ p.body = w.list.body
      /\ \A x \in mined : /\ BroadcastPayment[x].sender = Sender(x)
                          /\ BroadcastPayment[x].body = x.list.body
  <2>1. ASSUME NEW x \in pool \cup mined
        PROVE  /\ Sender(x) \in Keys
               /\ BroadcastPayment[x] = Payment(x.list, Sender(x))
    <3>1. PICK r \in accepted : dual[r] = x
      BY DEF IInv, NodeOK
    <3>. QED
      BY <3>1, AcceptedForm
  <2>2. \A l, k : Payment(l, k).sender = k /\ Payment(l, k).body = l.body
    BY DEF Payment
  <2>3. \A x \in pool \cup mined :
          /\ Sender(x) \in Keys /\ BroadcastPayment[x].sender = Sender(x)
          /\ BroadcastPayment[x].body = x.list.body
    BY <2>1, <2>2
  <2>. QED
    BY <2>3
<1>2. /\ pool' = pool \ {w} /\ mined' = mined \cup {w}
      /\ nonce' = [nonce EXCEPT ![s] = @ + 1] /\ UNCHANGED <<accepted, dual>>
  BY DEF Mine, relayVars
<1>3. Nonce(w.list.body) = nonce[s] /\ nonce[s] \in Nat
  BY <1>0, <1>1 DEF IInv, NodeOK
<1>4. p \notin Settled
  BY <1>1, <1>3 DEF IInv, NodeOK, Settled
<1>5. Settled' = Settled \cup {p}
  BY <1>2 DEF Settled, BroadcastPayment
<1>6. IsFiniteSet(Settled)'
  BY <1>5, FS_AddElement DEF IInv, NodeOK
<1>7. ASSUME NEW k \in Keys PROVE nonce'[k] = Cardinality(SettledOf(k)')
  <2>1. IsFiniteSet(SettledOf(k)) /\ nonce[k] = Cardinality(SettledOf(k))
    BY FS_Subset DEF IInv, NodeOK, SettledOf
  <2>2. CASE k = s
    <3>1. SettledOf(k)' = SettledOf(k) \cup {p} /\ p \notin SettledOf(k)
      BY <1>1, <1>4, <1>5, <2>2 DEF SettledOf
    <3>. QED
      BY <1>0, <1>2, <2>1, <2>2, <3>1, FS_AddElement
  <2>3. CASE k # s
    <3>1. SettledOf(k)' = SettledOf(k)
      BY <1>1, <1>5, <2>3 DEF SettledOf
    <3>. QED
      BY <1>0, <1>2, <2>1, <2>3, <3>1
  <2>. QED
    BY <2>2, <2>3
<1>8. /\ (\A r \in accepted : Verifies(dual[r]))'
      /\ (\A x \in pool \cup mined : \E r \in accepted : dual[r] = x)'
      /\ (\A x, y \in pool : Sender(x) = Sender(y) => x = y)'
  BY <1>2 DEF IInv, NodeOK, Verifies, Sender
<1>9. /\ (\A x \in pool : Nonce(x.list.body) = nonce[Sender(x)])'
      /\ (\A x \in mined : Nonce(x.list.body) < nonce[Sender(x)])'
  <2>1. \A x \in pool : Nonce(x.list.body) = nonce[Sender(x)] /\ (Sender(x) = s => x = w)
    BY DEF IInv, NodeOK
  <2>2. \A x \in mined : Nonce(x.list.body) < nonce[Sender(x)]
    BY DEF IInv, NodeOK
  <2>3. \A x \in pool \cup mined : Nonce(x.list.body) \in Nat /\ nonce[Sender(x)] \in Nat
    BY <1>0, RelayAssumption
  <2>. QED
    BY <1>0, <1>1, <1>2, <2>1, <2>2, <2>3
<1>10. nonce[s] = Cardinality(SettledOf(s))
  BY <1>1 DEF IInv, NodeOK
<1>. QED
  BY <1>3, <1>6, <1>7, <1>8, <1>9, <1>10 DEF NodeOK

LEMMA NodeStep ==
    ASSUME IInv, Next
    PROVE  NodeOK'
<1> USE DEF relayVars, nodeVars
<1>1. ASSUME NEW r \in Requests, NodeAccepts(r) PROVE NodeOK'
  <2>1. /\ accepted' = accepted \cup {r} /\ pool' = pool \cup {dual[r]}
        /\ UNCHANGED <<dual, mined, nonce>> /\ Acceptable(dual[r])
    BY <1>1 DEF NodeAccepts
  <2>2. UNCHANGED Settled /\ \A k : UNCHANGED SettledOf(k)
    BY <2>1 DEF Settled, SettledOf
  <2>3. Verifies(dual[r])
    BY <2>1 DEF Acceptable, Verifies, Sender
  <2>4. Nonce(dual[r].list.body) = nonce[Sender(dual[r])]
        /\ \A x \in pool : Sender(x) # Sender(dual[r])
    BY <2>1 DEF Acceptable
  <2>. QED
    BY <2>1, <2>2, <2>3, <2>4 DEF IInv, NodeOK
<1>2. ASSUME NEW w \in pool, Drop(w) PROVE NodeOK'
  <2>1. pool' \subseteq pool /\ UNCHANGED <<accepted, dual, mined, nonce>>
    BY <1>2 DEF Drop
  <2>2. UNCHANGED Settled /\ \A k : UNCHANGED SettledOf(k)
    BY <2>1 DEF Settled, SettledOf
  <2>. QED
    BY <2>1, <2>2 DEF IInv, NodeOK
<1>3. ASSUME NEW r \in Requests, Broadcast(r) PROVE NodeOK'
  <2>1. r \notin accepted
    BY <1>3 DEF Broadcast, IInv, RequestOK
  <2>. QED
    BY <1>3, <2>1, NodeKept DEF Broadcast, IInv, TypeOK
<1>4. ASSUME NEW r \in Requests,
             \/ \E q \in ClientRequests : Arrive(r, q)
             \/ AnswerPreflight(r) \/ RejectEarly(r) \/ RefuseTransaction(r)
             \/ Relay(r) \/ CallFails(r) \/ NodeRejects(r) \/ LoseCall(r) \/ ReplyMined(r)
      PROVE  NodeOK'
  BY <1>4, NodeKept DEF IInv, Arrive, AnswerPreflight, RejectEarly, RefuseTransaction, Relay,
                        CallFails, NodeRejects, LoseCall, ReplyMined
<1>. QED
  BY <1>1, <1>2, <1>3, <1>4, MineStep DEF Next, Handler, Node


-----------------------------------------------------------------------------
(* The theorems.                                                           *)

LEMMA InitIInv == Init => IInv
<1> SUFFICES ASSUME Init PROVE IInv
  OBVIOUS
<1>1. None \in Replies /\ None \in Answers
  BY DEF None, Replies, Answers
<1>2. TypeOK
  <2>1. request \in [Requests -> ClientRequests \cup {None}]
        /\ dual \in [Requests -> Wires \cup {None}]
    BY DEF Init
  <2>2. reply \in [Requests -> Replies] /\ answer \in [Requests -> Answers]
    BY <1>1 DEF Init
  <2>. QED
    BY <2>1, <2>2 DEF Init, TypeOK
<1>3. ASSUME NEW r \in Requests PROVE RequestOK(r)
  BY DEF Init, RequestOK, None
<1>4. NodeOK
  <2>1. Settled = {} /\ \A k \in Keys : SettledOf(k) = {}
    BY DEF Init, Settled, SettledOf
  <2>2. IsFiniteSet(Settled) /\ \A k \in Keys : nonce[k] = Cardinality(SettledOf(k))
    BY <2>1, FS_EmptySet DEF Init
  <2>. QED
    BY <2>2 DEF Init, NodeOK
<1>. QED
  BY <1>2, <1>3, <1>4 DEF IInv

LEMMA NextIInv == IInv /\ [Next]_vars => IInv'
<1> SUFFICES ASSUME IInv, [Next]_vars PROVE IInv'
  OBVIOUS
<1>1. CASE Next
  BY <1>1, TypeStep, RequestStep, NodeStep DEF IInv
<1>2. CASE UNCHANGED vars
  <2>1. /\ UNCHANGED <<request, pc, dual, reply, answer>>
        /\ UNCHANGED <<calls, accepted, pool, mined, nonce>>
    BY <1>2 DEF vars, relayVars, nodeVars
  <2>2. TypeOK'
    BY <2>1 DEF IInv, TypeOK
  <2>3. ASSUME NEW r \in Requests PROVE RequestOK(r)'
    BY <2>1, OthersKept DEF IInv
  <2>4. NodeOK'
    BY <2>1, NodeKept DEF IInv
  <2>. QED
    BY <2>2, <2>3, <2>4 DEF IInv
<1>. QED
  BY <1>1, <1>2

LEMMA Invariance == Spec => []IInv
  BY InitIInv, NextIInv, PTL DEF Spec

\* The values of the relay's state and of the node's: no handler, however it is
\* interleaved with others, leaves a reply, an answer or a string that is none of
\* those the code can make (server.go:125-305).
THEOREM TypeCorrect == Spec => []TypeOK
<1>1. IInv => TypeOK
  BY DEF IInv
<1>. QED
  BY <1>1, Invariance, PTL

\* What is broadcast for a sponsored transaction verifies for its sender and the
\* relay, whatever the transaction (server.go:225-279).
THEOREM SponsoredRelayVerifiesHolds == Spec => []SponsoredRelayVerifies
<1>1. IInv => SponsoredRelayVerifies
  <2> SUFFICES ASSUME IInv, NEW r \in Requests, dual[r] # None, MeantForFeePayer(r),
                      Signer(r) \in Keys
               PROVE  VerifyDualSignatures(Deserialize(dual[r]))
                        = [sender |-> Signer(r), feePayer |-> ServerKey]
    BY DEF SponsoredRelayVerifies
  <2>1. request[r].tx \in SignedTxs /\ dual[r] = Countersigned[request[r].tx]
    BY DEF IInv, RequestOK
  <2>. QED
    BY <2>1, SenderIsKept DEF MeantForFeePayer, Signer
<1>. QED
  BY <1>1, Invariance, PTL

\* What is mined was signed by its sender for a fee payer, and is otherwise as he
\* sent it, with the relay's token and signature (server.go:225-279).
THEOREM MinedAsSignedHolds == Spec => []MinedAsSigned
<1>1. ASSUME IInv, NEW r \in accepted
      PROVE  /\ r \in Requests /\ request[r].kind = "tx" /\ MeantForFeePayer(r)
             /\ Signer(r) = Sender(dual[r])
             /\ dual[r].list.chainID = Read(request[r].tx).chainID
             /\ \A field \in {"body", "keyAuth", "sig"} :
                    dual[r].list[field] = Wire(request[r].tx).list[field]
             /\ dual[r].list.feeToken = ServerToken
             /\ dual[r].list.feePayer.sig.by = ServerKey
  <2> DEFINE t == request[r].tx
             w == dual[r]
  <2>1. /\ r \in Requests /\ request[r].kind = "tx" /\ t \in SignedTxs
        /\ w = Countersigned[t] /\ Verifies(w)
    BY <1>1, AcceptedForm DEF IInv, TypeOK, NodeOK
  <2>2. Sponsored(Read(t)) /\ Sender(w) = VerifySignature(Read(t))
    BY <2>1, OnlySponsoredVerifies
  <2>3. w.list = [chainID |-> Read(t).chainID, body |-> t.body, feeToken |-> ServerToken,
                  feePayer |-> [kind |-> "sig", sig |-> RelaySignature(t)],
                  keyAuth |-> t.keyAuth, sig |-> t.sig]
    BY <2>1, BroadcastForm
  <2>4. Wire(t).list.body = t.body /\ Wire(t).list.keyAuth = t.keyAuth
        /\ Wire(t).list.sig = t.sig
    BY DEF Wire, Serialize, buildRLPList
  <2>5. RelaySignature(t).by = ServerKey
    BY DEF RelaySignature, Sign
  <2>6. w.list.feePayer.sig = RelaySignature(t)
    BY <2>3
  <2>7. \A field \in {"body", "keyAuth", "sig"} : w.list[field] = Wire(t).list[field]
    <3>1. w.list.body = t.body /\ w.list.keyAuth = t.keyAuth /\ w.list.sig = t.sig
      BY <2>3
    <3>. QED
      BY <2>4, <3>1
  <2>8. w.list.chainID = Read(t).chainID /\ w.list.feeToken = ServerToken
    BY <2>3
  <2>. HIDE DEF w
  <2>9. Signer(r) = Sender(w) /\ MeantForFeePayer(r)
    BY <2>2, Zenon DEF Signer, MeantForFeePayer
  <2>. QED
    BY <2>1, <2>5, <2>6, <2>7, <2>8, <2>9 DEF w
<1>2. IInv => MinedAsSigned
  <2> SUFFICES ASSUME IInv, NEW w \in mined
               PROVE  /\ \E r \in Requests :
                            /\ request[r].kind = "tx" /\ MeantForFeePayer(r)
                            /\ Signer(r) = Sender(w)
                            /\ w.list.chainID = Read(request[r].tx).chainID
                            /\ \A field \in {"body", "keyAuth", "sig"} :
                                  w.list[field] = Wire(request[r].tx).list[field]
                      /\ w.list.feeToken = ServerToken
                      /\ w.list.feePayer.sig.by = ServerKey
    BY DEF MinedAsSigned
  <2>1. PICK r \in accepted : dual[r] = w
    BY DEF IInv, NodeOK
  <2>. QED
    BY <1>1, <2>1
<1>. QED
  BY <1>2, Invariance, PTL

\* A signed payment has one broadcast, whoever sends it in how often, also when the
\* countersigned transaction itself is sent in (server.go:225-279).
THEOREM OnePaymentOneTransactionHolds == Spec => []OnePaymentOneTransaction
<1>1. IInv => OnePaymentOneTransaction
  <2> SUFFICES ASSUME IInv, NEW r \in Requests, NEW q \in Requests,
                      dual[r] # None, dual[q] # None, request[r].tx.sig = request[q].tx.sig,
                      Signer(r) \in Keys, Signer(q) \in Keys
               PROVE  dual[r] = dual[q]
    BY DEF OnePaymentOneTransaction
  <2>1. /\ request[r].tx \in SignedTxs /\ dual[r] = Countersigned[request[r].tx]
        /\ request[q].tx \in SignedTxs /\ dual[q] = Countersigned[request[q].tx]
    BY DEF IInv, RequestOK
  <2>. QED
    BY <2>1, OneSignatureOneBroadcast DEF Signer
<1>. QED
  BY <1>1, Invariance, PTL

\* Nobody is given a hash that is not his own transaction's, or before the node took
\* it, and with the Sync method before it is mined (server.go:184-205, 290-305).
THEOREM SuccessIsTrueHolds == Spec => []SuccessIsTrue
<1>1. IInv => SuccessIsTrue
  <2> SUFFICES ASSUME IInv, NEW r \in Requests, answer[r].kind = "result"
               PROVE  /\ answer[r].id = r
                      /\ answer[r].hash.list.sig = request[r].tx.sig
                      /\ r \in accepted
                      /\ request[r].method = "sync" => answer[r].hash \in mined
    BY DEF SuccessIsTrue
  <2>1. reply[r].kind = "hash" /\ answer[r] = Result(r, dual[r])
    BY DEF IInv, RequestOK
  <2>2. r \in accepted /\ (request[r].method = "sync" => dual[r] \in mined)
    BY <2>1 DEF IInv, RequestOK
  <2>3. answer[r].id = r /\ answer[r].hash = dual[r]
    BY <2>1 DEF Result
  <2>4. request[r].tx \in SignedTxs /\ dual[r] = Countersigned[request[r].tx]
    BY <2>2, AcceptedForm
  <2>5. ASSUME NEW t \in SignedTxs PROVE Countersigned[t].list.sig = t.sig
    <3>1. Countersigned[t].list =
            [chainID |-> Read(t).chainID, body |-> t.body, feeToken |-> ServerToken,
             feePayer |-> [kind |-> "sig", sig |-> RelaySignature(t)],
             keyAuth |-> t.keyAuth, sig |-> t.sig]
      BY BroadcastForm
    <3>. QED
      BY <3>1
  <2>. QED
    BY <2>2, <2>3, <2>4, <2>5
<1>. QED
  BY <1>1, Invariance, PTL

\* An error for a request whose call the node accepted means that the relay did not
\* learn of it, and nothing else (server.go:184-205, 290-305).
THEOREM NoFalseRejectionHolds == Spec => []NoFalseRejection
<1>1. IInv => NoFalseRejection
  <2> SUFFICES ASSUME IInv, NEW r \in accepted, answer[r].kind = "error"
               PROVE  reply[r].kind = "failed"
    BY DEF NoFalseRejection
  <2>1. r \in Requests /\ RequestOK(r)
    BY DEF IInv, TypeOK
  <2>. QED
    BY <2>1 DEF RequestOK
<1>. QED
  BY <1>1, Invariance, PTL


-----------------------------------------------------------------------------
(* The relay implements Sponsorship, step by step.                         *)

\* What the relay's state says in the service's terms.
Told(r) == IF answer[r].kind = "none" THEN "nothing"
           ELSE IF answer[r].kind = "result" THEN "sent" ELSE "failed"
askedNow == [r \in Requests |-> Asked(request[r])]
toldNow  == [r \in Requests |-> Told(r)]
takenNow == {BroadcastPayment[dual[r]] : r \in accepted}

\* The node takes for a request the payment that was asked for.
LEMMA PaymentKept ==
    ASSUME NEW r \in Requests, RequestOK(r), dual[r] # None, Verifies(dual[r])
    PROVE  /\ Asked(request[r]).payment = BroadcastPayment[dual[r]]
           /\ BroadcastPayment[dual[r]] \in SponsoredPayments
<1> DEFINE t == request[r].tx
           d == Deserialize(dual[r])
<1>1. request[r].kind = "tx" /\ t \in SignedTxs /\ dual[r] = Countersigned[t]
  BY DEF RequestOK
<1>2. t \in Sponsorable /\ VerifySignature(d) = VerifySignature(Read(t))
  BY <1>1, OnlySponsoredVerifies DEF Sponsorable, SignedTxs
<1>3. Countersigned[t].list =
        [chainID |-> Read(t).chainID, body |-> t.body, feeToken |-> ServerToken,
         feePayer |-> [kind |-> "sig", sig |-> RelaySignature(t)],
         keyAuth |-> t.keyAuth, sig |-> t.sig]
  BY <1>1, BroadcastForm
<1>4. dual[r].list.body = t.body /\ dual[r].list.sig = t.sig
  BY <1>1, <1>3
<1>5. Wire(t).list.body = t.body /\ Wire(t).list.sig = t.sig
  BY DEF Wire, Serialize, buildRLPList
<1>6. SentPayment[t] = Payment(Wire(t).list, VerifySignature(Read(t)))
  BY <1>1 DEF SentPayment, SignedTxs
<1>7. BroadcastPayment[dual[r]] = Payment(dual[r].list, VerifySignature(d))
  BY <1>1 DEF BroadcastPayment, SignedTxs
<1>8. SentPayment[t] = BroadcastPayment[dual[r]]
  BY <1>2, <1>4, <1>5, <1>6, <1>7 DEF Payment
<1>9. Asked(request[r]).payment = SentPayment[t]
  BY <1>1, <1>2 DEF Asked
<1>. QED
  BY <1>2, <1>8, <1>9 DEF SponsoredPayments

LEMMA TakenPayment ==
    ASSUME IInv, NEW r \in accepted
    PROVE  /\ r \in Requests
           /\ Asked(request[r]).payment = BroadcastPayment[dual[r]]
           /\ BroadcastPayment[dual[r]] \in SponsoredPayments
  BY PaymentKept DEF IInv, TypeOK, NodeOK, RequestOK

\* The service counts as the relay's node does.
LEMMA ServiceCounts == \A S : Service!Cardinality(S) = Cardinality(S)
  BY DEF Cardinality, Service!Cardinality, IsFiniteSet, Service!IsFiniteSet

LEMMA ServiceInit == Init => Service!Init
<1> SUFFICES ASSUME Init PROVE Service!Init
  OBVIOUS
<1>1. Asked(None) = Service!NotYet
  BY DEF Asked, Service!NotYet, None
<1>2. askedNow = [r \in Requests |-> Service!NotYet]
  BY <1>1 DEF Init, askedNow
<1>3. toldNow = [r \in Requests |-> "nothing"]
  BY DEF Init, toldNow, Told, None
<1>4. takenNow = {} /\ Settled = {}
  BY DEF Init, takenNow, Settled
<1>. QED
  BY <1>2, <1>3, <1>4 DEF Service!Init, askedNow, toldNow, Told, takenNow, Settled


\* What the answer of a handler is to the service, if it is one to this request.
LEMMA TellStep ==
    ASSUME IInv, NEW r \in Requests, NEW a \in Answers, pc[r] = "received" \/ pc[r] = "broadcasting",
           answer' = [answer EXCEPT ![r] = a],
           a.kind # "none",
           a.kind = "result" =>
               /\ r \in accepted
               /\ request[r].method = "sync" => dual[r] \in mined,
           UNCHANGED <<request, dual, accepted, mined>>
    PROVE  Service!Next
<1> DEFINE what == IF a.kind = "result" THEN "sent" ELSE "failed"
<1>1. askedNow[r].arrived /\ toldNow[r] = "nothing"
  <2>1. request[r] # None /\ answer[r] = None
    BY DEF IInv, RequestOK
  <2>2. Asked(request[r]).arrived
    BY <2>1 DEF Asked
  <2>3. Told(r) = "nothing"
    BY <2>1 DEF Told, None
  <2>. QED
    BY <2>2, <2>3 DEF askedNow, toldNow
<1>2. toldNow' = [toldNow EXCEPT ![r] = what]
  <2>1. answer \in [Requests -> Answers]
    BY DEF IInv, TypeOK
  <2>2. Told(r)' = what /\ \A q \in Requests \ {r} : Told(q)' = Told(q)
    BY <2>1 DEF Told
  <2>. HIDE DEF what
  <2>. QED
    BY <2>2 DEF toldNow
<1>3. UNCHANGED <<askedNow, takenNow, Settled>>
  BY DEF askedNow, takenNow, Settled
<1>4. ASSUME what = "sent"
      PROVE  askedNow[r].payment \in IF askedNow[r].waits THEN Settled ELSE takenNow
  <2>1. r \in accepted /\ (request[r].method = "sync" => dual[r] \in mined)
    BY <1>4
  <2>2. askedNow[r].payment = BroadcastPayment[dual[r]]
    BY <2>1, TakenPayment DEF askedNow
  <2>3. askedNow[r].payment \in takenNow
    BY <2>1, <2>2 DEF takenNow
  <2>4. ASSUME askedNow[r].waits PROVE request[r].method = "sync"
    BY <2>4 DEF askedNow, Asked
  <2>5. ASSUME askedNow[r].waits PROVE askedNow[r].payment \in Settled
    BY <2>1, <2>2, <2>4, <2>5 DEF Settled
  <2>. QED
    BY <2>3, <2>5
<1>5. what \in {"sent", "failed"}
  OBVIOUS
<1>. HIDE DEF what
<1>6. Service!Tell(r, what)
  BY <1>1, <1>2, <1>3, <1>4
     DEF Service!Tell, askedNow, toldNow, Told, takenNow, Settled
<1>. QED
  BY <1>5, <1>6 DEF Service!Next

LEMMA ArriveStep ==
    ASSUME IInv, NEW r \in Requests, NEW q \in ClientRequests, Arrive(r, q)
    PROVE  Service!Next
<1> DEFINE p == Asked(q).payment
           waits == q.kind = "tx" /\ q.method = "sync"
<1>1. /\ request' = [request EXCEPT ![r] = q] /\ request[r] = None
      /\ request \in [Requests -> ClientRequests \cup {None}]
      /\ UNCHANGED <<dual, answer, accepted, mined>>
  BY DEF Arrive, IInv, RequestOK, TypeOK, nodeVars
<1>2. q # None
  BY DEF ClientRequests, EarlyErrors, None
<1>3. ~askedNow[r].arrived
  BY <1>1 DEF askedNow, Asked
<1>4. Asked(q) = [payment |-> p, waits |-> waits, arrived |-> TRUE]
  BY <1>2 DEF Asked
<1>5. p \in SponsoredPayments \cup {None}
  BY DEF Asked, SponsoredPayments
<1>6. waits \in BOOLEAN
  OBVIOUS
<1>. HIDE DEF p, waits
<1>7. askedNow' = [askedNow EXCEPT ![r] = [payment |-> p, waits |-> waits, arrived |-> TRUE]]
  BY <1>1, <1>4 DEF askedNow
<1>8. UNCHANGED <<toldNow, takenNow, Settled>>
  BY <1>1 DEF toldNow, Told, takenNow, Settled
<1>9. Service!Ask(r, p, waits)
  BY <1>3, <1>7, <1>8 DEF Service!Ask, askedNow, toldNow, Told, takenNow, Settled
<1>. QED
  BY <1>5, <1>6, <1>9 DEF Service!Next

LEMMA TakeStep ==
    ASSUME IInv, NEW r \in Requests, NodeAccepts(r)
    PROVE  Service!Next
<1>1. /\ accepted' = accepted \cup {r}
      /\ UNCHANGED <<request, dual, answer, mined>>
  BY DEF NodeAccepts
<1>2. Asked(request[r]).payment = BroadcastPayment[dual[r]]
      /\ BroadcastPayment[dual[r]] \in SponsoredPayments
  <2>1. RequestOK(r) /\ dual[r] # None
    BY DEF NodeAccepts, IInv, RequestOK
  <2>2. Verifies(dual[r])
    BY DEF NodeAccepts, Acceptable, Verifies, Sender
  <2>. QED
    BY <2>1, <2>2, PaymentKept
<1>3. askedNow[r].payment = BroadcastPayment[dual[r]]
  BY <1>2 DEF askedNow
<1>4. takenNow' = takenNow \cup {askedNow[r].payment}
  BY <1>1, <1>3 DEF takenNow
<1>5. UNCHANGED <<askedNow, toldNow, Settled>>
  BY <1>1 DEF askedNow, toldNow, Told, Settled
<1>6. Service!Take(r)
  BY <1>2, <1>3, <1>4, <1>5 DEF Service!Take, askedNow, toldNow, Told, takenNow, Settled
<1>. QED
  BY <1>6 DEF Service!Next

LEMMA SettleStep ==
    ASSUME IInv, NEW w \in pool, Mine(w)
    PROVE  Service!Next
<1> DEFINE p == BroadcastPayment[w]
<1>1. PICK r \in accepted : dual[r] = w
  BY DEF IInv, NodeOK
<1>2. p \in takenNow /\ p \in SponsoredPayments /\ p = Payment(w.list, Sender(w))
  BY <1>1, AcceptedForm, TakenPayment DEF takenNow
<1>3. p.sender = Sender(w) /\ p.body = w.list.body
  BY <1>2 DEF Payment
<1>4. Nonce(p.body) = Cardinality(SettledOf(p.sender))
  BY <1>3, MineStep
<1>5. UNCHANGED <<request, dual, answer, accepted>> /\ mined' = mined \cup {w}
  BY DEF Mine, relayVars
<1>6. Settled' = Settled \cup {p}
  BY <1>5 DEF Settled, BroadcastPayment
<1>7. UNCHANGED <<askedNow, toldNow, takenNow>>
  BY <1>5 DEF askedNow, toldNow, Told, takenNow
<1>. HIDE DEF p
<1>8. Nonce(p.body) =
        Cardinality({q \in {BroadcastPayment[x] : x \in mined} : q.sender = p.sender})
  BY <1>4 DEF SettledOf, Settled
<1>9. Service!Settle(p)
  <2>1. p \in {BroadcastPayment[dual[q]] : q \in accepted}
    BY <1>2 DEF takenNow
  <2>2. {BroadcastPayment[x] : x \in mined}' = {BroadcastPayment[x] : x \in mined} \cup {p}
    BY <1>6 DEF Settled
  <2>. QED
    BY <1>7, <1>8, <2>1, <2>2, ServiceCounts DEF Service!Settle, askedNow, toldNow, Told, takenNow
<1>. QED
  BY <1>2, <1>9 DEF Service!Next

\* Steps of which the service knows nothing.
LEMMA Stutter ==
    ASSUME UNCHANGED <<request, answer, accepted, mined>>,
           \A r \in accepted : dual'[r] = dual[r]
    PROVE  UNCHANGED Service!vars
<1>1. UNCHANGED <<askedNow, toldNow, takenNow, Settled>>
  BY DEF askedNow, toldNow, Told, takenNow, Settled
<1>. QED
  BY <1>1 DEF Service!vars, askedNow, toldNow, Told, takenNow, Settled

LEMMA ServiceStep ==
    ASSUME IInv, IInv', [Next]_vars
    PROVE  [Service!Next]_(Service!vars)
<1> USE DEF relayVars, nodeVars
<1>1. ASSUME NEW r \in Requests,
             AnswerPreflight(r) \/ RejectEarly(r) \/ RefuseTransaction(r)
      PROVE  Service!Next
  <2>1. PICK a : /\ answer' = [answer EXCEPT ![r] = a] /\ a.kind \in {"preflight", "error"}
                 /\ pc[r] = "received" /\ UNCHANGED <<request, dual, accepted, mined>>
    BY <1>1 DEF AnswerPreflight, RejectEarly, RefuseTransaction, Answer, Error
  <2>2. answer' \in [Requests -> Answers] /\ answer \in [Requests -> Answers]
    BY DEF IInv, TypeOK
  <2>3. answer'[r] = a
    BY <2>1, <2>2
  <2>4. a \in Answers
    BY <2>2, <2>3
  <2>. QED
    BY <2>1, <2>4, TellStep
<1>2. ASSUME NEW r \in Requests, Relay(r) PROVE Service!Next
  <2> DEFINE a == IF reply[r].kind = "hash" THEN Result(r, reply[r].hash)
                                            ELSE Error(r, "InternalError")
  <2>1. /\ answer' = [answer EXCEPT ![r] = a] /\ pc[r] = "broadcasting"
        /\ UNCHANGED <<request, dual, accepted, mined>>
    BY <1>2 DEF Relay, Answer
  <2>2. a.kind \in {"result", "error"} /\ (a.kind = "result" => reply[r].kind = "hash")
    BY DEF Result, Error
  <2>3. reply[r].kind = "hash" =>
          r \in accepted /\ (request[r].method = "sync" => dual[r] \in mined)
    BY DEF IInv, RequestOK
  <2>. HIDE DEF a
  <2>4. answer' \in [Requests -> Answers] /\ answer \in [Requests -> Answers]
    BY DEF IInv, TypeOK
  <2>5. answer'[r] = a
    BY <2>1, <2>4
  <2>6. a \in Answers
    BY <2>4, <2>5
  <2>. QED
    BY <2>1, <2>2, <2>3, <2>6, TellStep
<1>3. ASSUME NEW r \in Requests, Broadcast(r) PROVE UNCHANGED Service!vars
  <2>1. r \notin accepted /\ accepted \subseteq Requests
    BY <1>3 DEF Broadcast, IInv, TypeOK, RequestOK
  <2>2. \A q \in accepted : dual'[q] = dual[q]
    BY <1>3, <2>1 DEF Broadcast, IInv, TypeOK
  <2>. QED
    BY <1>3, <2>2, Stutter DEF Broadcast
<1>4. ASSUME NEW r \in Requests,
             CallFails(r) \/ NodeRejects(r) \/ LoseCall(r) \/ ReplyMined(r)
      PROVE  UNCHANGED Service!vars
  BY <1>4, Stutter DEF CallFails, NodeRejects, LoseCall, ReplyMined
<1>5. ASSUME NEW w \in pool, Drop(w) PROVE UNCHANGED Service!vars
  BY <1>5, Stutter DEF Drop
<1>6. CASE UNCHANGED vars
  BY <1>6, Stutter DEF vars
<1>. QED
  BY <1>1, <1>2, <1>3, <1>4, <1>5, <1>6, ArriveStep, TakeStep, SettleStep
     DEF Next, Handler, Node

\* The relay is the sponsorship service, but for the liveness of its answers: from
\* the service's initial state, each of its steps and the node's is the service's or
\* none (server.go:125-305).
THEOREM RelayRefinesSponsorship == Spec => Service!Init /\ [][Service!Next]_(Service!vars)
<1>1. IInv /\ IInv' /\ [Next]_vars => [Service!Next]_(Service!vars)
  BY ServiceStep
<1>. QED
  BY <1>1, ServiceInit, Invariance, PTL DEF Spec
=============================================================================

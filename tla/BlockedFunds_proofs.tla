------------------------- MODULE BlockedFunds_proofs -------------------------
(***************************************************************************)
(* Proofs about BlockedFunds and the batches it uses, for any payments,    *)
(* policies, foreign logs and sizes of batches.                            *)
(*                                                                         *)
(* What the program believes was read by the node an arbitrary number of   *)
(* steps before, in a batch that was answered in some order. The invariant *)
(* says of every answer, from the node's evaluation on, which receipt it   *)
(* is about (ids), and that it stays true while the chain goes on          *)
(* (AnswerOK); the latter needs that a receipt stands for one payment for  *)
(* ever, which its nonce sees to (ChainOK).                                *)
(***************************************************************************)
EXTENDS BlockedFunds, FiniteSetTheorems, SequenceTheorems, TLAPS

-----------------------------------------------------------------------------
(* Receipts and words.                                                     *)

Receipts(r) ==
    r = [version |-> r.version, token |-> r.token,
         recoveryAuthority |-> r.recoveryAuthority, originator |-> r.originator,
         recipient |-> r.recipient, blockedAt |-> r.blockedAt,
         blockedNonce |-> r.blockedNonce, blockedReason |-> r.blockedReason,
         kind |-> r.kind, memo |-> r.memo]

\* The library packs a receipt as the contract does.
LEMMA SameWords == \A r : ContractWords(r) = Encode(r)
<1> SUFFICES ASSUME NEW r PROVE ContractWords(r) = Encode(r)
  OBVIOUS
<1> DEFINE fields == <<r.version, r.token, r.recoveryAuthority, r.originator, r.recipient,
                       r.blockedAt, r.blockedNonce, r.blockedReason, r.kind, r.memo>>
<1>1. /\ fields[1] = r.version /\ fields[2] = r.token /\ fields[3] = r.recoveryAuthority
      /\ fields[4] = r.originator /\ fields[5] = r.recipient /\ fields[6] = r.blockedAt
      /\ fields[7] = r.blockedNonce /\ fields[8] = r.blockedReason /\ fields[9] = r.kind
      /\ fields[10] = r.memo
  OBVIOUS
<1>2. ContractWords(r) = [i \in 1..10 |-> Word(fields[i])]
  BY DEF ContractWords
<1>. HIDE DEF fields
<1>3. \A i \in 1..10 : Encode(r)[i] = Word(fields[i])
  BY <1>1 DEF Encode
<1>4. Encode(r) = [i \in 1..10 |-> Encode(r)[i]]
  BY DEF Encode
<1>. QED
  BY <1>2, <1>3, <1>4

LEMMA EncodedForm ==
    ASSUME NEW r
    PROVE  /\ Encode(r) # <<>> /\ Len(Encode(r)) = 10
           /\ Encode(r)[1] = Word(r.version) /\ Encode(r)[2] = Word(r.token)
           /\ Encode(r)[3] = Word(r.recoveryAuthority) /\ Encode(r)[4] = Word(r.originator)
           /\ Encode(r)[5] = Word(r.recipient) /\ Encode(r)[6] = Word(r.blockedAt)
           /\ Encode(r)[7] = Word(r.blockedNonce) /\ Encode(r)[8] = Word(r.blockedReason)
           /\ Encode(r)[9] = Word(r.kind) /\ Encode(r)[10] = Word(r.memo)
  BY DEF Encode

\* A receipt is decoded as what was encoded.
LEMMA DecodeEncode ==
    ASSUME NEW r, Receipts(r)
    PROVE  DecodeClaimReceiptV1(Encode(r)) = r
<1>1. \A v : Word(v).val = v
  BY DEF Word
<1>. QED
  BY <1>1, EncodedForm DEF DecodeClaimReceiptV1, Receipts

LEMMA EncodedIsDecodable ==
    ASSUME NEW r, r.version = 1
    PROVE  Decodable(Encode(r))
<1>1. \A v : Word(v).val = v /\ Word(v).high = FALSE
  BY DEF Word
<1>2. PICK words : words = Encode(r)
  OBVIOUS
<1>3. /\ Len(words) = 10 /\ words[1] = Word(1) /\ words[6] = Word(r.blockedAt)
      /\ words[7] = Word(r.blockedNonce) /\ words[8] = Word(r.blockedReason)
      /\ words[9] = Word(r.kind)
  BY <1>2, EncodedForm
<1>4. words[1].val = 1 /\ \A i \in {1, 6, 7, 8, 9} : words[i].high = FALSE
  BY <1>1, <1>3
<1>5. Decodable(words)
  BY <1>3, <1>4 DEF Decodable, ReceiptVersion
<1>. QED
  BY <1>2, <1>5

-----------------------------------------------------------------------------
(* The chain.                                                              *)

Blocked == {p \in Payments : receiptOf[p] # <<>>}

\* The receipt that the guard issues for a payment.
ReceiptFor(p, r) ==
    /\ Receipts(r) /\ r.version = 1 /\ r.token = Payment(p).token
    /\ r.originator = Payment(p).from /\ r.recipient = Account
    /\ r.blockedReason \in 1..2 /\ r.kind = Payment(p).kind

ChainOK ==
    /\ policy \in Policies
    /\ fate \in [Payments -> {"unsent", "credited", "held", "recovered"}]
    /\ receiptOf = [p \in Payments |-> receiptOf[p]]
    /\ IsFiniteSet(Blocked)
    /\ \A p \in Payments :
          \/ receiptOf[p] = <<>> /\ fate[p] \in {"unsent", "credited"}
          \/ /\ fate[p] \in {"held", "recovered"}
             /\ \E r : /\ receiptOf[p] = Encode(r) /\ ReceiptFor(p, r)
                       /\ r.blockedNonce \in 0..(Cardinality(Blocked) - 1)
    /\ \A p, q \in Blocked : receiptOf[p][7] = receiptOf[q][7] => p = q

LEMMA InitChain == Init => ChainOK
<1> SUFFICES ASSUME Init PROVE ChainOK
  OBVIOUS
<1>1. \A p \in Payments : receiptOf[p] = <<>> /\ fate[p] = "unsent"
  BY DEF Init
<1>2. Blocked = {}
  BY <1>1 DEF Blocked
<1>. QED
  BY <1>1, <1>2, FS_EmptySet DEF Init, ChainOK

LEMMA PayChain ==
    ASSUME ChainOK, NEW p \in Payments, Pay(p)
    PROVE  ChainOK'
<1>1. /\ fate[p] = "unsent" /\ receiptOf[p] = <<>> /\ policy' = policy /\ policy \in Policies
      /\ fate \in [Payments -> {"unsent", "credited", "held", "recovered"}]
      /\ receiptOf = [q \in Payments |-> receiptOf[q]]
  BY DEF ChainOK, Pay
<1>2. CASE BlockedReason = 0
  <2>1. fate' = [fate EXCEPT ![p] = "credited"] /\ receiptOf' = receiptOf
    BY <1>2 DEF Pay
  <2>2. Blocked' = Blocked
    BY <2>1 DEF Blocked
  <2>3. \A q \in Payments : fate'[q] = IF q = p THEN "credited" ELSE fate[q]
    BY <1>1, <2>1
  <2>4. fate' \in [Payments -> {"unsent", "credited", "held", "recovered"}]
    BY <1>1, <2>1
  <2>5. \A q \in Payments :
          \/ receiptOf'[q] = <<>> /\ fate'[q] \in {"unsent", "credited"}
          \/ /\ fate'[q] \in {"held", "recovered"}
             /\ \E r : /\ receiptOf'[q] = Encode(r) /\ ReceiptFor(q, r)
                       /\ r.blockedNonce \in 0..(Cardinality(Blocked') - 1)
    BY <1>1, <2>1, <2>2, <2>3 DEF ChainOK
  <2>. QED
    BY <1>1, <2>1, <2>2, <2>4, <2>5 DEF ChainOK
<1>3. CASE BlockedReason # 0
  <2> DEFINE new == Receipt(p)
             n == Cardinality(Blocked)
  <2>1. /\ fate' = [fate EXCEPT ![p] = "held"]
        /\ receiptOf' = [receiptOf EXCEPT ![p] = Encode(new)]
    BY <1>3, SameWords DEF Pay
  <2>2. ReceiptFor(p, new) /\ new.blockedNonce = n
    <3>1. BlockedReason \in 1..2
      BY <1>3 DEF BlockedReason
    <3>. QED
      BY <3>1 DEF Receipt, Receipts, ReceiptFor, BlockedNonce, Blocked
  <2>. HIDE DEF new
  <2>3. \A q \in Payments : receiptOf'[q] = IF q = p THEN Encode(new) ELSE receiptOf[q]
    BY <1>1, <2>1
  <2>4. p \notin Blocked /\ Blocked' = Blocked \cup {p}
    BY <1>1, <2>3, EncodedForm DEF Blocked
  <2>5. IsFiniteSet(Blocked') /\ Cardinality(Blocked') = n + 1 /\ n \in Nat
    BY <2>4, FS_AddElement, FS_CardinalityType DEF ChainOK
  <2>6. fate' \in [Payments -> {"unsent", "credited", "held", "recovered"}]
        /\ \A q \in Payments : fate'[q] = IF q = p THEN "held" ELSE fate[q]
    BY <1>1, <2>1
  <2>7. \A q \in Payments :
          \/ receiptOf'[q] = <<>> /\ fate'[q] \in {"unsent", "credited"}
          \/ /\ fate'[q] \in {"held", "recovered"}
             /\ \E r : /\ receiptOf'[q] = Encode(r) /\ ReceiptFor(q, r)
                       /\ r.blockedNonce \in 0..(Cardinality(Blocked') - 1)
    <3>1. ASSUME NEW q \in Payments, q # p, receiptOf[q] # <<>>
          PROVE  /\ fate'[q] \in {"held", "recovered"}
                 /\ \E r : /\ receiptOf'[q] = Encode(r) /\ ReceiptFor(q, r)
                           /\ r.blockedNonce \in 0..(Cardinality(Blocked') - 1)
      <4>1. fate[q] \in {"held", "recovered"}
        BY <3>1 DEF ChainOK
      <4>2. PICK r : /\ receiptOf[q] = Encode(r) /\ ReceiptFor(q, r)
                     /\ r.blockedNonce \in 0..(n - 1)
        BY <3>1 DEF ChainOK
      <4>3. r.blockedNonce \in 0..(Cardinality(Blocked') - 1)
        BY <2>5, <4>2
      <4>. QED
        BY <2>3, <2>6, <3>1, <4>1, <4>2, <4>3
    <3>2. /\ fate'[p] \in {"held", "recovered"}
          /\ receiptOf'[p] = Encode(new) /\ ReceiptFor(p, new)
          /\ new.blockedNonce \in 0..(Cardinality(Blocked') - 1)
      BY <2>2, <2>3, <2>5, <2>6
    <3>3. ASSUME NEW q \in Payments, q # p, receiptOf[q] = <<>>
          PROVE  receiptOf'[q] = <<>> /\ fate'[q] \in {"unsent", "credited"}
      BY <2>3, <2>6, <3>3, EncodedForm DEF ChainOK
    <3>. QED
      BY <3>1, <3>2, <3>3
  <2>8. ASSUME NEW q \in Blocked PROVE receiptOf[q][7] # Word(n)
    <3>1. PICK r : receiptOf[q] = Encode(r) /\ r.blockedNonce \in 0..(n - 1)
      BY <2>8 DEF ChainOK, Blocked
    <3>2. receiptOf[q][7] = Word(r.blockedNonce) /\ r.blockedNonce # n
      BY <2>5, <3>1, EncodedForm
    <3>. QED
      BY <3>2 DEF Word
  <2>9. \A q1, q2 \in Blocked' : receiptOf'[q1][7] = receiptOf'[q2][7] => q1 = q2
    <3>1. Encode(new)[7] = Word(n)
      BY <2>2, EncodedForm
    <3>2. \A q \in Blocked : q \in Payments /\ q # p /\ receiptOf'[q] = receiptOf[q]
      BY <2>3, <2>4 DEF Blocked
    <3>3. receiptOf'[p] = Encode(new)
      BY <2>3
    <3>. HIDE DEF n
    <3>4. \A q1, q2 \in Blocked : receiptOf[q1][7] = receiptOf[q2][7] => q1 = q2
      BY DEF ChainOK
    <3>. QED
      BY <2>4, <2>8, <3>1, <3>2, <3>3, <3>4
  <2>10. receiptOf' = [q \in Payments |-> receiptOf'[q]]
    BY <1>1, <2>1
  <2>. QED
    BY <1>1, <2>5, <2>6, <2>7, <2>9, <2>10 DEF ChainOK
<1>. QED
  BY <1>2, <1>3

\* What happens on the chain: a receipt stays what it is, and what the guard no longer
\* holds it never holds again.
GoesOn ==
    \A p \in Payments : receiptOf[p] # <<>> =>
        receiptOf'[p] = receiptOf[p] /\ (fate[p] # "held" => fate'[p] # "held")

LEMMA RecoverChain ==
    ASSUME ChainOK, policy' \in Policies, receiptOf' = receiptOf,
           fate' \in [Payments -> {"unsent", "credited", "held", "recovered"}],
           \A p \in Payments : \/ fate'[p] = fate[p]
                               \/ fate[p] = "held" /\ fate'[p] = "recovered"
    PROVE  ChainOK' /\ GoesOn
<1>1. Blocked' = Blocked
  BY DEF Blocked
<1>2. \A p \in Payments :
          \/ receiptOf'[p] = <<>> /\ fate'[p] \in {"unsent", "credited"}
          \/ /\ fate'[p] \in {"held", "recovered"}
             /\ \E r : /\ receiptOf'[p] = Encode(r) /\ ReceiptFor(p, r)
                       /\ r.blockedNonce \in 0..(Cardinality(Blocked') - 1)
  <2>1. ASSUME NEW p \in Payments, receiptOf[p] = <<>>
        PROVE  receiptOf'[p] = <<>> /\ fate'[p] \in {"unsent", "credited"}
    BY <2>1, EncodedForm DEF ChainOK
  <2>2. ASSUME NEW p \in Payments, receiptOf[p] # <<>>
        PROVE  /\ fate'[p] \in {"held", "recovered"}
               /\ \E r : /\ receiptOf'[p] = Encode(r) /\ ReceiptFor(p, r)
                         /\ r.blockedNonce \in 0..(Cardinality(Blocked') - 1)
    BY <1>1, <2>2 DEF ChainOK
  <2>. QED
    BY <2>1, <2>2
<1>3. \A p, q \in Blocked' : receiptOf'[p][7] = receiptOf'[q][7] => p = q
  BY <1>1 DEF ChainOK
<1>4. receiptOf' = [p \in Payments |-> receiptOf'[p]] /\ IsFiniteSet(Blocked')
  BY <1>1 DEF ChainOK
<1>5. GoesOn
  BY DEF GoesOn
<1>. QED
  BY <1>2, <1>3, <1>4, <1>5 DEF ChainOK

ChainStep ==
    \/ \E new \in Policies : SetReceivePolicy(new)
    \/ \E p \in Payments : Pay(p) \/ OtherRecovers(p)
    \/ \E c \in claims : GuardExecutes(c)
    \/ UNCHANGED chainVars

LEMMA ChainStepChain == ChainOK /\ ChainStep => ChainOK' /\ GoesOn
<1> SUFFICES ASSUME ChainOK, ChainStep PROVE ChainOK' /\ GoesOn
  OBVIOUS
<1>0. /\ policy \in Policies
      /\ fate \in [Payments -> {"unsent", "credited", "held", "recovered"}]
      /\ receiptOf = [q \in Payments |-> receiptOf[q]]
  BY DEF ChainOK
<1>1. ASSUME NEW new \in Policies, SetReceivePolicy(new) PROVE ChainOK' /\ GoesOn
  BY <1>0, <1>1, RecoverChain DEF SetReceivePolicy
<1>2. ASSUME NEW p \in Payments, Pay(p) PROVE ChainOK' /\ GoesOn
  <2>1. fate[p] = "unsent" /\ receiptOf[p] = <<>>
    BY <1>2 DEF Pay, ChainOK
  <2>2. \A q \in Payments : q # p => receiptOf'[q] = receiptOf[q] /\ fate'[q] = fate[q]
    BY <1>0, <1>2 DEF Pay
  <2>3. GoesOn
    BY <2>1, <2>2 DEF GoesOn
  <2>. QED
    BY <1>2, <2>3, PayChain
<1>3. ASSUME NEW p \in Payments, OtherRecovers(p) PROVE ChainOK' /\ GoesOn
  <2>1. /\ policy' = policy /\ receiptOf' = receiptOf
        /\ fate[p] = "held" /\ fate' = [fate EXCEPT ![p] = "recovered"]
    BY <1>3 DEF OtherRecovers
  <2>2. /\ fate' \in [Payments -> {"unsent", "credited", "held", "recovered"}]
        /\ \A q \in Payments : \/ fate'[q] = fate[q]
                               \/ fate[q] = "held" /\ fate'[q] = "recovered"
    BY <1>0, <2>1
  <2>. QED
    BY <1>0, <2>1, <2>2, RecoverChain
<1>4. ASSUME NEW c \in claims, GuardExecutes(c) PROVE ChainOK' /\ GoesOn
  <2> DEFINE Executed(p) == /\ fate[p] = "held" /\ receiptOf[p] = c.receipt
                            /\ Claimer(c.receipt) = Watcher
  <2>1. /\ policy' = policy /\ receiptOf' = receiptOf
        /\ fate' = [p \in Payments |-> IF Executed(p) THEN "recovered" ELSE fate[p]]
    BY <1>4 DEF GuardExecutes
  <2>2. \A p \in Payments : Executed(p) => fate[p] = "held"
    OBVIOUS
  <2>. HIDE DEF Executed
  <2>3. /\ fate' \in [Payments -> {"unsent", "credited", "held", "recovered"}]
        /\ \A p \in Payments : \/ fate'[p] = fate[p]
                               \/ fate[p] = "held" /\ fate'[p] = "recovered"
    BY <1>0, <2>1, <2>2
  <2>. QED
    BY <1>0, <2>1, <2>3, RecoverChain
<1>5. CASE UNCHANGED chainVars
  BY <1>0, <1>5, RecoverChain DEF chainVars
<1>. QED
  BY <1>1, <1>2, <1>3, <1>4, <1>5 DEF ChainStep

-----------------------------------------------------------------------------
(* Answers.                                                                *)

\* A receipt that the guard has issued or another contract made up.
Known(words) ==
    words # <<>> /\ (MadeUp(words) \/ \E p \in Payments : receiptOf[p] = words)

\* What may be believed of a receipt's balance.
Belongs(answer, words) ==
    \/ answer = 0 /\ (HeldFor(words) = 0 \/ MadeUp(words))
    \/ \E p \in Payments : receiptOf[p] = words /\ answer = Payment(p).amount

LEMMA HeldForOne ==
    ASSUME NEW p \in Payments, NEW R,
           \A q \in Payments : R[q] = R[p] => q = p
    PROVE  (CHOOSE q \in Payments : R[q] = R[p]) = p
  OBVIOUS

\* What is known and what is believed of it stay true while the chain goes on.
LEMMA AnswersLast ==
    ASSUME ChainOK, ChainOK', GoesOn
    PROVE  \A words : Known(words) =>
              /\ Known(words)'
              /\ \A answer : Belongs(answer, words) => Belongs(answer, words)'
<1> SUFFICES ASSUME NEW words, Known(words)
             PROVE  /\ Known(words)'
                    /\ \A answer : Belongs(answer, words) => Belongs(answer, words)'
  OBVIOUS
<1>1. ASSUME NEW p \in Payments, receiptOf[p] = words PROVE receiptOf'[p] = words
  BY <1>1 DEF GoesOn, Known
<1>2. Known(words)'
  BY <1>1 DEF Known, MadeUp
<1>3. ASSUME NEW answer, Belongs(answer, words) PROVE Belongs(answer, words)'
  <2>1. CASE \E p \in Payments : receiptOf[p] = words /\ answer = Payment(p).amount
    BY <1>1, <2>1 DEF Belongs
  <2>2. CASE answer = 0 /\ MadeUp(words)
    BY <2>2 DEF Belongs, MadeUp
  <2>3. CASE answer = 0 /\ ~MadeUp(words) /\ HeldFor(words) = 0
    <3>1. PICK p \in Payments : receiptOf[p] = words /\ words # <<>>
      BY <2>3 DEF Known
    <3>2. receiptOf'[p] = words
      BY <1>1, <3>1
    <3>3. \A q \in Payments : receiptOf[q] = receiptOf[p] => q = p
      BY <3>1 DEF ChainOK, Blocked
    <3>4. \A q \in Payments : receiptOf'[q] = receiptOf'[p] => q = p
      BY <3>1, <3>2 DEF ChainOK, Blocked
    <3>5. (CHOOSE q \in Payments : receiptOf[q] = receiptOf[p]) = p
      BY <3>3, HeldForOne
    <3>6. (CHOOSE q \in Payments : receiptOf'[q] = receiptOf'[p]) = p
      BY <3>4, HeldForOne
    <3>7. HeldFor(words) = Held(p)
      BY <3>1, <3>5 DEF HeldFor
    <3>8. HeldFor(words)' = Held(p)'
      BY <3>2, <3>6 DEF HeldFor
    <3>9. fate[p] # "held"
      BY <2>3, <3>7, PaymentAssumption DEF Held
    <3>10. fate'[p] # "held"
      BY <3>1, <3>9 DEF GoesOn
    <3>11. HeldFor(words)' = 0
      BY <3>8, <3>10 DEF Held
    <3>. QED
      BY <2>3, <3>11 DEF Belongs
  <2>. QED
    BY <1>3, <2>1, <2>2, <2>3 DEF Belongs
<1>. QED
  BY <1>2, <1>3

\* What the node computes is true when it does.
LEMMA BalanceBelongs ==
    ASSUME ChainOK, NEW words, Known(words)
    PROVE  Belongs(HeldFor(words), words)
<1>1. CASE \E p \in Payments : receiptOf[p] = words
  <2>1. PICK p \in Payments : receiptOf[p] = words /\ words # <<>>
    BY <1>1 DEF Known
  <2>2. \A q \in Payments : receiptOf[q] = receiptOf[p] => q = p
    BY <2>1 DEF ChainOK, Blocked
  <2>3. (CHOOSE q \in Payments : receiptOf[q] = receiptOf[p]) = p
    BY <2>2, HeldForOne
  <2>4. HeldFor(words) = Held(p)
    BY <2>1, <2>3 DEF HeldFor
  <2>. QED
    BY <2>1, <2>4 DEF Held, Belongs
<1>2. CASE ~\E p \in Payments : receiptOf[p] = words
  BY <1>2 DEF Belongs, HeldFor
<1>. QED
  BY <1>1, <1>2

-----------------------------------------------------------------------------
(* The program and its batches.                                            *)

QueryOK(query) ==
    \/ query = ReceivePolicyCall(Account)
    \/ \E words : query = BalanceOf(words) /\ Known(words)

AnswerOK(query, response) ==
    query.method = "balanceOf" =>
        \/ response = <<>>
        \/ \E v : response = <<Word(v)>> /\ Belongs(v, query.receipt)

TrackedOK ==
    \A r \in tracked : /\ Encodable(r) /\ r.blockedReason \in Nat /\ r.kind \in Nat
                       /\ Known(Encode(r))

\* The ids of a batch are the positions of its requests.
RequestsOK ==
    /\ \E S : requests \in Seq(S)
    /\ Len(requests) <= MaxRequests /\ nextID = Len(requests) + 1
    /\ \A i \in DOMAIN requests : requests[i].id = i /\ QueryOK(requests[i].query)

\* What the node has ready and what it sent belong to a request of the batch.
ResponsesOK ==
    /\ \A e \in evaluated :
          /\ e.at \in DOMAIN requests /\ e.id = e.at
          /\ AnswerOK(requests[e.at].query, e.response)
    /\ \A e, f \in evaluated : e.at = f.at => e = f
    /\ \E S : responses \in Seq(S)
    /\ Len(responses) <= Len(requests)
    /\ \A i \in DOMAIN responses :
          /\ responses[i].id \in DOMAIN requests
          /\ AnswerOK(requests[responses[i].id].query, responses[i].response)

CallOK ==
    /\ call \in {"idle", "sent", "returned", "failed"}
    /\ call # "sent" => evaluated = {}
    /\ call \in {"idle", "sent"} => responses = <<>>

BeliefOK ==
    \A b \in belief : b.query.method = "balanceOf" =>
        Known(b.query.receipt) /\ Belongs(b.answer, b.query.receipt)

ClaimsOK ==
    \A c \in claims : \E p \in Payments :
        receiptOf[p] = c.receipt /\ receiptOf[p] # <<>> /\ Claimer(receiptOf[p]) = Watcher

IInv == ChainOK /\ TrackedOK /\ RequestsOK /\ ResponsesOK /\ CallOK /\ BeliefOK /\ ClaimsOK

\* What was asked and answered is as good later on.
LEMMA QueriesLast ==
    ASSUME ChainOK, ChainOK', GoesOn
    PROVE  \A query : QueryOK(query) =>
              /\ QueryOK(query)'
              /\ \A response : AnswerOK(query, response) => AnswerOK(query, response)'
<1> SUFFICES ASSUME NEW query, QueryOK(query)
             PROVE  /\ QueryOK(query)'
                    /\ \A response : AnswerOK(query, response) => AnswerOK(query, response)'
  OBVIOUS
<1>1. CASE query = ReceivePolicyCall(Account)
  BY <1>1 DEF QueryOK, AnswerOK, ReceivePolicyCall
<1>2. ASSUME NEW words, query = BalanceOf(words), Known(words)
      PROVE  /\ QueryOK(query)'
             /\ \A response : AnswerOK(query, response) => AnswerOK(query, response)'
  <2>1. Known(words)' /\ \A v : Belongs(v, words) => Belongs(v, words)'
    BY <1>2, AnswersLast
  <2>2. query.receipt = words
    BY <1>2 DEF BalanceOf
  <2>3. QueryOK(query)'
    BY <1>2, <2>1 DEF QueryOK
  <2>4. ASSUME NEW response, AnswerOK(query, response) PROVE AnswerOK(query, response)'
    <3>1. SUFFICES ASSUME query.method = "balanceOf", response # <<>>
                   PROVE  \E v : response = <<Word(v)>> /\ Belongs(v, words)'
      BY <2>2 DEF AnswerOK
    <3>2. PICK v : response = <<Word(v)>> /\ Belongs(v, words)
      BY <2>2, <2>4, <3>1 DEF AnswerOK
    <3>. QED
      BY <2>1, <3>2
  <2>. QED
    BY <2>3, <2>4
<1>. QED
  BY <1>1, <1>2 DEF QueryOK

\* A step that leaves the batch, the receipts and the beliefs alone.
LEMMA OldStaysGood ==
    ASSUME IInv, ChainOK', GoesOn
    PROVE  /\ tracked' = tracked => TrackedOK'
           /\ requests' = requests /\ nextID' = nextID => RequestsOK'
           /\ UNCHANGED batchVars => RequestsOK' /\ ResponsesOK' /\ CallOK'
           /\ belief' \subseteq belief => BeliefOK'
           /\ claims' \subseteq claims => ClaimsOK'
<1> USE DEF IInv
<1>1. \A words : Known(words) =>
              /\ Known(words)'
              /\ \A answer : Belongs(answer, words) => Belongs(answer, words)'
  BY AnswersLast
<1>2. \A query : QueryOK(query) =>
              /\ QueryOK(query)'
              /\ \A response : AnswerOK(query, response) => AnswerOK(query, response)'
  BY QueriesLast
<1>3. ASSUME tracked' = tracked PROVE TrackedOK'
  BY <1>1, <1>3 DEF TrackedOK
<1>4. ASSUME requests' = requests, nextID' = nextID PROVE RequestsOK'
  BY <1>2, <1>4 DEF RequestsOK
<1>5. ASSUME UNCHANGED batchVars PROVE RequestsOK' /\ ResponsesOK' /\ CallOK'
  <2>1. /\ requests' = requests /\ nextID' = nextID /\ call' = call
        /\ evaluated' = evaluated /\ responses' = responses
    BY <1>5 DEF batchVars
  <2>2. \A i \in DOMAIN requests : QueryOK(requests[i].query)
    BY DEF RequestsOK
  <2>3. \A i \in DOMAIN requests : \A response :
            AnswerOK(requests[i].query, response) => AnswerOK(requests[i].query, response)'
    <3>1. ASSUME NEW i \in DOMAIN requests, NEW response, AnswerOK(requests[i].query, response)
          PROVE  AnswerOK(requests[i].query, response)'
      <4>1. PICK query : query = requests[i].query
        OBVIOUS
      <4>2. AnswerOK(query, response)'
        BY <1>2, <2>2, <3>1, <4>1
      <4>3. query = requests'[i].query
        BY <2>1, <4>1
      <4>. QED
        BY <4>2, <4>3 DEF AnswerOK
    <3>. QED
      BY <3>1
  <2>4. ResponsesOK'
    BY <2>1, <2>3 DEF ResponsesOK
  <2>5. CallOK'
    BY <2>1 DEF CallOK
  <2>. QED
    BY <1>4, <2>1, <2>4, <2>5
<1>6. ASSUME belief' \subseteq belief PROVE BeliefOK'
  BY <1>1, <1>6 DEF BeliefOK
<1>7. ASSUME claims' \subseteq claims PROVE ClaimsOK'
  <2> SUFFICES ASSUME NEW c \in claims'
               PROVE  \E p \in Payments : /\ receiptOf'[p] = c.receipt /\ receiptOf'[p] # <<>>
                                          /\ Claimer(receiptOf'[p]) = Watcher
    BY DEF ClaimsOK, Claimer
  <2>1. PICK p \in Payments : /\ receiptOf[p] = c.receipt /\ receiptOf[p] # <<>>
                              /\ Claimer(receiptOf[p]) = Watcher
    BY <1>7 DEF ClaimsOK
  <2>2. receiptOf'[p] = receiptOf[p]
    BY <2>1 DEF GoesOn
  <2>. QED
    BY <2>1, <2>2
<1>. QED
  BY <1>3, <1>4, <1>5, <1>6, <1>7

LEMMA InitIInv == Init => IInv
<1> SUFFICES ASSUME Init PROVE IInv
  OBVIOUS
<1>1. /\ requests = <<>> /\ responses = <<>> /\ evaluated = {} /\ call = "idle" /\ nextID = 1
      /\ tracked = {} /\ belief = {} /\ claims = {}
  BY DEF Init, BatchInit
<1>2. requests \in Seq({}) /\ responses \in Seq({}) /\ Len(requests) = 0 /\ Len(responses) = 0
      /\ DOMAIN requests = {} /\ DOMAIN responses = {}
  BY <1>1, EmptySeq
<1>3. RequestsOK
  BY <1>1, <1>2, BatchAssumption DEF RequestsOK
<1>4. ResponsesOK
  BY <1>1, <1>2 DEF ResponsesOK
<1>. QED
  BY <1>1, <1>3, <1>4, InitChain DEF IInv, TrackedOK, CallOK, BeliefOK, ClaimsOK

LEMMA ChainStepsIInv ==
    ASSUME IInv, ChainStep, UNCHANGED <<tracked, belief, batchVars>>, claims' \subseteq claims
    PROVE  IInv'
  BY ChainStepChain, OldStaysGood DEF IInv

\* A step of the program or of a batch, as far as the chain is concerned.
LEMMA ChainStays ==
    ASSUME IInv, UNCHANGED chainVars
    PROVE  /\ ChainOK' /\ GoesOn
           /\ \A words : (Known(words)' <=> Known(words))
                /\ \A v : Belongs(v, words)' <=> Belongs(v, words)
<1>1. ChainOK' /\ GoesOn
  BY ChainStepChain DEF IInv, ChainStep
<1>2. receiptOf' = receiptOf /\ fate' = fate
  BY DEF chainVars
<1>. QED
  BY <1>1, <1>2 DEF Known, Belongs, MadeUp, HeldFor, Held

\* What a log of the guard says is what the guard issued.
LEMMA WatchedIsKnown ==
    ASSUME ChainOK, NEW log \in Logs, Decodable(log.receipt),
           Encodable(DecodeClaimReceiptV1(log.receipt))
    PROVE  LET r == DecodeClaimReceiptV1(log.receipt)
           IN  r.blockedReason \in Nat /\ r.kind \in Nat /\ Known(Encode(r))
<1>1. CASE log \in ForeignLogs
  <2>1. MadeUp(Encode(DecodeClaimReceiptV1(log.receipt)))
    BY <1>1 DEF MadeUp
  <2>2. Len(log.receipt) = 10
    BY DEF Decodable
  <2>3. log.receipt[8].val \in Nat /\ log.receipt[9].val \in Nat
    BY <1>1, <2>2, LogAssumption
  <2>. QED
    BY <2>1, <2>3, EncodedForm DEF Known, DecodeClaimReceiptV1
<1>2. ASSUME NEW p \in Payments, receiptOf[p] # <<>>, log = Log(p)
      PROVE  LET r == DecodeClaimReceiptV1(log.receipt)
             IN  r.blockedReason \in Nat /\ r.kind \in Nat /\ Known(Encode(r))
  <2>1. PICK r : receiptOf[p] = Encode(r) /\ ReceiptFor(p, r)
    BY <1>2 DEF ChainOK
  <2>2. log.receipt = Encode(r)
    BY <1>2, <2>1 DEF Log
  <2>3. DecodeClaimReceiptV1(log.receipt) = r
    BY <2>1, <2>2, DecodeEncode DEF ReceiptFor
  <2>4. r.blockedReason \in Nat /\ r.kind \in Nat
    BY <2>1, PaymentAssumption DEF ReceiptFor
  <2>5. Known(Encode(r))
    BY <2>1, EncodedForm DEF Known
  <2>. QED
    BY <2>3, <2>4, <2>5
<1>. QED
  BY <1>1, <1>2 DEF Logs

LEMMA WatchIInv ==
    ASSUME IInv, NEW log \in Logs, Watch(log)
    PROVE  IInv'
<1> DEFINE r == DecodeClaimReceiptV1(log.receipt)
<1>1. /\ Decodable(log.receipt) /\ Encodable(r) /\ tracked' = tracked \cup {r}
      /\ belief' = belief /\ claims' = claims /\ UNCHANGED batchVars /\ UNCHANGED chainVars
  BY DEF Watch, DecodeTransferBlocked
<1>2. r.blockedReason \in Nat /\ r.kind \in Nat /\ Known(Encode(r))
  BY <1>1, WatchedIsKnown DEF IInv
<1>. HIDE DEF r
<1>3. /\ ChainOK' /\ GoesOn
      /\ \A words : (Known(words)' <=> Known(words))
  BY <1>1, ChainStays
<1>4. TrackedOK'
  <2> SUFFICES ASSUME NEW s \in tracked'
               PROVE  /\ Encodable(s) /\ s.blockedReason \in Nat /\ s.kind \in Nat
                      /\ Known(Encode(s))'
    BY DEF TrackedOK
  <2>1. Encodable(s) /\ s.blockedReason \in Nat /\ s.kind \in Nat /\ Known(Encode(s))
    BY <1>1, <1>2 DEF IInv, TrackedOK
  <2>. QED
    BY <1>3, <2>1
<1>. QED
  BY <1>1, <1>3, <1>4, OldStaysGood DEF IInv

LEMMA AskIInv ==
    ASSUME IInv, NEW query, Ask(query)
    PROVE  IInv'
<1>1. /\ query \in {ReceivePolicyCall(Account)} \cup {BalanceOf(Encode(r)) : r \in tracked}
      /\ call = "idle" /\ Len(requests) < MaxRequests
      /\ requests' = Append(requests, [id |-> nextID, query |-> query]) /\ nextID' = nextID + 1
      /\ call' = call /\ evaluated' = evaluated /\ responses' = responses
      /\ belief' = {} /\ tracked' = tracked /\ claims' = claims /\ UNCHANGED chainVars
  BY DEF Ask, Add
<1>2. QueryOK(query)
  BY <1>1 DEF QueryOK, IInv, TrackedOK
<1>3. ChainOK' /\ GoesOn
  BY <1>1, ChainStays
<1>4. \A q : QueryOK(q) => QueryOK(q)'
  BY <1>3, QueriesLast DEF IInv
<1>5. PICK S : requests \in Seq(S)
  BY DEF IInv, RequestsOK
<1>6. Len(requests) \in Nat /\ DOMAIN requests = 1..Len(requests) /\ nextID = Len(requests) + 1
  BY <1>5, LenProperties DEF IInv, RequestsOK
<1>7. PICK new : new = [id |-> nextID, query |-> query]
  OBVIOUS
<1>8. /\ requests' \in Seq(S \cup {new}) /\ Len(requests') = Len(requests) + 1
      /\ \A i \in 1..Len(requests) : requests'[i] = requests[i]
      /\ requests'[Len(requests) + 1] = new
  <2>1. requests \in Seq(S \cup {new})
    BY <1>5, <1>6, ElementOfSeq, SeqDef
  <2>2. requests' = Append(requests, new)
    BY <1>1, <1>7
  <2>. QED
    BY <2>1, <2>2, AppendProperties
<1>9. DOMAIN requests' = 1..(Len(requests) + 1)
  BY <1>6, <1>8, LenProperties
<1>10. ASSUME NEW i \in DOMAIN requests'
       PROVE  (requests[i].id = i /\ QueryOK(requests[i].query))'
  <2>1. PICK q : q = requests'[i].query
    OBVIOUS
  <2>2. requests'[i].id = i /\ QueryOK(q)
    <3>1. CASE i \in 1..Len(requests)
      BY <1>6, <1>8, <2>1, <3>1 DEF IInv, RequestsOK
    <3>2. CASE i = Len(requests) + 1
      BY <1>2, <1>6, <1>7, <1>8, <2>1, <3>2
    <3>. QED
      BY <1>6, <1>9, <3>1, <3>2
  <2>3. QueryOK(q)'
    BY <1>4, <2>2
  <2>. QED
    BY <2>1, <2>2, <2>3 DEF QueryOK
<1>11. RequestsOK'
  BY <1>1, <1>6, <1>8, <1>10, BatchAssumption DEF RequestsOK
<1>12. ResponsesOK' /\ CallOK'
  <2>1. evaluated' = {} /\ responses' = <<>> /\ call' = "idle"
    BY <1>1 DEF IInv, CallOK
  <2>2. responses' \in Seq({}) /\ Len(responses') = 0 /\ DOMAIN responses' = {}
    BY <2>1, EmptySeq
  <2>. QED
    BY <1>6, <1>8, <2>1, <2>2 DEF ResponsesOK, CallOK
<1>. QED
  BY <1>1, <1>3, <1>11, <1>12, OldStaysGood DEF IInv

\* Without the node's responses there is nothing to be wrong with a batch.
LEMMA NoResponses ==
    ASSUME RequestsOK', evaluated' = {}, responses' = <<>>
    PROVE  ResponsesOK'
<1>1. responses' \in Seq({}) /\ Len(responses') = 0 /\ DOMAIN responses' = {}
  BY EmptySeq
<1>2. Len(requests') \in Nat
  BY LenProperties DEF RequestsOK
<1>. QED
  BY <1>1, <1>2 DEF ResponsesOK

LEMMA ResetBatch ==
    ASSUME NewBatchRequest
    PROVE  RequestsOK' /\ ResponsesOK' /\ CallOK'
<1>1. /\ requests' = <<>> /\ nextID' = 1 /\ call' = "idle" /\ evaluated' = {} /\ responses' = <<>>
  BY DEF NewBatchRequest
<1>2. requests' \in Seq({}) /\ Len(requests') = 0 /\ DOMAIN requests' = {}
  BY <1>1, EmptySeq
<1>3. RequestsOK'
  BY <1>1, <1>2, BatchAssumption DEF RequestsOK
<1>. QED
  BY <1>1, <1>3, NoResponses DEF CallOK

LEMMA AnswersStay ==
    ASSUME IInv, UNCHANGED chainVars
    PROVE  \A query, response : AnswerOK(query, response)' <=> AnswerOK(query, response)
<1>1. \A words : \A v : Belongs(v, words)' <=> Belongs(v, words)
  BY ChainStays
<1>. QED
  BY <1>1 DEF AnswerOK

\* A sequence made of all responses is as long as they are many, and they are at most
\* as many as the requests.
LEMMA ResponsesAreFew ==
    ASSUME RequestsOK, ResponsesOK
    PROVE  /\ IsFiniteSet(evaluated) /\ Cardinality(evaluated) \in Nat
           /\ Cardinality(evaluated) <= Len(requests)
<1> DEFINE places == [e \in evaluated |-> e.at]
<1>1. Len(requests) \in Nat /\ DOMAIN requests = 1..Len(requests)
  BY LenProperties DEF RequestsOK
<1>2. places \in Injection(evaluated, 1..Len(requests))
  <2>1. places \in [evaluated -> 1..Len(requests)]
    BY <1>1 DEF ResponsesOK
  <2>2. \A e, f \in evaluated : places[e] = places[f] => e = f
    BY DEF ResponsesOK
  <2>3. DOMAIN places = evaluated
    OBVIOUS
  <2>. HIDE DEF places
  <2>. QED
    BY <2>1, <2>2, <2>3 DEF Injection, IsInjective
<1>3. IsFiniteSet(1..Len(requests)) /\ Cardinality(1..Len(requests)) = Len(requests)
  <2>1. PICK n \in Nat : n = Len(requests)
    BY <1>1
  <2>2. IsFiniteSet(1..n) /\ Cardinality(1..n) = IF 1 > n THEN 0 ELSE n - 1 + 1
    BY FS_Interval
  <2>. QED
    BY <2>1, <2>2
<1>4. IsFiniteSet(evaluated) /\ Cardinality(evaluated) <= Cardinality(1..Len(requests))
  BY <1>2, <1>3, FS_Injection
<1>. QED
  BY <1>3, <1>4, FS_CardinalityType

LEMMA ReturnsIInv ==
    ASSUME IInv, SendBatchReturns, UNCHANGED chainVars
    PROVE  ResponsesOK'
<1>1. PICK order \in SetToSeqs(evaluated) :
          responses' = [i \in DOMAIN order |-> [id |-> order[i].id,
                                                response |-> order[i].response]]
  BY DEF SendBatchReturns
<1>2. evaluated' = {} /\ requests' = requests
  BY DEF SendBatchReturns
<1>3. PICK n \in Nat : n = Cardinality(evaluated) /\ n <= Len(requests)
  BY ResponsesAreFew DEF IInv
<1>4. order \in [1..n -> evaluated]
  BY <1>1, <1>3 DEF SetToSeqs
<1>5. /\ DOMAIN responses' = 1..n
      /\ \A i \in 1..n : order[i] \in evaluated /\ responses'[i].id = order[i].id
                         /\ responses'[i].response = order[i].response
  BY <1>1, <1>4
<1>6. \E S : responses' \in Seq(S) /\ Len(responses') = n
  <2> DEFINE S == {[id |-> e.id, response |-> e.response] : e \in evaluated}
  <2>1. responses' \in [1..n -> S]
    BY <1>1, <1>4
  <2>. HIDE DEF S
  <2>2. responses' \in Seq(S)
    BY <2>1, SeqDef
  <2>. QED
    BY <1>3, <1>5, <2>2, LenProperties
<1>7. ASSUME NEW i \in DOMAIN responses'
      PROVE  /\ responses'[i].id \in DOMAIN requests'
             /\ AnswerOK(requests[responses[i].id].query, responses[i].response)'
  <2>1. PICK e \in evaluated : e = order[i]
    BY <1>5
  <2>2. responses'[i].id = e.at /\ responses'[i].response = e.response
        /\ e.at \in DOMAIN requests /\ AnswerOK(requests[e.at].query, e.response)
    BY <1>5, <2>1 DEF IInv, ResponsesOK
  <2>3. PICK query, response : query = requests[e.at].query /\ response = e.response
    OBVIOUS
  <2>4. AnswerOK(query, response)'
    BY <2>2, <2>3, AnswersStay
  <2>. QED
    BY <1>2, <2>2, <2>3, <2>4 DEF AnswerOK
<1>. QED
  BY <1>2, <1>3, <1>6, <1>7 DEF ResponsesOK

LEMMA BatchStepIInv == IInv /\ BatchStep => IInv'
<1> SUFFICES ASSUME IInv, BatchStep PROVE IInv'
  OBVIOUS
<1>1. UNCHANGED chainVars /\ tracked' = tracked /\ belief' = belief /\ claims' = claims
  BY DEF BatchStep, programVars
<1>2. ChainOK' /\ GoesOn
  BY <1>1, ChainStays
<1>3. CASE NewBatchRequest
  BY <1>1, <1>2, <1>3, ResetBatch, OldStaysGood DEF IInv
<1>4. CASE SendBatch
  <2>1. /\ requests' = requests /\ nextID' = nextID /\ evaluated' = {} /\ responses' = <<>>
        /\ call' \in {"returned", "sent"}
    BY <1>4 DEF SendBatch, IInv, CallOK
  <2>2. RequestsOK'
    BY <1>2, <2>1, OldStaysGood
  <2>. QED
    BY <1>1, <1>2, <2>1, <2>2, NoResponses, OldStaysGood DEF IInv, CallOK
<1>5. CASE SendBatchFails
  <2>1. /\ requests' = requests /\ nextID' = nextID /\ evaluated' = {} /\ responses' = <<>>
        /\ call' = "failed"
    BY <1>5 DEF SendBatchFails, IInv, CallOK
  <2>2. RequestsOK'
    BY <1>2, <2>1, OldStaysGood
  <2>. QED
    BY <1>1, <1>2, <2>1, <2>2, NoResponses, OldStaysGood DEF IInv, CallOK
<1>6. CASE SendBatchReturns
  <2>1. requests' = requests /\ nextID' = nextID /\ evaluated' = {} /\ call' = "returned"
    BY <1>6 DEF SendBatchReturns
  <2>2. RequestsOK'
    BY <1>2, <2>1, OldStaysGood
  <2>3. ResponsesOK'
    BY <1>1, <1>6, ReturnsIInv
  <2>. QED
    BY <1>1, <1>2, <2>1, <2>2, <2>3, OldStaysGood DEF IInv, CallOK
<1>. QED
  BY <1>3, <1>4, <1>5, <1>6 DEF BatchStep

\* A balance that the node reads is that of the receipt it was asked about.
LEMMA EvaluateOK ==
    ASSUME IInv, NEW query, QueryOK(query)
    PROVE  AnswerOK(query, Evaluate(query))
<1>1. CASE query = ReceivePolicyCall(Account)
  BY <1>1 DEF AnswerOK, ReceivePolicyCall
<1>2. ASSUME NEW words, query = BalanceOf(words), Known(words)
      PROVE  AnswerOK(query, Evaluate(query))
  <2>1. query.method = "balanceOf" /\ query.receipt = words
    BY <1>2 DEF BalanceOf
  <2>2. Evaluate(query) = <<Word(HeldFor(words))>>
    BY <2>1 DEF Evaluate
  <2>3. Belongs(HeldFor(words), words)
    BY <1>2, BalanceBelongs DEF IInv
  <2>. QED
    BY <2>1, <2>2, <2>3 DEF AnswerOK
<1>. QED
  BY <1>1, <1>2 DEF QueryOK

LEMMA NodeWorksIInv == IInv /\ NodeWorks => IInv'
<1> SUFFICES ASSUME IInv, NodeWorks PROVE IInv'
  OBVIOUS
<1>1. UNCHANGED chainVars /\ tracked' = tracked /\ belief' = belief /\ claims' = claims
  BY DEF NodeWorks, programVars
<1>2. ChainOK' /\ GoesOn
  BY <1>1, ChainStays
<1>0. PICK i \in DOMAIN requests :
          \E response \in {Evaluate(requests[i].query), <<>>} : NodeEvaluates(i, response)
  BY DEF NodeWorks
<1>3. PICK response \in {Evaluate(requests[i].query), <<>>} : NodeEvaluates(i, response)
  BY <1>0
<1>4. PICK new : new = [at |-> i, id |-> requests[i].id, response |-> response]
  OBVIOUS
<1>5. /\ call = "sent" /\ ~\E e \in evaluated : e.at = i
      /\ evaluated' = evaluated \cup {new}
      /\ requests' = requests /\ nextID' = nextID /\ call' = call /\ responses' = responses
  BY <1>3, <1>4 DEF NodeEvaluates
<1>6. QueryOK(requests[i].query) /\ requests[i].id = i
  BY DEF IInv, RequestsOK
<1>7. AnswerOK(requests[i].query, response)
  <2>1. CASE response = Evaluate(requests[i].query)
    BY <1>6, <2>1, EvaluateOK
  <2>2. CASE response = <<>>
    BY <2>2 DEF AnswerOK
  <2>. QED
    BY <1>3, <2>1, <2>2
<1>8. ASSUME NEW e \in evaluated'
      PROVE  (e.at \in DOMAIN requests /\ e.id = e.at
              /\ AnswerOK(requests[e.at].query, e.response))'
  <2>1. e.at \in DOMAIN requests /\ e.id = e.at /\ AnswerOK(requests[e.at].query, e.response)
    <3>1. CASE e \in evaluated
      BY <3>1 DEF IInv, ResponsesOK
    <3>2. CASE e = new
      BY <1>4, <1>6, <1>7, <3>2
    <3>. QED
      BY <1>5, <3>1, <3>2
  <2>2. PICK query : query = requests[e.at].query
    OBVIOUS
  <2>3. AnswerOK(query, e.response)'
    BY <1>1, <2>1, <2>2, AnswersStay
  <2>. QED
    BY <1>5, <2>1, <2>2, <2>3 DEF AnswerOK
<1>9. \A e, f \in evaluated' : e.at = f.at => e = f
  <2>1. \A e, f \in evaluated : e.at = f.at => e = f
    BY DEF IInv, ResponsesOK
  <2>. QED
    BY <1>4, <1>5, <2>1
<1>10. ResponsesOK'
  <2>1. responses' = <<>>
    BY <1>5 DEF IInv, CallOK
  <2>2. responses' \in Seq({}) /\ Len(responses') = 0 /\ DOMAIN responses' = {}
    BY <2>1, EmptySeq
  <2>3. Len(requests') \in Nat
    BY <1>5, LenProperties DEF IInv, RequestsOK
  <2>. QED
    BY <1>8, <1>9, <2>2, <2>3 DEF ResponsesOK
<1>11. RequestsOK' /\ CallOK'
  BY <1>2, <1>5, OldStaysGood DEF IInv, CallOK
<1>. QED
  BY <1>1, <1>2, <1>10, <1>11, OldStaysGood DEF IInv

\* Every answer goes to the request it belongs to, because no two have the same id.
LEMMA TakeAnswersIInv == IInv /\ TakeAnswers => IInv'
<1> SUFFICES ASSUME IInv, TakeAnswers PROVE IInv'
  OBVIOUS
<1>1. /\ belief' = UNION {{[query |-> q.query, answer |-> a] : a \in AnswersTo(q)} :
                             q \in ToSet(requests)}
      /\ NewBatchRequest /\ tracked' = tracked /\ claims' = claims /\ UNCHANGED chainVars
  BY DEF TakeAnswers
<1>2. /\ ChainOK' /\ GoesOn
      /\ \A words : (Known(words)' <=> Known(words))
           /\ \A v : Belongs(v, words)' <=> Belongs(v, words)
  BY <1>1, ChainStays
<1>3. ASSUME NEW b \in belief', b.query.method = "balanceOf"
      PROVE  Known(b.query.receipt) /\ Belongs(b.answer, b.query.receipt)
  <2>1. PICK i \in DOMAIN requests : \E a \in AnswersTo(requests[i]) :
            b = [query |-> requests[i].query, answer |-> a]
    BY <1>1 DEF ToSet
  <2>2. PICK a \in AnswersTo(requests[i]) : b = [query |-> requests[i].query, answer |-> a]
    BY <2>1
  <2>3. b.query = requests[i].query /\ b.answer = a /\ requests[i].id = i /\ QueryOK(b.query)
    BY <2>2 DEF IInv, RequestsOK
  <2>4. PICK response \in ResponsesTo(requests[i]) : a \in ParseBalanceResult(response)
    BY <1>3, <2>2, <2>3 DEF AnswersTo
  <2>5. PICK j \in DOMAIN responses : responses[j].id = i /\ responses[j].response = response
    BY <2>3, <2>4 DEF ResponsesTo, ToSet
  <2>6. AnswerOK(b.query, response)
    BY <2>3, <2>5 DEF IInv, ResponsesOK
  <2>7. Len(response) = 1 /\ a = response[1].val
    BY <2>4 DEF ParseBalanceResult
  <2>8. PICK v : response = <<Word(v)>> /\ Belongs(v, b.query.receipt)
    <3>1. response # <<>>
      <4>1. Len(<<>>) = 0
        OBVIOUS
      <4>. QED
        BY <2>7, <4>1
    <3>. QED
      BY <1>3, <2>6, <3>1 DEF AnswerOK
  <2>9. a = v
    <3>1. response[1] = Word(v)
      BY <2>8
    <3>. QED
      BY <2>7, <3>1 DEF Word
  <2>10. Known(b.query.receipt)
    <3>1. b.query # ReceivePolicyCall(Account)
      BY <1>3 DEF ReceivePolicyCall
    <3>2. PICK words : b.query = BalanceOf(words) /\ Known(words)
      BY <2>3, <3>1 DEF QueryOK
    <3>3. b.query.receipt = words
      BY <3>2 DEF BalanceOf
    <3>. QED
      BY <3>2, <3>3
  <2>. QED
    BY <2>3, <2>8, <2>9, <2>10
<1>4. BeliefOK'
  BY <1>2, <1>3 DEF BeliefOK
<1>. QED
  BY <1>1, <1>2, <1>4, ResetBatch, OldStaysGood DEF IInv

\* Only what the guard held when it was asked is claimed, and only the program's own.
LEMMA SendClaimIInv ==
    ASSUME IInv, NEW b, SendClaim(b)
    PROVE  IInv'
<1>1. /\ b \in belief /\ b.query.method = "balanceOf" /\ b.answer > 0
      /\ Claimer(b.query.receipt) = Watcher
      /\ claims' = claims \cup {Claim(Watcher, b.query.receipt)} /\ belief' = belief \ {b}
      /\ tracked' = tracked /\ UNCHANGED batchVars /\ UNCHANGED chainVars
  BY DEF SendClaim
<1>2. ChainOK' /\ GoesOn
  BY <1>1, ChainStays
<1>3. PICK p \in Payments : receiptOf[p] = b.query.receipt /\ receiptOf[p] # <<>>
  BY <1>1 DEF IInv, BeliefOK, Belongs, Known
<1>4. receiptOf' = receiptOf
  BY <1>1 DEF chainVars
<1>5. ClaimsOK'
  <2> SUFFICES ASSUME NEW c \in claims'
               PROVE  \E q \in Payments : /\ receiptOf[q] = c.receipt /\ receiptOf[q] # <<>>
                                          /\ Claimer(receiptOf[q]) = Watcher
    BY <1>4 DEF ClaimsOK, Claimer
  <2>1. CASE c \in claims
    BY <2>1 DEF IInv, ClaimsOK
  <2>2. CASE c = Claim(Watcher, b.query.receipt)
    <3>1. c.receipt = b.query.receipt
      BY <2>2 DEF Claim
    <3>. QED
      BY <1>1, <1>3, <3>1
  <2>. QED
    BY <1>1, <2>1, <2>2
<1>. QED
  BY <1>1, <1>2, <1>5, OldStaysGood DEF IInv

LEMMA NextIInv == IInv /\ [Next]_vars => IInv'
<1> SUFFICES ASSUME IInv, [Next]_vars PROVE IInv'
  OBVIOUS
<1>1. ASSUME NEW new \in Policies, SetReceivePolicy(new) PROVE IInv'
  BY <1>1, ChainStepsIInv DEF SetReceivePolicy, ChainStep, programVars
<1>2. ASSUME NEW p \in Payments, Pay(p) \/ OtherRecovers(p) PROVE IInv'
  BY <1>2, ChainStepsIInv DEF Pay, OtherRecovers, ChainStep, programVars
<1>3. ASSUME NEW c \in claims, GuardExecutes(c) PROVE IInv'
  BY <1>3, ChainStepsIInv DEF GuardExecutes, ChainStep
<1>4. ASSUME NEW log \in Logs, Watch(log) PROVE IInv'
  BY <1>4, WatchIInv
<1>5. ASSUME NEW query, Ask(query) PROVE IInv'
  BY <1>5, AskIInv
<1>6. CASE TakeAnswers
  BY <1>6, TakeAnswersIInv
<1>7. CASE BatchStep
  BY <1>7, BatchStepIInv
<1>8. CASE NodeWorks
  BY <1>8, NodeWorksIInv
<1>9. ASSUME NEW b \in belief, SendClaim(b) PROVE IInv'
  BY <1>9, SendClaimIInv
<1>10. CASE UNCHANGED vars
  BY <1>10, ChainStepsIInv DEF vars, ChainStep, programVars
<1>. QED
  BY <1>1, <1>2, <1>3, <1>4, <1>5, <1>6, <1>7, <1>8, <1>9, <1>10 DEF Next

LEMMA Invariant == Spec => []IInv
  BY InitIInv, NextIInv, PTL DEF Spec

-----------------------------------------------------------------------------

\* The state is well formed, and whatever the logs carry, every receipt the program
\* keeps is one that Encode makes a witness of (guard.go:112-122, events.go:86-118).
THEOREM TypeCorrect == Spec => []TypeOK
<1>1. IInv => TypeOK
  <2> SUFFICES ASSUME IInv PROVE TypeOK
    OBVIOUS
  <2>1. /\ Len(requests) \in Nat /\ nextID = Len(requests) + 1 /\ Len(requests) <= MaxRequests
        /\ Cardinality(evaluated) <= Len(requests) /\ Len(responses) <= Len(requests)
    BY ResponsesAreFew, LenProperties DEF IInv, RequestsOK, ResponsesOK
  <2>2. nextID <= MaxRequests + 1
    BY <2>1, BatchAssumption
  <2>3. ASSUME NEW p \in Payments, receiptOf[p] # <<>> PROVE Len(receiptOf[p]) = 10
    BY <2>3, EncodedForm DEF IInv, ChainOK
  <2>4. ASSUME NEW r \in tracked
        PROVE  r.version = 1 /\ r.blockedReason \in 0..2 /\ r.kind \in {0, 1}
    <3>1. Encodable(r) /\ r.blockedReason \in Nat /\ r.kind \in Nat
      BY DEF IInv, TrackedOK
    <3>. QED
      BY <3>1 DEF Encodable, ReceiptVersion, BlockedReasonReceivePolicy, InboundKindMint
  <2>5. /\ call \in {"idle", "sent", "returned", "failed"} /\ policy \in Policies
        /\ fate \in [Payments -> {"unsent", "credited", "held", "recovered"}]
    BY DEF IInv, CallOK, ChainOK
  <2>. QED
    BY <2>1, <2>2, <2>3, <2>4, <2>5 DEF TypeOK
<1>. QED
  BY <1>1, Invariant, PTL

\* What the program believes of a receipt is true of that receipt, and what it claims
\* was blocked and is its to claim (types.go:89-107, client.go:345-391,
\* guard.go:164-200).
THEOREM AnswersBelongHolds == Spec => []AnswersBelong
<1>1. IInv => AnswersBelong
  <2> SUFFICES ASSUME IInv PROVE AnswersBelong
    OBVIOUS
  <2>1. ASSUME NEW b \in belief, b.query.method = "balanceOf"
        PROVE  \/ /\ b.answer = 0
                  /\ HeldFor(b.query.receipt) = 0 \/ MadeUp(b.query.receipt)
               \/ \E p \in Payments :
                     receiptOf[p] = b.query.receipt /\ b.answer = Payment(p).amount
    BY <2>1 DEF IInv, BeliefOK, Belongs
  <2>2. \A c \in claims : \E p \in Payments :
            receiptOf[p] = c.receipt /\ Claimer(receiptOf[p]) = Watcher
    BY DEF IInv, ClaimsOK
  <2>. QED
    BY <2>1, <2>2 DEF AnswersBelong
<1>. QED
  BY <1>1, Invariant, PTL

\* With what the guard's log says, what it blocked can be recovered by whom the guard
\* lets recover it (guard.go:109-162, events.go:86-118).
THEOREM BlockedIsRecoverableHolds == Spec => []BlockedIsRecoverable
<1>1. IInv => BlockedIsRecoverable
  <2> SUFFICES ASSUME IInv, NEW p \in Payments, receiptOf[p] # <<>>
               PROVE  LET event   == DecodeTransferBlocked(Log(p))
                          receipt == DecodeClaimReceiptV1(event.receipt)
                      IN  /\ IsTransferBlocked(Log(p)) /\ Decodable(event.receipt)
                          /\ Encodable(receipt) /\ Encode(receipt) = receiptOf[p]
                          /\ event.token = receipt.token /\ event.receiver = receipt.recipient
                          /\ event.blockedNonce = receipt.blockedNonce
                          /\ event.amount = Payment(p).amount
                          /\ Claimer(Encode(receipt)) =
                                IF receipt.recoveryAuthority = Zero THEN Payment(p).from
                                ELSE receipt.recoveryAuthority
    BY DEF BlockedIsRecoverable
  <2>1. PICK r : receiptOf[p] = Encode(r) /\ ReceiptFor(p, r)
    BY DEF IInv, ChainOK
  <2>2. \A v : Word(v).val = v /\ Word(v).high = FALSE
    BY DEF Word
  <2>3. PICK topics : topics = <<Word(TransferBlockedTopic), Word(r.token),
                                 Word(r.recipient), Word(r.blockedNonce)>>
    OBVIOUS
  <2>4. /\ Log(p).topics = topics /\ Log(p).receipt = Encode(r)
        /\ Log(p).data[1] = Word(Payment(p).amount)
    BY <2>1, <2>3, EncodedForm DEF Log
  <2>5. /\ Len(topics) = 4 /\ topics[1].val = TransferBlockedTopic
        /\ topics[2].val = r.token /\ topics[3].val = r.recipient
        /\ topics[4].val = r.blockedNonce
    BY <2>2, <2>3
  <2>6. topics[2].high = FALSE /\ topics[3].high = FALSE /\ topics[4].high = FALSE
    BY <2>2, <2>3
  <2>7. IsTransferBlocked(Log(p))
    <3>1. \A i \in 2..4 : topics[i].high = FALSE
      BY <2>6
    <3>2. FitsData(Log(p).data)
      BY <2>2 DEF Log, FitsData
    <3>. QED
      BY <2>4, <2>5, <3>1, <3>2 DEF IsTransferBlocked, FitsTopic
  <2>8. PICK event : event = DecodeTransferBlocked(Log(p))
    OBVIOUS
  <2>9. /\ event.token = r.token /\ event.receiver = r.recipient
        /\ event.blockedNonce = r.blockedNonce /\ event.amount = Payment(p).amount
        /\ event.receipt = Encode(r)
    BY <2>2, <2>4, <2>5, <2>8 DEF DecodeTransferBlocked
  <2>10. DecodeClaimReceiptV1(event.receipt) = r
    BY <2>1, <2>9, DecodeEncode DEF ReceiptFor
  <2>11. Decodable(event.receipt)
    BY <2>1, <2>9, EncodedIsDecodable DEF ReceiptFor
  <2>12. Encodable(r)
    BY <2>1, PaymentAssumption
    DEF ReceiptFor, Encodable, ReceiptVersion, BlockedReasonReceivePolicy, InboundKindMint
  <2>13. Claimer(Encode(r)) = IF r.recoveryAuthority = Zero THEN Payment(p).from
                              ELSE r.recoveryAuthority
    <3>1. Encode(r)[3].val = r.recoveryAuthority /\ Encode(r)[4].val = Payment(p).from
      BY <2>1, <2>2, EncodedForm DEF ReceiptFor
    <3>. QED
      BY <3>1 DEF Claimer
  <2>. QED
    BY <2>1, <2>7, <2>8, <2>9, <2>10, <2>11, <2>12, <2>13
<1>. QED
  BY <1>1, Invariant, PTL
=============================================================================

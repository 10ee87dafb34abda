----------------------------- MODULE BlockedFunds -----------------------------
(***************************************************************************)
(* pkg/receivepolicy: payments that an account's receive policy blocks go  *)
(* to a guard contract, which emits a TransferBlocked log with a receipt;  *)
(* with the receipt, the recovery authority named in it (or, if that is    *)
(* the zero address, the originator) claims the funds, or a role of the    *)
(* token burns them.                                                       *)
(*                                                                         *)
(* A program watches the logs, decodes them and their receipts, asks the   *)
(* guard in batches (RpcBatch) what it still holds, and claims that. The   *)
(* registry and the guard are external; how they behave is what doc.go and *)
(* the comments of the package say of them.                                *)
(*                                                                         *)
(* A 32-byte word is its value and whether bits beyond those of its type   *)
(* are set.                                                                *)
(*                                                                         *)
(* Names with an underscore are faulty variants of the definition that     *)
(* follows them: the bugs that the properties are tested against.          *)
(***************************************************************************)
EXTENDS RpcBatch

CONSTANTS
    Payments,     \* payments to the account with the policy
    Payment(_),   \* who pays which token in which amount, by transfer or mint
    Policies,     \* the policies the account may set
    Zero,         \* the zero address
    Account,      \* the account with the policy
    Watcher,      \* the account of the program
    ForeignLogs   \* logs of other contracts, some of which look alike

ASSUME PaymentAssumption ==
    /\ \A p \in Payments :
          /\ Payment(p).amount \in Nat \ {0} /\ Payment(p).from # Zero
          /\ Payment(p).kind \in {0, 1}
    /\ \A p \in Policies : p.senders \in {0, 1} /\ p.tokens \in {0, 1}

\* The version, the times and the enums of a receipt are words, hence numbers, in any
\* log that has a receipt's ten words.
ASSUME LogAssumption ==
    \A log \in ForeignLogs :
        Len(log.receipt) = 10 => \A i \in {1, 6, 7, 8, 9} : log.receipt[i].val \in Nat

VARIABLES
    policy,    \* what the registry has: the sender policy, the token filter, who recovers
    fate,      \* of each payment: unsent, credited, held, recovered
    receiptOf, \* the receipt of each payment that was blocked
    tracked,   \* the receipts the program has from the logs it saw
    belief,    \* what it knows of their balances
    claims     \* the claims it has sent

chainVars   == <<policy, fate, receiptOf>>
programVars == <<tracked, belief, claims>>
vars        == <<batchVars, chainVars, programVars>>

Word(val) == [val |-> val, high |-> FALSE]

-----------------------------------------------------------------------------
(* Receipts.                                                               *)

ReceiptVersion == 1
BlockedReasonReceivePolicy == 2
InboundKindMint == 1

\* The arguments in another order than the contract's.
Encode_Swapped(r) ==
    <<Word(r.version), Word(r.token), Word(r.originator), Word(r.recoveryAuthority),
      Word(r.recipient), Word(r.blockedAt), Word(r.blockedNonce),
      Word(r.blockedReason), Word(r.kind), Word(r.memo)>>

\* ClaimReceiptV1.Encode, for a receipt that Encodable lets through.
Encode(r) ==
    <<Word(r.version), Word(r.token), Word(r.recoveryAuthority), Word(r.originator),
      Word(r.recipient), Word(r.blockedAt), Word(r.blockedNonce),
      Word(r.blockedReason), Word(r.kind), Word(r.memo)>>

\* Only the version is checked.
Encodable_AnyEnum(r) == r.version = ReceiptVersion

Encodable(r) ==
    /\ r.version = ReceiptVersion
    /\ r.blockedReason <= BlockedReasonReceivePolicy
    /\ r.kind <= InboundKindMint

\* DecodeClaimReceiptV1: ten words of version 1. Unpacking rejects a number that
\* does not fit its type, and drops what an address has too many bits.
Decodable(words) ==
    /\ Len(words) = 10
    /\ \A i \in {1, 6, 7, 8, 9} : ~words[i].high
    /\ words[1].val = ReceiptVersion

DecodeClaimReceiptV1(words) ==
    [version |-> words[1].val, token |-> words[2].val,
     recoveryAuthority |-> words[3].val, originator |-> words[4].val,
     recipient |-> words[5].val, blockedAt |-> words[6].val,
     blockedNonce |-> words[7].val, blockedReason |-> words[8].val,
     kind |-> words[9].val, memo |-> words[10].val]

-----------------------------------------------------------------------------
(* Logs.                                                                   *)

TransferBlockedTopic == "TransferBlocked"

\* addressFromTopic and uint64FromTopic reject what they would have to cut off.
FitsTopic(topic) == ~topic.high

\* Unpacking rejects data that ends early and a version of more than a byte.
FitsData(data) == Len(data) = 2 /\ ~data[2].high

\* DecodeTransferBlocked finds no error. The contract that emitted the log is not
\* known to it.
IsTransferBlocked(log) ==
    /\ Len(log.topics) = 4
    /\ log.topics[1].val = TransferBlockedTopic
    /\ FitsData(log.data)
    /\ \A i \in 2..4 : FitsTopic(log.topics[i])

DecodeTransferBlocked(log) ==
    [token |-> log.topics[2].val, receiver |-> log.topics[3].val,
     blockedNonce |-> log.topics[4].val,
     amount |-> log.data[1].val, receiptVersion |-> log.data[2].val,
     receipt |-> log.receipt]

-----------------------------------------------------------------------------
(* Calls.                                                                  *)

BalanceOf(receipt) == [method |-> "balanceOf", receipt |-> receipt]
ReceivePolicyCall(account) == [method |-> "receivePolicy", account |-> account]
Claim(to, receipt) == [method |-> "claim", to |-> to, receipt |-> receipt]

\* ParseBalanceResult: one word. An RPC error has none.
ParseBalanceResult(response) ==
    IF Len(response) = 1 THEN {response[1].val} ELSE {}

\* ParseReceivePolicyResult: six words, and whatever follows them.
ParseReceivePolicyResult(response) ==
    IF Len(response) >= 6
    THEN {[senders |-> response[2].val, tokens |-> response[4].val,
           authority |-> response[6].val]} ELSE {}

-----------------------------------------------------------------------------
(* The chain.                                                              *)

Init ==
    /\ BatchInit
    /\ policy \in Policies
    /\ fate = [p \in Payments |-> "unsent"]
    /\ receiptOf = [p \in Payments |-> <<>>]
    /\ tracked = {} /\ belief = {} /\ claims = {}

\* The account's setReceivePolicy, with the built-in policies: 1 allows all, 0
\* rejects all.
SetReceivePolicy(new) ==
    /\ new # policy
    /\ policy' = new
    /\ UNCHANGED <<fate, receiptOf, batchVars, programVars>>

\* validateReceivePolicy's reasons: 0 none, 1 the token filter, 2 the policy.
BlockedReason ==
    IF policy.tokens = 0 THEN 1 ELSE IF policy.senders = 0 THEN 2 ELSE 0

BlockedNonce == Cardinality({p \in Payments : receiptOf[p] # <<>>})

Receipt(p) ==
    [version |-> 1, token |-> Payment(p).token,
     recoveryAuthority |-> policy.authority, originator |-> Payment(p).from,
     recipient |-> Account, blockedAt |-> 1, blockedNonce |-> BlockedNonce,
     blockedReason |-> BlockedReason, kind |-> Payment(p).kind, memo |-> Payment(p).memo]

\* The words a receipt is encoded to by the contract, in the order of its struct.
ContractWords(r) ==
    [i \in 1..10 |-> Word(<<r.version, r.token, r.recoveryAuthority, r.originator,
                            r.recipient, r.blockedAt, r.blockedNonce,
                            r.blockedReason, r.kind, r.memo>>[i])]

\* A transfer or a mint, credited or blocked.
Pay(p) ==
    /\ fate[p] = "unsent"
    /\ fate' = [fate EXCEPT ![p] = IF BlockedReason = 0 THEN "credited" ELSE "held"]
    /\ receiptOf' = IF BlockedReason = 0 THEN receiptOf
                    ELSE [receiptOf EXCEPT ![p] = ContractWords(Receipt(p))]
    /\ UNCHANGED <<policy, batchVars, programVars>>

Log(p) ==
    [topics |-> <<Word(TransferBlockedTopic), receiptOf[p][2], receiptOf[p][5], receiptOf[p][7]>>,
     data |-> <<Word(Payment(p).amount), Word(1)>>, receipt |-> receiptOf[p]]

Logs == {Log(p) : p \in {p \in Payments : receiptOf[p] # <<>>}} \cup ForeignLogs

Claimer(r) == IF r[3].val = Zero THEN r[4].val ELSE r[3].val

Held(p) == IF fate[p] = "held" THEN Payment(p).amount ELSE 0
HeldFor(receipt) ==
    IF \E p \in Payments : receiptOf[p] = receipt
    THEN Held(CHOOSE p \in Payments : receiptOf[p] = receipt) ELSE 0

\* Somebody else recovers what a receipt stands for: its claimer, or a burner.
OtherRecovers(p) ==
    /\ fate[p] = "held"
    /\ fate' = [fate EXCEPT ![p] = "recovered"]
    /\ UNCHANGED <<policy, receiptOf, batchVars, programVars>>

\* A claim of the program is executed, or reverts.
GuardExecutes(claim) ==
    /\ claim \in claims
    /\ fate' = [p \in Payments |->
                   IF /\ fate[p] = "held" /\ receiptOf[p] = claim.receipt
                      /\ Claimer(claim.receipt) = Watcher
                   THEN "recovered" ELSE fate[p]]
    /\ claims' = claims \ {claim}
    /\ UNCHANGED <<policy, receiptOf, tracked, belief, batchVars>>

\* eth_call at the latest block; a node may also answer with an error.
Evaluate(query) ==
    IF query.method = "balanceOf" THEN <<Word(HeldFor(query.receipt))>>
    ELSE <<Word(1), Word(policy.senders), Word(0), Word(policy.tokens), Word(0),
           Word(policy.authority)>>

NodeWorks ==
    /\ \E i \in DOMAIN requests : \E response \in {Evaluate(requests[i].query), <<>>} :
          NodeEvaluates(i, response)
    /\ UNCHANGED <<chainVars, programVars>>

-----------------------------------------------------------------------------
(* The program.                                                            *)

\* A log is of use if it is a TransferBlocked with a receipt that decodes and that
\* can be encoded again; any other changes nothing, and neither does one seen twice.
Watch(log) ==
    LET receipt == DecodeClaimReceiptV1(DecodeTransferBlocked(log).receipt) IN
    /\ IsTransferBlocked(log)
    /\ Decodable(DecodeTransferBlocked(log).receipt)
    /\ Encodable(receipt)
    /\ receipt \notin tracked
    /\ tracked' = tracked \cup {receipt}
    /\ UNCHANGED <<belief, claims, batchVars, chainVars>>

\* A new batch is for new answers: those of the last one are forgotten.
Ask(query) ==
    /\ query \in {ReceivePolicyCall(Account)} \cup {BalanceOf(Encode(r)) : r \in tracked}
    /\ ~\E q \in ToSet(requests) : q.query = query
    /\ Add(query)
    /\ belief' = {}
    /\ UNCHANGED <<tracked, claims, chainVars>>

\* Every response is put with the request whose id it has.
AnswersTo(request) ==
    UNION {IF request.query.method = "balanceOf" THEN ParseBalanceResult(r)
           ELSE ParseReceivePolicyResult(r) : r \in ResponsesTo(request)}

TakeAnswers ==
    /\ call = "returned" /\ requests # <<>>
    /\ belief' = UNION {{[query |-> q.query, answer |-> a] : a \in AnswersTo(q)} :
                           q \in ToSet(requests)}
    /\ NewBatchRequest
    /\ UNCHANGED <<tracked, claims, chainVars>>

SendClaim(b) ==
    /\ b \in belief /\ b.query.method = "balanceOf" /\ b.answer > 0
    /\ Claimer(b.query.receipt) = Watcher
    /\ claims' = claims \cup {Claim(Watcher, b.query.receipt)}
    /\ belief' = belief \ {b}
    /\ UNCHANGED <<tracked, batchVars, chainVars>>

BatchStep ==
    /\ \/ SendBatch
       \/ SendBatchReturns
       \/ SendBatchFails
       \/ /\ call = "failed" \/ requests = <<>>
          /\ NewBatchRequest
    /\ UNCHANGED <<chainVars, programVars>>

Next ==
    \/ \E new \in Policies : SetReceivePolicy(new)
    \/ \E p \in Payments : Pay(p) \/ OtherRecovers(p)
    \/ \E c \in claims : GuardExecutes(c)
    \/ \E log \in Logs : Watch(log)
    \/ \E q \in {ReceivePolicyCall(Account)} \cup {BalanceOf(Encode(r)) : r \in tracked} : Ask(q)
    \/ TakeAnswers \/ BatchStep \/ NodeWorks
    \/ \E b \in belief : SendClaim(b)

Spec == Init /\ [][Next]_vars

-----------------------------------------------------------------------------
(* Properties.                                                             *)

\* The state is well formed, and the receipts that the program goes on with are
\* those that Encode can turn into a witness: the version and both enums are ones
\* that the guard knows, whatever the logs carried.
TypeOK ==
    /\ nextID = Len(requests) + 1 /\ nextID <= MaxRequests + 1
    /\ call \in {"idle", "sent", "returned", "failed"}
    /\ Cardinality(evaluated) <= Len(requests) /\ Len(responses) <= Len(requests)
    /\ policy \in Policies
    /\ fate \in [Payments -> {"unsent", "credited", "held", "recovered"}]
    /\ \A p \in Payments : receiptOf[p] # <<>> => Len(receiptOf[p]) = 10
    /\ \A r \in tracked :
          r.version = 1 /\ r.blockedReason \in 0..2 /\ r.kind \in {0, 1}

\* Another contract put this receipt into a log of its own; it may even be one that
\* the guard has yet to issue.
MadeUp(words) ==
    \E log \in ForeignLogs :
        Decodable(log.receipt) /\ Encode(DecodeClaimReceiptV1(log.receipt)) = words

\* What the program believes of a receipt's balance is the balance of that very
\* receipt, whatever the order in which the node answered a batch, and whatever
\* happened since it was asked: the whole amount of the payment, or zero, and zero
\* only if the guard holds nothing for it now, nor ever again (unless it was asked
\* about a receipt that was made up before the guard issued it). So what it claims
\* was blocked, and is its to claim.
AnswersBelong ==
    /\ \A b \in {b \in belief : b.query.method = "balanceOf"} :
          \/ /\ b.answer = 0
             /\ HeldFor(b.query.receipt) = 0 \/ MadeUp(b.query.receipt)
          \/ \E p \in Payments :
                receiptOf[p] = b.query.receipt /\ b.answer = Payment(p).amount
    /\ \A c \in claims : \E p \in Payments :
          receiptOf[p] = c.receipt /\ Claimer(receiptOf[p]) = Watcher

\* Whatever the guard blocks can be recovered with what its log says: the log is
\* recognised, its receipt decodes, what was decoded encodes to the guard's own
\* witness, and the program's claimer is the guard's.
BlockedIsRecoverable ==
    \A p \in {p \in Payments : receiptOf[p] # <<>>} :
        LET event   == DecodeTransferBlocked(Log(p))
            receipt == DecodeClaimReceiptV1(event.receipt)
        IN  /\ IsTransferBlocked(Log(p)) /\ Decodable(event.receipt)
            /\ Encodable(receipt) /\ Encode(receipt) = receiptOf[p]
            /\ event.token = receipt.token /\ event.receiver = receipt.recipient
            /\ event.blockedNonce = receipt.blockedNonce
            /\ event.amount = Payment(p).amount
            /\ Claimer(Encode(receipt)) =
                  IF receipt.recoveryAuthority = Zero THEN Payment(p).from
                  ELSE receipt.recoveryAuthority
=============================================================================

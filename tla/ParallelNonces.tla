---------------------------- MODULE ParallelNonces ----------------------------
(***************************************************************************)
(* examples/parallel-nonces: a program that reads the nonce of each of its *)
(* nonce keys in one goroutine per key, waits for them, sends a payment on *)
(* each key from one goroutine per key, waits again, and counts what the   *)
(* goroutines left in two channels. Other runs of the program may be using *)
(* the same account and the same keys.                                     *)
(*                                                                         *)
(* Names with an underscore are faulty variants of the definition that     *)
(* follows them: the bugs that the properties are tested against.          *)
(***************************************************************************)
EXTENDS Naturals, Sequences, FiniteSets

CONSTANTS
    Programs,       \* runs of the program, all with the same account
    NonceKeys,      \* the nonce keys, one lane each
    Misconfigured,  \* the runs whose chain id is 0: signing fails
    MaxNonce        \* bound on the nonces the node hands out

ASSUME ProgramAssumption ==
    /\ IsFiniteSet(NonceKeys)
    /\ Misconfigured \subseteq Programs
    /\ MaxNonce \in Nat

VARIABLES
    main,      \* where main is
    started,   \* the goroutines of this round that it has started
    wg,        \* the counter of its wait group
    lane,      \* where the goroutine of each key is
    reply,     \* the reply to its call, as the HTTP client sees it
    nonces,    \* the map nonceKey -> nonce that the first round fills
    mu,        \* whether its mutex is held
    found,     \* the map as each goroutine found it that is writing it
    results, errors, closed, \* the two channels, and whether both are closed
    calls,     \* the payments on their way to the node, by sender
    accepted,  \* the payments the node accepted, by sender
    pool,      \* the node's pending payments of this account
    nonce      \* the next nonce of each key, at the node

programVars == <<main, started, wg, lane, nonces, mu, found, results, errors, closed>>
nodeVars == <<calls, accepted, pool, nonce>>
vars == <<programVars, reply, nodeVars>>

None == [kind |-> "none"]

Lanes == Programs \X NonceKeys

\* Two payments of the same key and nonce are one transaction: the programs fill
\* in the same fields, and signatures are deterministic.
Payment(key, n) == [key |-> key, nonce |-> n]
Payments == [key : NonceKeys, nonce : 0..MaxNonce]

N == Cardinality(NonceKeys)
Capacity_Unbuffered == 0
Capacity == N

-----------------------------------------------------------------------------
Init ==
    /\ main = [p \in Programs |-> "fetch"]
    /\ started = [p \in Programs |-> {}]
    /\ wg = [p \in Programs |-> 0]
    /\ lane = [l \in Lanes |-> "none"]
    /\ reply = [l \in Lanes |-> None]
    /\ nonces = [p \in Programs |-> {}]
    /\ mu = [p \in Programs |-> FALSE]
    /\ found = [l \in Lanes |-> {}]
    /\ results = [p \in Programs |-> <<>>]
    /\ errors = [p \in Programs |-> <<>>]
    /\ closed = [p \in Programs |-> FALSE]
    /\ calls = {} /\ accepted = {} /\ pool = {}
    /\ nonce = [k \in NonceKeys |-> 0]

Goto(l, place) == lane' = [lane EXCEPT ![l] = place]

-----------------------------------------------------------------------------
(* main.                                                                   *)

\* The wait group is not told of the goroutine.
StartLane_NoAdd(p, k) ==
    /\ main[p] \in {"fetch", "send"}
    /\ k \notin started[p]
    /\ started' = [started EXCEPT ![p] = @ \cup {k}]
    /\ Goto(<<p, k>>, IF main[p] = "fetch" THEN "ask" ELSE "sign")
    /\ UNCHANGED <<main, wg, nonces, mu, found, results, errors, closed, reply, nodeVars>>

\* wg.Add(1), then go func(...), in the loops of both rounds.
StartLane(p, k) ==
    /\ main[p] \in {"fetch", "send"}
    /\ k \notin started[p]
    /\ started' = [started EXCEPT ![p] = @ \cup {k}]
    /\ wg' = [wg EXCEPT ![p] = @ + 1]
    /\ Goto(<<p, k>>, IF main[p] = "fetch" THEN "ask" ELSE "sign")
    /\ UNCHANGED <<main, nonces, mu, found, results, errors, closed, reply, nodeVars>>

\* main does not wait.
Joined_NoWait(p) == started[p] = NonceKeys

\* wg.Wait() returns: every lane was started, and the counter is zero.
Joined(p) == started[p] = NonceKeys /\ wg[p] = 0

AllFetched_Unchecked(p) == TRUE

\* The map has an entry of each key.
AllFetched(p) == Cardinality(nonces[p]) = N

EndFetch(p) ==
    /\ main[p] = "fetch" /\ Joined(p)
    /\ main' = [main EXCEPT ![p] = IF AllFetched(p) THEN "send" ELSE "fatal"]
    /\ started' = [started EXCEPT ![p] = {}]
    /\ UNCHANGED <<wg, lane, nonces, mu, found, results, errors, closed, reply, nodeVars>>

EndSend(p) ==
    /\ main[p] = "send" /\ Joined(p)
    /\ closed' = [closed EXCEPT ![p] = TRUE]
    /\ main' = [main EXCEPT ![p] = "done"]
    /\ UNCHANGED <<started, wg, lane, nonces, mu, found, results, errors, reply, nodeVars>>

\* Ranging over the closed channels, main counts and logs what is in them.
successCount(p) == Len(results[p])

-----------------------------------------------------------------------------
(* A goroutine of the first round.                                         *)

Exit(p, k) ==
    /\ Goto(<<p, k>>, "exited")
    /\ wg' = [wg EXCEPT ![p] = @ - 1]

\* rpcClient.GetNonce sends its eth_call.
Ask(p, k) ==
    /\ lane[<<p, k>>] = "ask"
    /\ Goto(<<p, k>>, "asking")
    /\ reply' = [reply EXCEPT ![<<p, k>>] = None]
    /\ UNCHANGED <<main, started, wg, nonces, mu, found, results, errors, closed, nodeVars>>

\* GetNonce returns an error: it is logged, and the key has no nonce.
AskFailed(p, k) ==
    /\ lane[<<p, k>>] = "asking"
    /\ reply[<<p, k>>].kind = "failed"
    /\ Exit(p, k)
    /\ UNCHANGED <<main, started, nonces, mu, found, results, errors, closed, reply, nodeVars>>

\* Writing the map takes more than one step: what a goroutine leaves is the map as
\* it found it, with its own entry.
BeginWrite(p, k) ==
    /\ Goto(<<p, k>>, "writing")
    /\ found' = [found EXCEPT ![<<p, k>>] = nonces[p]]

\* The map is written without the mutex.
Lock_NoMutex(p, k) ==
    /\ lane[<<p, k>>] = "asking"
    /\ reply[<<p, k>>].kind = "nonce"
    /\ BeginWrite(p, k)
    /\ UNCHANGED <<main, started, wg, nonces, mu, results, errors, closed, reply,
                   nodeVars>>

\* mu.Lock(), and into the assignment.
Lock(p, k) ==
    /\ lane[<<p, k>>] = "asking"
    /\ reply[<<p, k>>].kind = "nonce"
    /\ ~mu[p]
    /\ mu' = [mu EXCEPT ![p] = TRUE]
    /\ BeginWrite(p, k)
    /\ UNCHANGED <<main, started, wg, nonces, results, errors, closed, reply, nodeVars>>

\* nonces[nonceKey] = nonce is done; mu.Unlock().
Store(p, k) ==
    /\ lane[<<p, k>>] = "writing"
    /\ nonces' = [nonces EXCEPT
                    ![p] = found[<<p, k>>] \cup {Payment(k, reply[<<p, k>>].nonce)}]
    /\ found' = [found EXCEPT ![<<p, k>>] = {}]
    /\ mu' = [mu EXCEPT ![p] = FALSE]
    /\ Exit(p, k)
    /\ UNCHANGED <<main, started, results, errors, closed, reply, nodeVars>>

-----------------------------------------------------------------------------
(* A goroutine of the second round.                                        *)

\* The closures share the loop's variables.
PaymentOf_LoopVariable(p, k) == CHOOSE m \in nonces[p] : TRUE

\* The key and the nonce are the goroutine's arguments; reading the map gives
\* zero for a key it does not have.
PaymentOf(p, k) ==
    IF \E m \in nonces[p] : m.key = k THEN CHOOSE m \in nonces[p] : m.key = k
                                      ELSE Payment(k, 0)

\* errors <- err; the send blocks while the channel is full.
Complain(p, k) ==
    /\ Len(errors[p]) < Capacity
    /\ errors' = [errors EXCEPT ![p] = Append(@, k)]
    /\ Exit(p, k)
    /\ UNCHANGED <<main, started, nonces, mu, found, results, closed, reply, nodeVars>>

\* SignTransaction refuses a transaction with chain id 0.
SignFails(p, k) ==
    /\ lane[<<p, k>>] = "sign" /\ p \in Misconfigured
    /\ Complain(p, k)

\* SignTransaction, Serialize, and SendRawTransaction sends its call.
Send(p, k) ==
    /\ lane[<<p, k>>] = "sign" /\ p \notin Misconfigured
    /\ Goto(<<p, k>>, "sending")
    /\ reply' = [reply EXCEPT ![<<p, k>>] = None]
    /\ calls' = calls \cup {[by |-> <<p, k>>, payment |-> PaymentOf(p, k)]}
    /\ UNCHANGED <<main, started, wg, nonces, mu, found, results, errors, closed,
                   accepted, pool, nonce>>

\* The error is logged and the goroutine returns.
SendFailed_NotReported(p, k) ==
    /\ lane[<<p, k>>] = "sending"
    /\ reply[<<p, k>>].kind \in {"failed", "rejected"}
    /\ Exit(p, k)
    /\ UNCHANGED <<main, started, nonces, mu, found, results, errors, closed, reply, nodeVars>>

SendFailed(p, k) ==
    /\ lane[<<p, k>>] = "sending"
    /\ reply[<<p, k>>].kind \in {"failed", "rejected"}
    /\ Complain(p, k)

\* Any reply counts as a success.
SendDone_AnyReply(p, k) ==
    /\ lane[<<p, k>>] = "sending"
    /\ reply[<<p, k>>] # None
    /\ Len(results[p]) < Capacity
    /\ results' = [results EXCEPT ![p] = Append(@, PaymentOf(p, k))]
    /\ Exit(p, k)
    /\ UNCHANGED <<main, started, nonces, mu, found, errors, closed, reply, nodeVars>>

\* results <- txHash, before the log line and wg.Done().
SendDone(p, k) ==
    /\ lane[<<p, k>>] = "sending"
    /\ reply[<<p, k>>].kind = "hash"
    /\ Len(results[p]) < Capacity
    /\ results' = [results EXCEPT ![p] = Append(@, reply[<<p, k>>].hash)]
    /\ Exit(p, k)
    /\ UNCHANGED <<main, started, nonces, mu, found, errors, closed, reply, nodeVars>>

-----------------------------------------------------------------------------
(* The HTTP client and the node.                                           *)

Waiting(p, k) == lane[<<p, k>>] \in {"asking", "sending"} /\ reply[<<p, k>>] = None

\* A transport error, a reply that is none, or the timeout of the HTTP client;
\* the call may be on its way still.
CallFails(p, k) ==
    /\ Waiting(p, k)
    /\ reply' = [reply EXCEPT ![<<p, k>>] = [kind |-> "failed"]]
    /\ UNCHANGED <<programVars, nodeVars>>

\* The nonce of the latest block: pending payments do not count.
NodeTellsNonce(p, k) ==
    /\ Waiting(p, k) /\ lane[<<p, k>>] = "asking"
    /\ reply' = [reply EXCEPT ![<<p, k>>] = [kind |-> "nonce", nonce |-> nonce[k]]]
    /\ UNCHANGED <<programVars, nodeVars>>

Acceptable(m) == m.nonce = nonce[m.key] /\ ~\E q \in pool : q.key = m.key

NodeReply(c, m) ==
    reply' = IF Waiting(c.by[1], c.by[2]) THEN [reply EXCEPT ![c.by] = m] ELSE reply

NodeAccepts(c) ==
    /\ Acceptable(c.payment)
    /\ calls' = calls \ {c}
    /\ accepted' = accepted \cup {c}
    /\ pool' = pool \cup {c.payment}
    /\ NodeReply(c, [kind |-> "hash", hash |-> c.payment])
    /\ UNCHANGED <<programVars, nonce>>

NodeRejects(c) ==
    /\ ~Acceptable(c.payment)
    /\ calls' = calls \ {c}
    /\ NodeReply(c, [kind |-> "rejected"])
    /\ UNCHANGED <<programVars, accepted, pool, nonce>>

LoseCall(c) ==
    /\ calls' = calls \ {c}
    /\ UNCHANGED <<programVars, reply, accepted, pool, nonce>>

Mine(m) ==
    /\ nonce[m.key] < MaxNonce
    /\ pool' = pool \ {m}
    /\ nonce' = [nonce EXCEPT ![m.key] = @ + 1]
    /\ UNCHANGED <<programVars, reply, calls, accepted>>

\* A pending payment may be evicted.
Drop(m) ==
    /\ pool' = pool \ {m}
    /\ UNCHANGED <<programVars, reply, calls, accepted, nonce>>

-----------------------------------------------------------------------------
Goroutine(p, k) ==
    \/ Ask(p, k) \/ AskFailed(p, k) \/ Lock(p, k) \/ Store(p, k)
    \/ SignFails(p, k) \/ Send(p, k) \/ SendFailed(p, k) \/ SendDone(p, k)

Main(p) == EndFetch(p) \/ EndSend(p) \/ \E k \in NonceKeys : StartLane(p, k)

Node ==
    \/ \E c \in calls : NodeAccepts(c) \/ NodeRejects(c) \/ LoseCall(c)
    \/ \E p \in Programs, k \in NonceKeys : NodeTellsNonce(p, k)
    \/ \E m \in pool : Mine(m) \/ Drop(m)

Next ==
    \/ \E p \in Programs : Main(p)
    \/ \E p \in Programs, k \in NonceKeys : Goroutine(p, k) \/ CallFails(p, k)
    \/ Node

\* The Go runtime runs every goroutine, and the HTTP client's timer fires.
Fairness ==
    \A p \in Programs :
        /\ WF_vars(Main(p))
        /\ \A k \in NonceKeys : WF_vars(Goroutine(p, k)) /\ WF_vars(CallFails(p, k))

Spec == Init /\ [][Next]_vars /\ Fairness

-----------------------------------------------------------------------------
(* Properties.                                                             *)

Replies == [kind : {"none", "failed", "rejected"}]
             \cup [kind : {"nonce"}, nonce : 0..MaxNonce]
             \cup [kind : {"hash"}, hash : Payments]

SentPayments == [by : Lanes, payment : Payments]

TypeOK ==
    /\ main \in [Programs -> {"fetch", "send", "done", "fatal"}]
    /\ started \in [Programs -> SUBSET NonceKeys]
    /\ wg \in [Programs -> 0..N]
    /\ lane \in [Lanes -> {"none", "ask", "asking", "writing", "sign", "sending",
                           "exited"}]
    /\ reply \in [Lanes -> Replies]
    /\ nonces \in [Programs -> SUBSET Payments]
    /\ mu \in [Programs -> BOOLEAN] /\ found \in [Lanes -> SUBSET Payments]
    /\ results \in [Programs -> Seq(Payments)] /\ errors \in [Programs -> Seq(NonceKeys)]
    /\ closed \in [Programs -> BOOLEAN]
    /\ calls \subseteq SentPayments /\ accepted \subseteq SentPayments
    /\ pool \subseteq Payments /\ nonce \in [NonceKeys -> 0..MaxNonce]

\* The wait group counts the goroutines still running, so that main closes the
\* channels, and reads the map without the mutex, only when none is left that
\* could send on a closed channel or write the map (main.go:111, 159).
NobodyOutlivesTheRound ==
    \A p \in Programs :
        /\ wg[p] = Cardinality({k \in started[p] : lane[<<p, k>>] # "exited"})
        /\ closed[p] => \A k \in NonceKeys : lane[<<p, k>>] = "exited"

\* "Failed to fetch all nonces" is true: a run gives up only when a nonce could
\* not be read, never because the writes of two goroutines ran into each other or
\* main looked too early (main.go:106-114).
NoNonceIsLost ==
    \A p \in Programs :
        main[p] = "fatal" => \E k \in NonceKeys : reply[<<p, k>>].kind = "failed"

\* No payment is sent with a nonce that was not read from the node: it is never
\* above the account's nonce of that key, and the program has read all of them.
NoGuessedNonce ==
    \A c \in calls :
        /\ c.payment \in nonces[c.by[1]]
        /\ c.payment.nonce <= nonce[c.payment.key]

\* "Sent n/N transactions in parallel" is honest: when main is done each lane
\* has reported once, a hash for a payment of its own that the node accepted or
\* an error, so n counts distinct accepted payments.
CountIsHonest ==
    \A p \in Programs : main[p] = "done" =>
        /\ Len(results[p]) + Len(errors[p]) = N
        /\ \A i \in 1..Len(results[p]) :
              \E k \in NonceKeys : [by |-> <<p, k>>, payment |-> results[p][i]] \in accepted
        /\ \A i, j \in 1..Len(results[p]) : results[p][i] = results[p][j] => i = j

\* The lanes of one program never get in each other's way, and keys can be used
\* again once their payments confirmed (main.go:43-44): the node turns a payment
\* down only when another run sent the same one.
OnlyRivalsCollide ==
    \A p \in Programs, k \in NonceKeys :
        reply[<<p, k>>].kind = "rejected" =>
            \E q \in Programs \ {p} :
                [by |-> <<q, k>>, payment |-> PaymentOf(p, k)] \in accepted

\* Every run comes to an end, whatever the node does: no lane waits for ever for
\* an answer, the mutex, or room in a channel.
EveryRunEnds == \A p \in Programs : <>(main[p] \in {"done", "fatal"})
=============================================================================

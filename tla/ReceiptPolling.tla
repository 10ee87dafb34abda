---------------------------- MODULE ReceiptPolling ----------------------------
(***************************************************************************)
(* Client.WaitForReceipt: concurrent calls on one Client, which is never   *)
(* written after New. Each polls the node, and sleeps between polls in a   *)
(* select over its context and a timer. A reply may be out of date by the  *)
(* time it is read, a request may fail in any of the ways sendRequest and  *)
(* GetTransactionReceipt know, and the context may end at any moment: in a *)
(* request, before one, in the sleep, or together with the timer.          *)
(*                                                                         *)
(* go.mod asks for Go 1.25.9, whose timers take back a tick that was not   *)
(* received when they are stopped; GODEBUG=asynctimerchan=1 brings back the*)
(* older ones, which leave it in the channel. The code means to serve both.*)
(*                                                                         *)
(* Names with an underscore are faulty variants of the definition that     *)
(* follows them: the bugs that the properties are tested against.          *)
(***************************************************************************)
EXTENDS FiniteSets

CONSTANTS
    Waiters,         \* concurrent calls of WaitForReceipt
    Hashes,          \* transaction hashes
    HashOf(_),       \* the transaction each call waits for
    Contexts,        \* contexts that may end, by deadline or cancellation
    ContextOf(_),    \* the context of each call; context.Background() is none
                     \* of Contexts
    AsyncTimers      \* the calls in programs run with asynctimerchan=1

ASSUME WaiterAssumption ==
    AsyncTimers \subseteq Waiters /\ \A w \in Waiters : HashOf(w) \in Hashes

VARIABLES
    pc,        \* where each call is
    timer,     \* its timer: off, armed, or fired with the tick not received
    response,  \* the answer to its request in flight
    result,    \* what it returned
    ended,     \* of each context: running, or how it ended (its Err)
    mined,     \* the transactions that have a receipt
    failed     \* history: the ways in which requests of each call failed

waiterVars == <<pc, timer, response, result>>
vars == <<waiterVars, ended, mined, failed>>

None == [kind |-> "none"]

\* What ctx.Err says of a context that is over.
ContextErrors == {"Canceled", "DeadlineExceeded"}

\* The Timeout of the http.Client expires, in Do or in ReadAll; either of them
\* fails in another way; a status other than 200; a body that is no JSON; an
\* RPC error; a result that is no object.
Failures ==
    {"timeout", "transport", "httpStatus", "notJSON", "rpcError", "notAnObject"}

\* What errors.Is finds in the error that a caller is given: every layer wraps
\* with %w, and net/http's timeout error is a context.DeadlineExceeded.
CauseOf(failure) == IF failure = "timeout" THEN "DeadlineExceeded" ELSE failure
Causes == ContextErrors \cup {CauseOf(failure) : failure \in Failures}

\* What the node says of a transaction without a receipt.
NoReceipt == {"null", "emptyObject"}

Over(w) == ContextOf(w) \in Contexts /\ ended[ContextOf(w)] # "running"

-----------------------------------------------------------------------------
Init ==
    /\ pc = [w \in Waiters |-> "poll"]
    /\ timer = [w \in Waiters |-> "off"]
    /\ response = [w \in Waiters |-> None]
    /\ result = [w \in Waiters |-> None]
    /\ ended = [c \in Contexts |-> "running"]
    /\ mined = {}
    /\ failed = [w \in Waiters |-> {}]

Return(w, r) ==
    /\ pc' = [pc EXCEPT ![w] = "returned"]
    /\ result' = [result EXCEPT ![w] = r]

\* ctx.Err(), by itself or wrapped by net/http.
ContextError(w) == [kind |-> "error", cause |-> ended[ContextOf(w)]]

\* sendRequest hands the request to net/http, which refuses one whose context
\* is over.
Poll(w) ==
    /\ pc[w] = "poll"
    /\ ~Over(w)
    /\ pc' = [pc EXCEPT ![w] = "inFlight"]
    /\ UNCHANGED <<timer, response, result, ended, mined, failed>>

\* The context is over before the request is sent, or while it is in flight,
\* even if the answer has arrived by then.
AbortPoll(w) ==
    /\ pc[w] \in {"poll", "inFlight"}
    /\ Over(w)
    /\ response' = [response EXCEPT ![w] = None]
    /\ Return(w, ContextError(w))
    /\ UNCHANGED <<timer, ended, mined, failed>>

\* An empty object is taken for a receipt.
ReturnReceipt_Empty(w) ==
    /\ pc[w] = "inFlight"
    /\ response[w].kind \in {"receipt", "emptyObject"}
    /\ Return(w, response[w])
    /\ response' = [response EXCEPT ![w] = None]
    /\ UNCHANGED <<timer, ended, mined, failed>>

ReturnReceipt(w) ==
    /\ pc[w] = "inFlight"
    /\ response[w].kind = "receipt"
    /\ Return(w, response[w])
    /\ response' = [response EXCEPT ![w] = None]
    /\ UNCHANGED <<timer, ended, mined, failed>>

\* Every error of a poll is reported as an expired wait.
ReturnError_AsContext(w) ==
    /\ pc[w] = "inFlight"
    /\ response[w].kind \in Failures
    /\ Return(w, [kind |-> "error", cause |-> "DeadlineExceeded"])
    /\ response' = [response EXCEPT ![w] = None]
    /\ UNCHANGED <<timer, ended, mined, failed>>

\* No poll is repeated after an error, be it the timeout of one poll.
ReturnError(w) ==
    /\ pc[w] = "inFlight"
    /\ response[w].kind \in Failures
    /\ Return(w, [kind |-> "error", cause |-> CauseOf(response[w].kind)])
    /\ response' = [response EXCEPT ![w] = None]
    /\ UNCHANGED <<timer, ended, mined, failed>>

\* Not mined yet: time.NewTimer, and into the select.
StartTimer(w) ==
    /\ pc[w] = "inFlight"
    /\ response[w].kind \in NoReceipt
    /\ pc' = [pc EXCEPT ![w] = "select"]
    /\ timer' = [timer EXCEPT ![w] = "armed"]
    /\ response' = [response EXCEPT ![w] = None]
    /\ UNCHANGED <<result, ended, mined, failed>>

\* case <-timer.C
SelectTimer(w) ==
    /\ pc[w] = "select"
    /\ timer[w] = "fired"
    /\ pc' = [pc EXCEPT ![w] = "poll"]
    /\ timer' = [timer EXCEPT ![w] = "off"]
    /\ UNCHANGED <<response, result, ended, mined, failed>>

\* What Timer.Stop reports: that it kept a tick from being received.
StopReports(w) ==
    \/ timer[w] = "armed"
    \/ timer[w] = "fired" /\ w \notin AsyncTimers

\* The timer is not stopped; the channel is drained in the wrong case.
SelectDone_NoStop(w) ==
    /\ pc[w] = "select"
    /\ Over(w)
    /\ Return(w, ContextError(w))
    /\ UNCHANGED <<timer, response, ended, mined, failed>>
SelectDone_DrainStopped(w) ==
    /\ pc[w] = "select"
    /\ Over(w)
    /\ timer' = [timer EXCEPT ![w] = "off"]
    /\ IF StopReports(w)
       THEN pc' = [pc EXCEPT ![w] = "drain"] /\ UNCHANGED result
       ELSE Return(w, ContextError(w))
    /\ UNCHANGED <<response, ended, mined, failed>>

\* case <-ctx.Done(): the timer is stopped, and its channel drained if Stop
\* says that it was too late for that.
SelectDone(w) ==
    /\ pc[w] = "select"
    /\ Over(w)
    /\ IF StopReports(w)
       THEN Return(w, ContextError(w)) /\ timer' = [timer EXCEPT ![w] = "off"]
       ELSE pc' = [pc EXCEPT ![w] = "drain"] /\ UNCHANGED <<timer, result>>
    /\ UNCHANGED <<response, ended, mined, failed>>

\* <-timer.C after Stop; it blocks when there is no tick to come.
Drain(w) ==
    /\ pc[w] = "drain"
    /\ timer[w] = "fired"
    /\ timer' = [timer EXCEPT ![w] = "off"]
    /\ Return(w, ContextError(w))
    /\ UNCHANGED <<response, ended, mined, failed>>

-----------------------------------------------------------------------------
(* The environment: the node, the clock, the owners of the contexts.       *)

\* The node answers by what it knows now.
NodeAnswers(w, kind) ==
    /\ pc[w] = "inFlight" /\ response[w] = None
    /\ IF HashOf(w) \in mined THEN kind = "receipt" ELSE kind \in NoReceipt
    /\ response' = [response EXCEPT ![w] =
                       IF kind = "receipt"
                       THEN [kind |-> kind, hash |-> HashOf(w)]
                       ELSE [kind |-> kind]]
    /\ UNCHANGED <<pc, timer, result, ended, mined, failed>>

CallFails(w, failure) ==
    /\ pc[w] = "inFlight" /\ response[w] = None
    /\ response' = [response EXCEPT ![w] = [kind |-> failure]]
    /\ failed' = [failed EXCEPT ![w] = @ \cup {failure}]
    /\ UNCHANGED <<pc, timer, result, ended, mined>>

TimerFires(w) ==
    /\ timer[w] = "armed"
    /\ timer' = [timer EXCEPT ![w] = "fired"]
    /\ UNCHANGED <<pc, response, result, ended, mined, failed>>

ContextEnds(c, how) ==
    /\ ended[c] = "running"
    /\ ended' = [ended EXCEPT ![c] = how]
    /\ UNCHANGED <<waiterVars, mined, failed>>

Mine(h) ==
    /\ h \notin mined
    /\ mined' = mined \cup {h}
    /\ UNCHANGED <<waiterVars, ended, failed>>

-----------------------------------------------------------------------------
Waiter(w) ==
    \/ Poll(w) \/ AbortPoll(w)
    \/ ReturnReceipt(w) \/ ReturnError(w) \/ StartTimer(w)
    \/ SelectTimer(w) \/ SelectDone(w) \/ Drain(w)

Next ==
    \/ \E w \in Waiters :
          \/ Waiter(w)
          \/ \E kind \in NoReceipt \cup {"receipt"} : NodeAnswers(w, kind)
          \/ \E failure \in Failures : CallFails(w, failure)
          \/ TimerFires(w)
    \/ \E c \in Contexts, how \in ContextErrors : ContextEnds(c, how)
    \/ \E h \in Hashes : Mine(h)

\* The Go runtime runs the calls and fires timers, the timer of http.Client
\* included. Nothing is assumed of the node, of contexts, or of mining.
Fairness ==
    \A w \in Waiters :
        /\ WF_vars(Waiter(w))
        /\ WF_vars(TimerFires(w))
        /\ WF_vars(CallFails(w, "timeout"))

Spec == Init /\ [][Next]_vars /\ Fairness

-----------------------------------------------------------------------------
(* Properties.                                                             *)

TypeOK ==
    /\ pc \in [Waiters -> {"poll", "inFlight", "select", "drain", "returned"}]
    /\ timer \in [Waiters -> {"off", "armed", "fired"}]
    /\ response \in [Waiters -> [kind : {"none"} \cup Failures \cup NoReceipt]
                                  \cup [kind : {"receipt"}, hash : Hashes]]
    /\ result \in [Waiters -> {None} \cup [kind : {"receipt"}, hash : Hashes]
                       \cup [kind : {"error"}, cause : Causes]]
    /\ ended \in [Contexts -> {"running"} \cup ContextErrors]
    /\ mined \subseteq Hashes
    /\ failed \in [Waiters -> SUBSET Failures]

\* The polling implements the promise: a receipt is one the chain has, an error
\* means that the context ended or a request failed, a call returns once, and
\* a call whose transaction is mined, or whose context ends, does return, in
\* whatever phase of the loop that strikes (client.go:304-327).
Wait == INSTANCE ReceiptWait WITH
            over <- {w \in Waiters : Over(w)},
            failed <- {w \in Waiters : failed[w] # {}},
            outcome <- [w \in Waiters |-> result[w].kind]
ImplementsWait == Wait!Spec

\* The cause a caller is told is the true one: its own transaction's receipt; a
\* cancellation only when its own context was cancelled; an exceeded deadline only
\* when its own context reached it or a request of its own ran out of the client's
\* 30 s, which errors.Is does not tell apart; and another error only when a
\* request of its own failed in just that way (client.go:309-323).
CauseIsTrue ==
    \A w \in Waiters :
        /\ result[w].kind = "receipt" => result[w].hash = HashOf(w)
        /\ result[w].kind = "error" =>
               \/ Over(w) /\ result[w].cause = ended[ContextOf(w)]
               \/ \E failure \in failed[w] : result[w].cause = CauseOf(failure)

\* What client.go:302 says, "polls until a transaction receipt is available or the
\* context expires": a caller that is told of an exceeded deadline has a context
\* that is over.
PollsUntilExpiry ==
    \A w \in Waiters :
        result[w].kind = "error" /\ result[w].cause = "DeadlineExceeded" => Over(w)

\* A drain always finds its tick: the read of the timer's channel after Stop
\* (client.go:321) does not block, whichever timers the program runs with.
DrainNeverBlocks ==
    \A w \in Waiters : pc[w] = "drain" => timer[w] = "fired"

\* A call that has returned leaves no timer running and no tick behind.
NoTimerLeft ==
    \A w \in Waiters : pc[w] = "returned" => timer[w] = "off"
=============================================================================

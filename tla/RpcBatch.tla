------------------------------- MODULE RpcBatch -------------------------------
(***************************************************************************)
(* Batches of JSON-RPC requests (pkg/client): BatchRequest collects them   *)
(* and numbers them, SendBatch sends them in one HTTP request and returns  *)
(* the responses as the node put them together. JSON-RPC lets a node work  *)
(* on the requests in any order and answer in any other; what belongs to a *)
(* response is told by its id.                                             *)
(*                                                                         *)
(* A request's id is an int when it is sent and a float64 when it is read  *)
(* back (interface{}): ids are compared by value.                          *)
(*                                                                         *)
(* Names with an underscore are faulty variants of the definition that     *)
(* follows them: the bugs that the properties are tested against.          *)
(***************************************************************************)
EXTENDS Naturals, SequencesExt, FiniteSets

CONSTANTS MaxRequests  \* bound on the requests of a batch

ASSUME BatchAssumption == MaxRequests \in Nat

VARIABLES
    requests,   \* the requests of the batch, in the order they were added
    nextID,     \* the id of the next one
    call,       \* where SendBatch is: idle, sent, returned, failed
    evaluated,  \* the responses the node has ready
    responses   \* the responses it sent, in its order

batchVars == <<requests, nextID, call, evaluated, responses>>

BatchInit ==
    /\ requests = <<>> /\ nextID = 1
    /\ call = "idle" /\ evaluated = {} /\ responses = <<>>

\* A program is done with a batch and starts another one.
NewBatchRequest ==
    /\ call \in {"returned", "failed"}
    /\ requests' = <<>> /\ nextID' = 1
    /\ call' = "idle" /\ evaluated' = {} /\ responses' = <<>>

\* All requests get the id of a single call.
Add_SameID(query) ==
    /\ call = "idle" /\ Len(requests) < MaxRequests
    /\ requests' = Append(requests, [id |-> 1, query |-> query])
    /\ UNCHANGED <<nextID, call, evaluated, responses>>

Add(query) ==
    /\ call = "idle" /\ Len(requests) < MaxRequests
    /\ requests' = Append(requests, [id |-> nextID, query |-> query])
    /\ nextID' = nextID + 1
    /\ UNCHANGED <<call, evaluated, responses>>

\* An empty batch is not sent.
SendBatch ==
    /\ call = "idle"
    /\ call' = IF requests = <<>> THEN "returned" ELSE "sent"
    /\ UNCHANGED <<requests, nextID, evaluated, responses>>

\* The request or its response is lost, the context or the client's timeout
\* ends the wait, the status is not 200, or the body is not an array (a node
\* that takes no batches answers with one error object).
SendBatchFails ==
    /\ call = "sent"
    /\ call' = "failed" /\ evaluated' = {}
    /\ UNCHANGED <<requests, nextID, responses>>

\* The node works on the i-th request, and has a result or an RPC error.
NodeEvaluates(i, response) ==
    /\ call = "sent" /\ i \in DOMAIN requests
    /\ ~\E e \in evaluated : e.at = i
    /\ evaluated' = evaluated \cup {[at |-> i, id |-> requests[i].id, response |-> response]}
    /\ UNCHANGED <<requests, nextID, call, responses>>

\* It answers in any order, and the array is decoded as it comes.
SendBatchReturns ==
    /\ call = "sent" /\ Cardinality(evaluated) = Len(requests)
    /\ \E order \in SetToSeqs(evaluated) :
          responses' = [i \in DOMAIN order |-> [id |-> order[i].id,
                                                response |-> order[i].response]]
    /\ call' = "returned" /\ evaluated' = {}
    /\ UNCHANGED <<requests, nextID>>

\* The responses to a request, by its id.
ResponsesTo(request) ==
    {r.response : r \in {r \in ToSet(responses) : r.id = request.id}}
=============================================================================

----------------------------- MODULE ReceiptWait -----------------------------
(***************************************************************************)
(* What WaitForReceipt promises its callers, without the polling: "until a *)
(* transaction receipt is available or the context expires" (client.go:302)*)
(* plus what its error result adds, that it gives up when a call to the    *)
(* node fails.                                                             *)
(***************************************************************************)
CONSTANTS
    Waiters,         \* concurrent calls of WaitForReceipt
    Hashes,          \* transaction hashes
    HashOf(_)        \* the transaction each call waits for

VARIABLES
    mined,    \* the transactions that have a receipt
    over,     \* the calls whose context is over
    failed,   \* the calls one of whose requests to the node failed
    outcome   \* what each call returned

vars == <<mined, over, failed, outcome>>

Init ==
    /\ mined = {} /\ over = {} /\ failed = {}
    /\ outcome = [w \in Waiters |-> "none"]

Mine(h) ==
    /\ mined' = mined \cup {h}
    /\ UNCHANGED <<over, failed, outcome>>

\* A context may be shared: several calls end at once.
End(W) ==
    /\ over' = over \cup W
    /\ UNCHANGED <<mined, failed, outcome>>

Fail(w) ==
    /\ outcome[w] = "none"
    /\ failed' = failed \cup {w}
    /\ UNCHANGED <<mined, over, outcome>>

Return(w, result) ==
    /\ outcome[w] = "none"
    /\ outcome' = [outcome EXCEPT ![w] = result]
    /\ UNCHANGED <<mined, over, failed>>

ReturnReceipt(w) == HashOf(w) \in mined /\ Return(w, "receipt")
ReturnError(w)   == w \in over \cup failed /\ Return(w, "error")

Next ==
    \/ \E h \in Hashes : Mine(h)
    \/ \E W \in SUBSET Waiters : End(W)
    \/ \E w \in Waiters : Fail(w) \/ ReturnReceipt(w) \/ ReturnError(w)

\* A call with a reason to return does return.
Fairness == \A w \in Waiters : WF_vars(ReturnReceipt(w) \/ ReturnError(w))

Spec == Init /\ [][Next]_vars /\ Fairness
=============================================================================

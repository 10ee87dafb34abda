-------------------------- MODULE MCReceiptPolling --------------------------
(* ReceiptPolling for TLC: two calls wait for the same transaction, one of *)
(* them with a context that never ends, and one for another transaction.   *)
EXTENDS ReceiptPolling

CONSTANTS w1, w2, w3, h1, h2, deadline, background

MCHashOf(w) == IF w = w3 THEN h2 ELSE h1
MCContextOf(w) == IF w = w2 THEN background ELSE deadline
=============================================================================

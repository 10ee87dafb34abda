-------------------------- MODULE MCFeePayerRelay --------------------------
(* FeePayerRelay for TLC: one sender with two payments, sent in every form *)
(* a client may give them.                                                 *)
EXTENDS FeePayerRelay

CONSTANTS alice, paula, otherToken

MCBodies == {[nonce |-> 0, calls |-> "none"], [nonce |-> 0, calls |-> "pay"],
             [nonce |-> 1, calls |-> "pay"]}
MCEmptyBody == [nonce |-> 0, calls |-> "none"]
MCIncompleteBodies == {MCEmptyBody}
MCNonce(b) == b.nonce

Draft(n, sponsored) ==
    [New EXCEPT !.body = [nonce |-> n, calls |-> "pay"], !.awaiting = sponsored]
Signed(n, sponsored) == SignTransaction(Draft(n, sponsored), alice)

MCClientTxs ==
    {\* two sponsored payments, and the first again with another payer and token
     Signed(0, TRUE), Signed(1, TRUE),
     AddFeePayerSignature([Signed(0, TRUE) EXCEPT !.feeToken = otherToken], paula),
     \* the first payment signed to be paid by the sender
     Signed(0, FALSE),
     \* no signature, a keychain signature, and an edit after signing
     Draft(0, TRUE),
     SignWithAccessKey(Draft(0, TRUE), paula, alice),
     [Signed(0, TRUE) EXCEPT !.body = [nonce |-> 1, calls |-> "pay"]],
     \* the marker taken back after signing, and the chain id left out
     [Signed(0, TRUE) EXCEPT !.awaiting = FALSE],
     [Signed(1, TRUE) EXCEPT !.chainID = 0]}
=============================================================================

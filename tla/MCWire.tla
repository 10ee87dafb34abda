-------------------------------- MODULE MCWire --------------------------------
(* Wire for TLC: bytes of three values, words and addresses of two bytes,  *)
(* so that the numbers of a word end at 8 and the main chain has id 5.     *)
EXTENDS Wire

MCPlain == [New EXCEPT !.num["gas"] = 3]

MCSignature == [type |-> "secp256k1", r |-> 4, s |-> 1, yParity |-> 1]
MCFeePayerSignature == [yParity |-> 0, r |-> 8, s |-> 3]
MCRaw(type, marked) == [type |-> type, endsLikeMarker |-> marked]
MCEnvelopes ==
    {MCSignature, MCRaw("keychain", FALSE), MCRaw("webauthn", TRUE),
     MCRaw("unknown", FALSE), [type |-> "hollow"],
     [MCSignature EXCEPT !.yParity = 2], [MCSignature EXCEPT !.s = 9],
     [MCSignature EXCEPT !.r = -8]}

MCCalls ==
    <<[to |-> <<4>>, value |-> 0, data |-> Empty],
      [to |-> <<>>, value |-> 9, data |-> Bytes(3, 1)]>>

MCFull ==
    [MCPlain EXCEPT !.num["gas"] = 8, !.num["nonceKey"] = 9, !.awaiting = TRUE,
                    !.calls = MCCalls,
                    !.accessList = <<[address |-> 0, keys |-> <<0, 8>>]>>]

MCOwnTxs ==
    {MCPlain,
     New,
     [MCPlain EXCEPT !.num["chainID"] = 0, !.calls = MCCalls],
     MCFull,
     [MCPlain EXCEPT !.feeToken = 7, !.feePayerSig = <<MCFeePayerSignature>>],
     [MCPlain EXCEPT !.awaiting = TRUE, !.feePayerSig = <<MCFeePayerSignature>>]}

\* As FuzzSerializeDeserializeRoundTrip makes them.
MCNegative ==
    [MCPlain EXCEPT !.num["chainID"] = -5, !.num["nonceKey"] = -9,
                    !.calls = <<[to |-> <<4>>, value |-> -1, data |-> Empty]>>]

\* Values that nothing checks before they are written.
MCIllFormed ==
    {MCNegative}
    \cup {[MCPlain EXCEPT !.feePayerSig = <<s>>] :
              s \in {[MCFeePayerSignature EXCEPT !.yParity = 2],
                     [MCFeePayerSignature EXCEPT !.r = 9],
                     [MCFeePayerSignature EXCEPT !.s = -10],
                     [MCFeePayerSignature EXCEPT !.s = -8]}}
MCAllOwnTxs == MCOwnTxs \cup MCIllFormed

MCCarriers == {MCPlain}
MCTemplates == {MCFull}

MCLimit(amount, period) == [token |-> 1, amount |-> amount, period |-> period]
MCLimitLists ==
    {<<>>, <<MCLimit(<<0>>, 2)>>, <<MCLimit(<<8>>, 0), MCLimit(<<1>>, 0)>>,
     <<MCLimit(<<9>>, 0)>>, <<MCLimit(<<>>, 0)>>}

MCScopeLists ==
    {<<>>, <<[target |-> 1, rules |-> <<>>],
             [target |-> 0, rules |-> <<[selector |-> 0, recipients |-> <<>>],
                                        [selector |-> 7, recipients |-> <<2, 0>>]>>]>>}

\* Numbers with leading zeros, at the end of a word and beyond it, and lists.
MCNumbers == {Bytes(0, 0), Bytes(1, 0), Bytes(2, 2), Bytes(2, 8), Bytes(3, 8),
              Bytes(3, 9), Bytes(4, 2), List(<<>>)}
MCNumOddities == {"chainID", "gas", "nonceKey", "validBefore"} \X MCNumbers

MCCall(to, value, data) == List(<<to, value, data>>)
MCSecp256k1(id) ==
    Envelope([type |-> "secp256k1", r |-> 0, s |-> 8, recoveryID |-> id])
MCKeyAuth == List(<<List(<<>>)>>)

MCOddities ==
    ({"prefix"} \X {"78"})
    \cup ({"calls"} \X
       {Empty, List(<<Empty>>), List(<<List(<<Empty, Empty>>)>>),
        List(<<MCCall(Bytes(1, 2), Bytes(2, 1), List(<<>>))>>),
        List(<<MCCall(Bytes(3, 13), List(<<>>), Bytes(2, 0))>>),
        List(<<MCCall(List(<<>>), Bytes(1, 1), Bytes(1, 0))>>)})
    \cup ({"accessList"} \X
       {Empty, List(<<Empty>>), List(<<List(<<Empty>>)>>),
        List(<<List(<<List(<<>>), List(<<>>)>>)>>), List(<<List(<<Empty, Empty>>)>>),
        List(<<List(<<Bytes(1, 1), List(<<Bytes(3, 10)>>)>>)>>),
        List(<<List(<<Empty, List(<<List(<<>>)>>)>>)>>)})
    \cup ({"feeToken"} \X {Bytes(1, 0), Bytes(1, 2), Bytes(3, 10), Bytes(2, 4), List(<<>>)})
    \cup ({"feePayer"} \X
       {Empty, Marker, Bytes(1, 1), Bytes(2, 0), List(<<>>), List(<<Empty, Empty>>),
        List(<<Empty, Empty, Empty>>), List(<<Bytes(1, 0), Bytes(2, 1), Bytes(1, 2)>>),
        List(<<Bytes(1, 1), Bytes(2, 8), Bytes(2, 3)>>),
        List(<<Bytes(1, 2), Bytes(1, 1), Bytes(1, 1)>>),
        List(<<Bytes(2, 1), Bytes(1, 1), Bytes(1, 1)>>),
        List(<<Empty, Bytes(3, 9), Bytes(1, 1)>>),
        List(<<Empty, Bytes(1, 1), Bytes(3, 1)>>),
        List(<<Empty, List(<<>>), Bytes(1, 1)>>)})
    \cup ({"authList"} \X {Empty, List(<<Empty>>)})
    \cup ({"tail"} \X
      ({<<>>, <<Empty>>, <<Bytes(1, 1)>>, <<MCKeyAuth>>, <<List(<<>>)>>,
        <<MCKeyAuth, Empty>>, <<Empty, MCSecp256k1(0)>>, <<MCKeyAuth, MCKeyAuth>>,
        <<MCKeyAuth, MCSecp256k1(28)>>, <<MCKeyAuth, Envelope(MCRaw("p256", FALSE))>>,
        <<Envelope(MCRaw("unknown", FALSE))>>, <<Envelope(MCRaw("webauthn", TRUE))>>,
        <<MCKeyAuth, MCSecp256k1(0), Empty>>}
       \cup {<<MCSecp256k1(id)>> : id \in {0, 1, 2, 27, 28}}))
=============================================================================

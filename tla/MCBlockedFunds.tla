---------------------------- MODULE MCBlockedFunds ----------------------------
(* A transfer from the program's own account and a mint by somebody else, and logs
   that are not the guard's. *)
EXTENDS BlockedFunds

CONSTANTS Watcher_mc, Other_mc, Zero_mc, Receiver_mc, Token_mc, NoMemo_mc

MCPayments == {1, 2}

MCPayment(p) ==
    [from |-> IF p = 1 THEN Watcher_mc ELSE Other_mc, token |-> Token_mc,
     amount |-> p, kind |-> p - 1, memo |-> NoMemo_mc]

\* Accept everything; block every sender, to be recovered by who paid; block every
\* token, to be recovered by the program.
MCPolicies ==
    {[senders |-> 1, tokens |-> 1, authority |-> Zero_mc],
     [senders |-> 0, tokens |-> 1, authority |-> Zero_mc],
     [senders |-> 1, tokens |-> 0, authority |-> Watcher_mc]}

MCWord(v) == [val |-> v, high |-> FALSE]

ForeignReceipt(version, reason, nonce) ==
    <<MCWord(version), MCWord(Token_mc), MCWord(Watcher_mc), MCWord(Other_mc),
      MCWord(Receiver_mc), MCWord(1), nonce, MCWord(reason), MCWord(0), MCWord(NoMemo_mc)>>

ForeignLog(topics, receipt) ==
    [topics |-> topics, data |-> <<MCWord(5), MCWord(1)>>, receipt |-> receipt]

Topics(first, nonce) == <<MCWord(first), MCWord(Token_mc), MCWord(Receiver_mc), nonce>>

Wide == [val |-> 9, high |-> TRUE]

LogWithData(data) ==
    [topics |-> Topics("TransferBlocked", MCWord(9)), data |-> data,
     receipt |-> ForeignReceipt(1, 2, MCWord(9))]

\* What the guard may issue for the first payment.
MCEarlyReceipt ==
    <<MCWord(1), MCWord(Token_mc), MCWord(Watcher_mc), MCWord(Watcher_mc),
      MCWord(Receiver_mc), MCWord(1), MCWord(0), MCWord(1), MCWord(0), MCWord(NoMemo_mc)>>

\* Two with data that cannot be unpacked: cut short, and with a version that is not
\* a byte; another event, one without its last topic, one with a nonce of more than
\* 64 bits; and four that look like the guard's: a receipt that is too long, one of
\* another version, one with a reason that does not exist, and a good one for
\* funds that are not blocked, or not yet.
MCForeignLogs ==
    {LogWithData(<<MCWord(5)>>), LogWithData(<<MCWord(5), Wide>>),
     ForeignLog(Topics("Transfer", MCWord(9)), ForeignReceipt(1, 2, MCWord(9))),
     ForeignLog(SubSeq(Topics("TransferBlocked", MCWord(9)), 1, 3), ForeignReceipt(1, 2, MCWord(9))),
     ForeignLog(Topics("TransferBlocked", Wide), ForeignReceipt(1, 2, Wide)),
     ForeignLog(Topics("TransferBlocked", MCWord(9)),
                Append(ForeignReceipt(1, 2, MCWord(9)), MCWord(0))),
     ForeignLog(Topics("TransferBlocked", MCWord(9)), ForeignReceipt(2, 2, MCWord(9))),
     ForeignLog(Topics("TransferBlocked", MCWord(9)), ForeignReceipt(1, 3, MCWord(9))),
     ForeignLog(Topics("TransferBlocked", MCWord(0)), MCEarlyReceipt)}
=============================================================================

\* Two payments, batches of two requests, seven foreign logs.
SPECIFICATION Spec
CONSTANTS
    MaxRequests = 2
    Watcher_mc = Watcher_mc
    Other_mc = Other_mc
    Zero_mc = Zero_mc
    Receiver_mc = Receiver_mc
    Token_mc = Token_mc
    NoMemo_mc = NoMemo_mc
    Watcher = Watcher_mc
    Zero = Zero_mc
    Account = Receiver_mc
    Policies <- MCPolicies
    Payments <- MCPayments
    Payment <- MCPayment
    ForeignLogs <- MCForeignLogs
INVARIANTS TypeOK AnswersBelong BlockedIsRecoverable

CONSTANTS
    Programs = {a, b}
    NonceKeys = {k1, k2}
    Misconfigured = {b}
    MaxNonce = 1
SPECIFICATION Spec
INVARIANTS TypeOK NobodyOutlivesTheRound NoNonceIsLost CountIsHonest
PROPERTIES EveryRunEnds
CHECK_DEADLOCK FALSE

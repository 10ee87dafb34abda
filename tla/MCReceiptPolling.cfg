CONSTANTS
    w1 = w1
    w2 = w2
    w3 = w3
    h1 = h1
    h2 = h2
    deadline = deadline
    background = background
    Waiters = {w1, w2, w3}
    Hashes = {h1, h2}
    HashOf <- MCHashOf
    Contexts = {deadline}
    ContextOf <- MCContextOf
    AsyncTimers = {w1}
SPECIFICATION Spec
INVARIANTS TypeOK CauseIsTrue DrainNeverBlocks NoTimerLeft
PROPERTIES ImplementsWait
CHECK_DEADLOCK FALSE

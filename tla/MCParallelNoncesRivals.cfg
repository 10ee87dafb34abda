CONSTANTS
    Programs = {a, b}
    NonceKeys = {k1, k2}
    Misconfigured = {}
    MaxNonce = 2
SYMMETRY KeySymmetry
SPECIFICATION Spec
INVARIANTS NoGuessedNonce CountIsHonest OnlyRivalsCollide
CHECK_DEADLOCK FALSE

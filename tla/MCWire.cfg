CONSTANTS
    Byte = 3
    WordLen = 2
    AddressLen = 2
    HashLen = 2
    MainnetId = 5
    Roots = {0, 1}
    KeyTypes = {1, 3}
    Expiries = {0, 6}
    LimitLists <- MCLimitLists
    ScopeLists <- MCScopeLists
    Witnesses = {0}
    NoAuth = noAuth
    OwnTxs <- MCAllOwnTxs
    Carriers <- MCCarriers
    Templates <- MCTemplates
    MaxEdits = 4
    Envelopes <- MCEnvelopes
    Oddities <- MCOddities
    NumOddities <- MCNumOddities
    MaxOddities = 2
    MaxHops = 2
    NoWire = noWire
SPECIFICATION Spec
INVARIANTS TypeOK HopsAgree OwnStringsAreRead CanonicalIsKept GrantIsAsSigned
CHECK_DEADLOCK FALSE

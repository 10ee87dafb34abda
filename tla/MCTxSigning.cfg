CONSTANTS
    Keys = {alice, paula}
    ZeroAddr = zeroAddr
    StrayAddr = strayAddr
    Bodies = {none, pay}
    IncompleteBodies = {none}
    EmptyBody = none
    ChainIds = {0, 4217}
    Tokens = {usd}
    NoToken = noToken
    KeyAuths = {grant}
    NoKeyAuth = noKeyAuth
    MaxSignings = 2
SYMMETRY KeySymmetry
SPECIFICATION Spec
INVARIANTS TypeOK SenderConsent FeePayerConsent AccessKeyConsent TransferIsFaithful
PROPERTIES SponsorshipKeepsSender
